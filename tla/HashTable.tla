----------------------------- MODULE HashTable -----------------------------
(***************************************************************************)
(* hash/ht.c: the open-addressing hash table under every symbol table.     *)
(* One step is one turn of a probing, rehashing or iterating loop.  The    *)
(* answer of malloc, calloc and strdup is a choice: each may fail.         *)
(*                                                                         *)
(* Key and value pointers are members of Keys and Values; the FNV-1a hash  *)
(* is the constant Hash, and SizeMax is the largest size_t.                *)
(***************************************************************************)
EXTENDS Integers, FiniteSets

CONSTANTS
    Keys,            \* the strings callers pass
    Values,          \* the pointers callers store; NULL is not one
    NULL,
    Hash,            \* hash_key, as a function of the key
    InitialCapacity,
    SizeMax

ASSUME ConstantsAssumption ==
    /\ IsFiniteSet(Keys)
    /\ NULL \notin Keys \cup Values
    /\ Hash \in [Keys -> Nat]
    /\ InitialCapacity \in Nat \ {0}
    /\ SizeMax \in Nat /\ InitialCapacity <= SizeMax

VARIABLES
    entries, capacity, length,  \* struct ht
    fresh, i,                   \* new_entries and i of ht_expand
    probe,                      \* key, value and index of the probing loop
    arg,                        \* key and value of the ht_set in progress
    hti, seen,                  \* the iterator's _index; the keys it gave out
    pc, answer                  \* where the call is; what the last one answered

table == <<entries, capacity, length>>
iterator == <<hti, seen>>
vars == <<table, fresh, i, probe, arg, iterator, pc, answer>>

-----------------------------------------------------------------------------
Slots(cap) == 0 .. cap - 1
EmptyEntry == [key |-> NULL, value |-> NULL]
NoEntries(cap) == [s \in Slots(cap) |-> EmptyEntry]
Used(a, cap) == {s \in Slots(cap) : a[s].key # NULL}

(* capacity * 2, wrapping like a size_t.                                   *)
Doubled(cap) == IF 2 * cap <= SizeMax THEN 2 * cap ELSE 2 * cap - SizeMax - 1

(* hash & (cap - 1), the capacity being a power of two.                    *)
Home(k, cap) == Hash[k] % cap

(* Mutant of ht.c 81: the probe does not wrap.                             *)
NextSlotUnwrapped(s, cap) == s + 1

NextSlot(s, cap) == IF s + 1 >= cap THEN 0 ELSE s + 1

ProbeFor(k, v, cap) == [key |-> k, value |-> v, index |-> Home(k, cap)]
NoProbe == [key |-> NULL, value |-> NULL, index |-> 0]
NoArg == [key |-> NULL, value |-> NULL]

Reply(call, key, result) == [call |-> call, key |-> key, result |-> result]

Return(call, key, result) == /\ answer' = Reply(call, key, result)
                             /\ pc' = "idle"
                             /\ probe' = NoProbe
                             /\ arg' = NoArg

-----------------------------------------------------------------------------
Init ==
    /\ entries = NoEntries(0) /\ capacity = 0 /\ length = 0
    /\ fresh = NoEntries(0) /\ i = 0
    /\ probe = NoProbe /\ arg = NoArg
    /\ hti = 0 /\ seen = {}
    /\ pc = "none" /\ answer = Reply("none", NULL, NULL)

(* ht_create; when it fails there still is no table.                       *)
Create ==
    /\ pc = "none"
    /\ entries' = NoEntries(InitialCapacity)
    /\ capacity' = InitialCapacity
    /\ length' = 0
    /\ Return("reset", NULL, NULL)
    /\ UNCHANGED <<fresh, i, iterator>>

Destroy ==
    /\ pc = "idle"
    /\ entries' = NoEntries(0) /\ capacity' = 0 /\ length' = 0
    /\ hti' = 0 /\ seen' = {}
    /\ pc' = "none" /\ answer' = Reply("reset", NULL, NULL)
    /\ UNCHANGED <<fresh, i, probe, arg>>

-----------------------------------------------------------------------------
(* ht_get                                                                  *)
GetCall(k) ==
    /\ pc = "idle"
    /\ probe' = ProbeFor(k, NULL, capacity)
    /\ pc' = "get"
    /\ UNCHANGED <<table, fresh, i, arg, iterator, answer>>

(* One turn of a probing loop over array a that neither hits nor ends.     *)
Advance(a, cap) ==
    /\ a[probe.index].key \notin {NULL, probe.key}
    /\ probe' = [probe EXCEPT !.index = NextSlot(probe.index, cap)]
    /\ UNCHANGED <<table, fresh, i, arg, iterator, pc, answer>>

GetAdvance == pc = "get" /\ Advance(entries, capacity)

GetHit ==
    /\ pc = "get"
    /\ entries[probe.index].key = probe.key
    /\ Return("get", probe.key, entries[probe.index].value)
    /\ UNCHANGED <<table, fresh, i, iterator>>

GetMiss ==
    /\ pc = "get"
    /\ entries[probe.index].key = NULL
    /\ Return("get", probe.key, NULL)
    /\ UNCHANGED <<table, fresh, i, iterator>>

-----------------------------------------------------------------------------
(* ht_set.  ht.h: not called during an iteration; hti is 0 outside one.    *)
SetCall(k, v) ==
    /\ pc = "idle"
    /\ hti = 0
    /\ arg' = [key |-> k, value |-> v]
    /\ pc' = "set"
    /\ UNCHANGED <<table, fresh, i, probe, iterator, answer>>

(* Mutant of ht.c 159: the array grows only when it is full.               *)
MustExpandFull == length >= capacity

MustExpand == length >= capacity \div 2

StartInsert(cap) == /\ probe' = ProbeFor(arg.key, arg.value, cap)
                    /\ pc' = "insert"

SetInPlace ==
    /\ pc = "set"
    /\ ~ MustExpand
    /\ StartInsert(capacity)
    /\ UNCHANGED <<table, fresh, i, arg, iterator, answer>>

(* ht_expand answers false: the doubled size wraps, or calloc fails.       *)
ExpandFails ==
    /\ pc = "set"
    /\ MustExpand
    /\ Return("set", arg.key, NULL)
    /\ UNCHANGED <<table, fresh, i, iterator>>

ExpandStart ==
    /\ pc = "set"
    /\ MustExpand
    /\ Doubled(capacity) >= capacity
    /\ fresh' = NoEntries(Doubled(capacity))
    /\ i' = 0
    /\ pc' = "rehash"
    /\ UNCHANGED <<table, probe, arg, iterator, answer>>

RehashSkip ==
    /\ pc = "rehash"
    /\ i < capacity
    /\ entries[i].key = NULL
    /\ i' = i + 1
    /\ UNCHANGED <<table, fresh, probe, arg, iterator, pc, answer>>

(* Mutant of ht.c 141: the keys keep their place modulo the old capacity.  *)
RehashMoveOldHome ==
    /\ pc = "rehash"
    /\ i < capacity
    /\ entries[i].key # NULL
    /\ probe' = ProbeFor(entries[i].key, entries[i].value, capacity)
    /\ pc' = "move"
    /\ UNCHANGED <<table, fresh, i, arg, iterator, answer>>

RehashMove ==
    /\ pc = "rehash"
    /\ i < capacity
    /\ entries[i].key # NULL
    /\ probe' = ProbeFor(entries[i].key, entries[i].value, Doubled(capacity))
    /\ pc' = "move"
    /\ UNCHANGED <<table, fresh, i, arg, iterator, answer>>

MoveAdvance == pc = "move" /\ Advance(fresh, Doubled(capacity))

(* ht_set_entry with plength NULL: the key pointer itself moves.           *)
MoveStore ==
    /\ pc = "move"
    /\ fresh[probe.index].key \in {NULL, probe.key}
    /\ fresh' = [fresh EXCEPT ![probe.index] =
                    [key |-> probe.key, value |-> probe.value]]
    /\ i' = i + 1
    /\ pc' = "rehash"
    /\ probe' = NoProbe
    /\ UNCHANGED <<table, arg, iterator, answer>>

(* Mutant of ht.c 138: as many slots are moved as there are keys.          *)
RehashDoneEarly ==
    /\ pc = "rehash"
    /\ i >= length
    /\ entries' = fresh
    /\ capacity' = Doubled(capacity)
    /\ fresh' = NoEntries(0)
    /\ i' = 0
    /\ StartInsert(Doubled(capacity))
    /\ UNCHANGED <<length, arg, iterator, answer>>

RehashDone ==
    /\ pc = "rehash"
    /\ i = capacity
    /\ entries' = fresh
    /\ capacity' = Doubled(capacity)
    /\ fresh' = NoEntries(0)
    /\ i' = 0
    /\ StartInsert(Doubled(capacity))
    /\ UNCHANGED <<length, arg, iterator, answer>>

InsertAdvance == pc = "insert" /\ Advance(entries, capacity)

InsertUpdate ==
    /\ pc = "insert"
    /\ entries[probe.index].key = probe.key
    /\ entries' = [entries EXCEPT ![probe.index].value = probe.value]
    /\ Return("set", probe.key, probe.value)
    /\ UNCHANGED <<capacity, length, fresh, i, iterator>>

InsertNew ==
    /\ pc = "insert"
    /\ entries[probe.index].key = NULL
    /\ length' = length + 1
    /\ entries' = [entries EXCEPT ![probe.index] =
                      [key |-> probe.key, value |-> probe.value]]
    /\ Return("set", probe.key, probe.value)
    /\ UNCHANGED <<capacity, fresh, i, iterator>>

(* strdup fails.                                                           *)
InsertFails ==
    /\ pc = "insert"
    /\ entries[probe.index].key = NULL
    /\ Return("set", probe.key, NULL)
    /\ UNCHANGED <<table, fresh, i, iterator>>

-----------------------------------------------------------------------------
(* ht_iterator, and ht_next                                                *)
IterateCall ==
    /\ pc = "idle"
    /\ hti' = 0 /\ seen' = {}
    /\ UNCHANGED <<table, fresh, i, probe, arg, pc, answer>>

NextCall ==
    /\ pc = "idle"
    /\ pc' = "next"
    /\ UNCHANGED <<table, fresh, i, probe, arg, iterator, answer>>

NextSkip ==
    /\ pc = "next"
    /\ hti < capacity
    /\ entries[hti].key = NULL
    /\ hti' = hti + 1
    /\ UNCHANGED <<table, fresh, i, probe, arg, seen, pc, answer>>

NextYield ==
    /\ pc = "next"
    /\ hti < capacity
    /\ entries[hti].key # NULL
    /\ hti' = hti + 1
    /\ seen' = seen \cup {entries[hti].key}
    /\ Return("next", entries[hti].key, entries[hti].value)
    /\ UNCHANGED <<table, fresh, i>>

NextEnd ==
    /\ pc = "next"
    /\ hti = capacity
    /\ Return("next", NULL, NULL)
    /\ UNCHANGED <<table, fresh, i, iterator>>

-----------------------------------------------------------------------------
Call == \/ Create
        \/ Destroy
        \/ \E k \in Keys : GetCall(k) \/ \E v \in Values : SetCall(k, v)
        \/ IterateCall
        \/ NextCall

(* The steps of a call in progress: these the processor keeps taking.      *)
Step == \/ GetAdvance \/ GetHit \/ GetMiss
        \/ SetInPlace \/ ExpandFails \/ ExpandStart
        \/ RehashSkip \/ RehashMove \/ MoveAdvance \/ MoveStore \/ RehashDone
        \/ InsertAdvance \/ InsertUpdate \/ InsertNew \/ InsertFails
        \/ NextSkip \/ NextYield \/ NextEnd

Next == Call \/ Step

Spec == Init /\ [][Next]_vars
FairSpec == Spec /\ WF_vars(Step)

-----------------------------------------------------------------------------
Entry == [key : Keys, value : Values] \cup {EmptyEntry}
Probe == [key : Keys \cup {NULL}, value : Values \cup {NULL}, index : Nat]

(* Every variable has its type: in particular the loop indices stay inside *)
(* the array the loop walks, whichever of the two arrays that is.          *)
TypeOK ==
    /\ capacity \in 0 .. SizeMax /\ length \in Nat
    /\ entries \in [Slots(capacity) -> Entry]
    /\ pc \in {"none", "idle", "get", "set", "rehash", "move", "insert", "next"}
    /\ pc = "none" <=> capacity = 0
    /\ IF pc \in {"rehash", "move"}
       THEN /\ Doubled(capacity) \in capacity .. SizeMax
            /\ fresh \in [Slots(Doubled(capacity)) -> Entry]
            /\ i \in 0 .. capacity
       ELSE fresh = NoEntries(0) /\ i = 0
    /\ pc = "move" => i < capacity /\ probe.index < Doubled(capacity)
    /\ pc \in {"get", "insert"} => probe.index < capacity
    /\ probe \in Probe
    /\ pc \in {"get", "insert", "move"} => probe.key \in Keys
    /\ pc \in {"insert", "move"} => probe.value \in Values
    /\ arg \in Entry
    /\ pc \in {"set", "rehash", "move"} => arg.key \in Keys /\ arg.value \in Values
    /\ hti \in 0 .. capacity /\ seen \subseteq Keys

(* How many turns a probe that starts in slot h takes to reach slot s.     *)
Distance(h, s, cap) == IF s >= h THEN s - h ELSE s - h + cap

(* In array a the probe for key k gets from k's home to slot s: on its way *)
(* it meets neither an empty slot nor k.                                   *)
Path(a, cap, k, s) ==
    LET h == Home(k, cap)
    IN  \A t \in Slots(cap) :
           Distance(h, t, cap) < Distance(h, s, cap) => a[t].key \notin {NULL, k}

AllReachable(a, cap) == \A s \in Used(a, cap) : Path(a, cap, a[s].key, s)

(* Linear probing finds every key that was stored, in the one slot that    *)
(* holds it: in the live array, and in the new one while ht_expand fills   *)
(* it (ht.c 73-85, 97-109, 138-144).                                       *)
KeysReachable ==
    /\ AllReachable(entries, capacity)
    /\ pc \in {"rehash", "move"} => AllReachable(fresh, Doubled(capacity))

(* length counts the keys, and the array a probe walks always has an empty *)
(* slot: the loops of ht.c 74 and 97 have no other way to end on a miss.   *)
RoomToProbe ==
    /\ length = Cardinality(Used(entries, capacity))
    /\ pc \in {"get", "insert"} =>
         \E s \in Slots(capacity) : entries[s].key = NULL
    /\ pc = "move" =>
         \E s \in Slots(Doubled(capacity)) : fresh[s].key = NULL

(* The map an array stands for.                                            *)
MapOf(a, cap) ==
    [k \in Keys |-> IF \E s \in Slots(cap) : a[s].key = k
                    THEN a[CHOOSE s \in Slots(cap) : a[s].key = k].value
                    ELSE NULL]

(* The table keeps the promise of ht.h: every call has the effect and the  *)
(* answer of one atomic operation on a map, also when an allocation fails  *)
(* half way through ht_set, and an iteration yields every key once.        *)
Map == INSTANCE KVMap WITH map <- MapOf(entries, capacity)
ImplementsMap == Map!Spec

(* Every call returns: no probing, rehashing or iterating loop runs for    *)
(* ever, as long as the processor keeps taking steps.                      *)
CallsReturn == pc \notin {"none", "idle"} ~> pc = "idle"
=============================================================================
