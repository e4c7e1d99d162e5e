----------------------------- MODULE DeviceTable -----------------------------
(***************************************************************************)
(* The devices of a connection and who may free them (libtinkerforge/      *)
(* bindings/ip_connection.c: the Table, device_create, device_release,     *)
(* device_destroy, ipcon_acquire_device).                                  *)
(*                                                                         *)
(* The application creates a device and destroys it, at any time and in    *)
(* any thread; meanwhile the receive thread and the callback thread look   *)
(* it up by its UID and use it.  A reference count, changed under the      *)
(* devices_ref_mutex, tells when it can be freed.  table_insert is not     *)
(* under that mutex.  One step is one critical section.                    *)
(***************************************************************************)
EXTENDS Integers, Sequences, FiniteSets

CONSTANTS
    Devices,        \* device objects that can be created
    UIDs,
    Workers,        \* threads that look devices up
    Nothing,        \* NULL
    Block           \* by how much a full table grows: 16 in the code

ASSUME TableAssumption ==
    /\ Nothing \notin Devices /\ IsFiniteSet(Workers)
    /\ Block \in Nat \ {0}

Entries == [key : UIDs, value : Devices]

VARIABLES
    table,          \* keys[0 .. used - 1] and values[0 .. used - 1]
    allocated,      \* room for that many entries
    uid, ref_count, \* per device
    made, freed,    \* the devices ever created, and those freed again
    owned,          \* the devices the application has created and not destroyed
    held,           \* per worker: the device it has acquired
    twins           \* history: devices that ever shared their UID with another one

vars == <<table, allocated, uid, ref_count, made, freed, owned, held, twins>>

Init ==
    /\ table = <<>> /\ allocated = Block
    /\ uid \in [Devices -> UIDs] /\ ref_count = [d \in Devices |-> 0]
    /\ made = {} /\ freed = {} /\ owned = {}
    /\ held = [w \in Workers |-> Nothing]
    /\ twins = {}

-----------------------------------------------------------------------------
(* The loops of the table stop at the first entry with the key.             *)
IsFirst(i, u) == /\ i \in DOMAIN table /\ table[i].key = u
                 /\ \A j \in 1 .. i - 1 : table[j].key # u

HasKey(u) == \E i \in DOMAIN table : table[i].key = u
First(u) == CHOOSE i \in DOMAIN table : IsFirst(i, u)

(* table_get                                                                *)
Lookup(u) == IF HasKey(u) THEN table[First(u)].value ELSE Nothing

(* table_insert                                                             *)
InsertAlways(u, d) ==                                  \* mutant: does not look for the key
    /\ table' = Append(table, [key |-> u, value |-> d])
    /\ allocated' = IF allocated <= Len(table) THEN allocated + Block ELSE allocated

Insert(u, d) ==
    IF HasKey(u)
    THEN /\ table' = [table EXCEPT ![First(u)] = [key |-> u, value |-> d]]
         /\ UNCHANGED allocated
    ELSE /\ table' = Append(table, [key |-> u, value |-> d])
         /\ allocated' = IF allocated <= Len(table) THEN allocated + Block ELSE allocated

(* table_remove                                                             *)
RemoveLast(u) ==                                       \* mutant: --used without the memmove
    IF HasKey(u) THEN table' = SubSeq(table, 1, Len(table) - 1) ELSE UNCHANGED table

Remove(u) ==
    IF HasKey(u)
    THEN table' = SubSeq(table, 1, First(u) - 1) \o SubSeq(table, First(u) + 1, Len(table))
    ELSE UNCHANGED table

-----------------------------------------------------------------------------
(* device_create: the new device takes the place of another one with its    *)
(* UID.                                                                     *)
Create(d) ==
    /\ d \notin made
    /\ made' = made \cup {d} /\ owned' = owned \cup {d}
    /\ ref_count' = [ref_count EXCEPT ![d] = 1]
    /\ Insert(uid[d], d)
    /\ LET others == {e \in made \ freed : uid[e] = uid[d]}
       IN  twins' = IF others = {} THEN twins ELSE twins \cup others \cup {d}
    /\ UNCHANGED <<uid, freed, held>>

(* ipcon_acquire_device: nothing happens when the UID is unknown.           *)
AcquireUncounted(w, u) ==                              \* mutant: no reference for the worker
    /\ held[w] = Nothing /\ Lookup(u) # Nothing
    /\ held' = [held EXCEPT ![w] = Lookup(u)]
    /\ UNCHANGED <<table, allocated, uid, ref_count, made, freed, owned, twins>>

Acquire(w, u) ==
    /\ held[w] = Nothing /\ Lookup(u) # Nothing
    /\ held' = [held EXCEPT ![w] = Lookup(u)]
    /\ ref_count' = [ref_count EXCEPT ![Lookup(u)] = @ + 1]
    /\ UNCHANGED <<table, allocated, uid, made, freed, owned, twins>>

(* device_release: the last reference frees the device.                     *)
DropAfterCheck(d) ==                                   \* mutant: compares before it decrements
    /\ ref_count' = [ref_count EXCEPT ![d] = @ - 1]
    /\ IF ref_count[d] = 0
       THEN freed' = freed \cup {d} /\ Remove(uid[d])
       ELSE UNCHANGED <<freed, table>>

Drop(d) ==
    /\ ref_count' = [ref_count EXCEPT ![d] = @ - 1]
    /\ IF ref_count[d] = 1
       THEN freed' = freed \cup {d} /\ Remove(uid[d])
       ELSE UNCHANGED <<freed, table>>

Release(w) ==
    /\ held[w] # Nothing
    /\ Drop(held[w])
    /\ held' = [held EXCEPT ![w] = Nothing]
    /\ UNCHANGED <<allocated, uid, made, owned, twins>>

(* temperature_destroy and the like: the application gives its device up.   *)
GiveUp(d) ==
    /\ d \in owned
    /\ Drop(d)
    /\ owned' = owned \ {d}
    /\ UNCHANGED <<allocated, uid, made, held, twins>>

Next ==
    \/ \E d \in Devices : Create(d) \/ GiveUp(d)
    \/ \E w \in Workers : Release(w) \/ \E u \in UIDs : Acquire(w, u)

Spec == Init /\ [][Next]_vars

-----------------------------------------------------------------------------
Holders(d) == {w \in Workers : held[w] = d}

TypeOK ==
    /\ table \in Seq(Entries) /\ allocated \in Nat
    /\ uid \in [Devices -> UIDs] /\ ref_count \in [Devices -> Nat]
    /\ made \in SUBSET Devices /\ freed \in SUBSET made /\ owned \in SUBSET made
    /\ held \in [Workers -> Devices \cup {Nothing}]
    /\ twins \in SUBSET Devices

(* Nobody is left with a freed device: neither the application nor a worker *)
(* that looked it up while the application destroyed it.                    *)
InUse == owned \cup {held[w] : w \in Workers}
NotFreedInUse == InUse \cap freed = {}

(* The table never hands out a freed device, not even when two devices have *)
(* had the same UID.                                                        *)
NoDangling == \A i \in DOMAIN table : table[i].value \in made \ freed

(* No device leaks: what nobody uses any more is freed.                     *)
FreedWhenUnused == made \ InUse \subseteq freed

(* A device that never shared its UID is found as long as it exists,        *)
(* whatever was created and destroyed around it.                            *)
Found == \A d \in made \ (freed \cup twins) : Lookup(uid[d]) = d

(* The entries fit into the memory of the table.                            *)
InBounds == Len(table) <= allocated

-----------------------------------------------------------------------------
(* Why it works.  A device has a reference for everybody who uses it, and   *)
(* exists as long as it has one.                                            *)
CountInv == \A d \in Devices :
    /\ ref_count[d] = Cardinality(Holders(d)) + (IF d \in owned THEN 1 ELSE 0)
    /\ ref_count[d] > 0 <=> d \in made \ freed

(* The table has one entry per key, for a device with that UID; a device    *)
(* without an entry has shared its UID.                                     *)
TableInv ==
    /\ \A i \in 1 .. Len(table) : table[i].key = uid[table[i].value]
    /\ \A i, j \in 1 .. Len(table) : table[i].key = table[j].key => i = j
    /\ NoDangling
    /\ \A d, e \in made \ freed : uid[d] = uid[e] /\ d # e => d \in twins
    /\ \A d \in made \ (freed \cup twins) : \E i \in 1 .. Len(table) : table[i].value = d

DeviceInv == CountInv /\ TableInv
=============================================================================
