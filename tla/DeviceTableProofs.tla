-------------------------- MODULE DeviceTableProofs --------------------------
(***************************************************************************)
(* Theorems about the devices of a connection, for every number of         *)
(* devices, of UIDs and of threads.                                        *)
(***************************************************************************)
EXTENDS DeviceTable, FiniteSetTheorems, SequenceTheorems, TLAPS

(* What the table tells of its entries.                                    *)
LEMMA TableType ==
    ASSUME TypeOK
    PROVE  /\ Len(table) \in Nat /\ DOMAIN table = 1 .. Len(table)
           /\ \A i \in 1 .. Len(table) :
                table[i] \in Entries /\ table[i].key \in UIDs /\ table[i].value \in Devices
  <1>1. \A i \in 1 .. Len(table) : table[i] \in Entries
    BY ElementOfSeq DEF TypeOK
  <1> QED
    BY <1>1, LenProperties DEF TypeOK, Entries

(* With one entry per key, the loops find that entry.                      *)
LEMMA FirstFound ==
    ASSUME TypeOK, TableInv, NEW u, HasKey(u)
    PROVE  First(u) \in 1 .. Len(table) /\ table[First(u)].key = u
  <1>1. PICK i \in 1 .. Len(table) : table[i].key = u
    BY TableType DEF HasKey
  <1>2. \A j \in 1 .. i - 1 : j \in 1 .. Len(table) /\ j # i
    BY TableType
  <1>3. IsFirst(i, u)
    BY <1>1, <1>2, TableType DEF IsFirst, TableInv
  <1>4. IsFirst(First(u), u)
    BY <1>1, <1>3, TableType DEF First
  <1> QED
    BY <1>4, TableType DEF IsFirst

(* A key with an entry for d leads to d.                                   *)
LEMMA LookupEntry ==
    ASSUME TypeOK, TableInv, NEW i \in 1 .. Len(table)
    PROVE  Lookup(table[i].key) = table[i].value
  <1>1. HasKey(table[i].key)
    BY TableType DEF HasKey
  <1>2. First(table[i].key) = i
    BY <1>1, FirstFound DEF TableInv
  <1> QED
    BY <1>1, <1>2 DEF Lookup

(* What is looked up exists.                                               *)
LEMMA LookupAlive ==
    ASSUME TypeOK, TableInv, NEW u, Lookup(u) # Nothing
    PROVE  Lookup(u) \in made \ freed
  <1>1. HasKey(u)
    BY DEF Lookup
  <1> QED
    BY <1>1, FirstFound, TableType DEF Lookup, TableInv, NoDangling

(* table_remove keeps the entries of all other keys, and their order.      *)
LEMMA RemoveEntries ==
    ASSUME TypeOK, TableInv, NEW u, Remove(u)
    PROVE  /\ table' \in Seq(Entries)
           /\ \A k \in 1 .. Len(table') : \E i \in 1 .. Len(table) : table'[k] = table[i] /\ table[i].key # u
           /\ \A i \in 1 .. Len(table) : table[i].key # u => \E k \in 1 .. Len(table') : table'[k] = table[i]
           /\ \A k, l \in 1 .. Len(table') : table'[k].key = table'[l].key => k = l
           /\ Len(table') <= Len(table)
  <1> DEFINE n == Len(table)
  <1>1. CASE ~HasKey(u)
    <2>1. table' = table /\ \A i \in 1 .. n : table[i].key # u
      BY <1>1, TableType DEF Remove, HasKey
    <2> QED
      BY <2>1, TableType DEF TypeOK, TableInv
  <1>2. CASE HasKey(u)
    <2> DEFINE f == First(u)
    <2> DEFINE a == SubSeq(table, 1, f - 1)
    <2> DEFINE b == SubSeq(table, f + 1, n)
    <2>1. f \in 1 .. n /\ table[f].key = u /\ n \in Nat
      BY <1>2, FirstFound, TableType
    <2>2. a \in Seq(Entries) /\ Len(a) = f - 1 /\ \A k \in 1 .. f - 1 : a[k] = table[k]
      <3>1. \A i \in 1 .. f - 1 : table[i] \in Entries
        BY <2>1, TableType
      <3>2. /\ a \in Seq(Entries) /\ Len(a) = IF 1 <= f - 1 THEN f - 1 - 1 + 1 ELSE 0
            /\ \A k \in 1 .. f - 1 - 1 + 1 : a[k] = table[1 + k - 1]
        BY <2>1, <3>1, SubSeqProperties
      <3> QED
        BY <2>1, <3>2
    <2>3. b \in Seq(Entries) /\ Len(b) = n - f /\ \A k \in 1 .. n - f : b[k] = table[f + k]
      <3>1. \A i \in f + 1 .. n : table[i] \in Entries
        BY <2>1, TableType
      <3>2. /\ b \in Seq(Entries) /\ Len(b) = IF f + 1 <= n THEN n - (f + 1) + 1 ELSE 0
            /\ \A k \in 1 .. n - (f + 1) + 1 : b[k] = table[f + 1 + k - 1]
        BY <2>1, <3>1, SubSeqProperties
      <3> QED
        BY <2>1, <3>2
    <2>4. table' = a \o b
      BY <1>2 DEF Remove
    <2>5. /\ table' \in Seq(Entries) /\ Len(table') = n - 1
          /\ \A k \in 1 .. n - 1 : table'[k] = IF k <= f - 1 THEN a[k] ELSE b[k - (f - 1)]
      <3>1. f - 1 \in Nat /\ n - f \in Nat /\ (f - 1) + (n - f) = n - 1
        BY <2>1
      <3>2. /\ a \o b \in Seq(Entries) /\ Len(a \o b) = Len(a) + Len(b)
            /\ \A k \in 1 .. Len(a) + Len(b) : (a \o b)[k] = IF k <= Len(a) THEN a[k] ELSE b[k - Len(a)]
        <4> HIDE DEF a, b
        <4> QED
          BY <2>2, <2>3, ConcatProperties
      <3> QED
        BY <2>2, <2>3, <2>4, <3>1, <3>2
    <2>6. \A k \in 1 .. n - 1 : table'[k] = IF k < f THEN table[k] ELSE table[k + 1]
      <3> SUFFICES ASSUME NEW k \in 1 .. n - 1
                   PROVE  table'[k] = IF k < f THEN table[k] ELSE table[k + 1]
        OBVIOUS
      <3>1. CASE k < f
        BY <2>1, <2>2, <2>5, <3>1
      <3>2. CASE k >= f
        <4>1. k - (f - 1) \in 1 .. n - f /\ f + (k - (f - 1)) = k + 1
          BY <2>1, <3>2
        <4>2. ~(k <= f - 1) /\ ~(k < f)
          BY <2>1, <3>2
        <4>3. b[k - (f - 1)] = table[k + 1]
          BY <2>3, <4>1
        <4> QED
          BY <2>5, <4>2, <4>3
      <3> QED
        BY <2>1, <3>1, <3>2
    <2>7. \A i \in 1 .. n : table[i].key = u => i = f
      BY <2>1 DEF TableInv
    <2>8. ASSUME NEW k \in 1 .. n - 1
          PROVE  \E i \in 1 .. n : table'[k] = table[i] /\ i # f /\ i = IF k < f THEN k ELSE k + 1
      BY <2>1, <2>6
    <2>9. ASSUME NEW i \in 1 .. n, table[i].key # u PROVE \E k \in 1 .. n - 1 : table'[k] = table[i]
      <3>1. i # f
        BY <2>1, <2>9
      <3>2. CASE i < f
        BY <2>1, <2>6, <3>2
      <3>3. CASE i > f
        <4>1. i - 1 \in 1 .. n - 1 /\ ~(i - 1 < f) /\ (i - 1) + 1 = i
          BY <2>1, <3>3
        <4> QED
          BY <2>6, <4>1
      <3> QED
        BY <2>1, <3>1, <3>2, <3>3
    <2>10. ASSUME NEW k \in 1 .. n - 1, NEW l \in 1 .. n - 1, table'[k].key = table'[l].key PROVE k = l
      <3>1. PICK i \in 1 .. n : table'[k] = table[i] /\ i = IF k < f THEN k ELSE k + 1
        BY <2>8
      <3>2. PICK j \in 1 .. n : table'[l] = table[j] /\ j = IF l < f THEN l ELSE l + 1
        BY <2>8
      <3>3. i = j
        BY <2>10, <3>1, <3>2 DEF TableInv
      <3> QED
        BY <2>1, <3>1, <3>2, <3>3
    <2>11. \A k \in 1 .. n - 1 : \E i \in 1 .. n : table'[k] = table[i] /\ table[i].key # u
      BY <2>7, <2>8
    <2> HIDE DEF f, a, b
    <2> QED
      BY <2>1, <2>5, <2>9, <2>10, <2>11
  <1> QED
    BY <1>1, <1>2
-----------------------------------------------------------------------------

(* table_insert adds an entry, or changes the one that has the key.        *)
LEMMA InsertEntries ==
    ASSUME TypeOK, TableInv, NEW u \in UIDs, NEW d \in Devices, Insert(u, d)
    PROVE  /\ table' \in Seq(Entries)
           /\ \E k \in 1 .. Len(table') :
                /\ table'[k] = [key |-> u, value |-> d]
                /\ \A j \in 1 .. Len(table') \ {k} :
                     j \in 1 .. Len(table) /\ table'[j] = table[j] /\ table[j].key # u
           /\ \A i \in 1 .. Len(table) : table[i].key # u =>
                i \in 1 .. Len(table') /\ table'[i] = table[i]
  <1>0. [key |-> u, value |-> d] \in Entries
    BY DEF Entries
  <1>1. CASE HasKey(u)
    <2> DEFINE f == First(u)
    <2>1. f \in 1 .. Len(table) /\ table[f].key = u
      BY <1>1, FirstFound
    <2>2. table' = [table EXCEPT ![f] = [key |-> u, value |-> d]]
      BY <1>1 DEF Insert
    <2>3. \A j \in 1 .. Len(table) : j # f => table[j].key # u
      BY <2>1 DEF TableInv
    <2> HIDE DEF f
    <2>4. /\ table' \in Seq(Entries) /\ Len(table') = Len(table)
          /\ \A j \in 1 .. Len(table) : table'[j] = IF j = f THEN [key |-> u, value |-> d] ELSE table[j]
      BY <1>0, <2>1, <2>2, ExceptSeq DEF TypeOK
    <2> QED
      BY <2>1, <2>3, <2>4
  <1>2. CASE ~HasKey(u)
    <2>1. \A j \in 1 .. Len(table) : table[j].key # u
      BY <1>2, TableType DEF HasKey
    <2>2. table' = Append(table, [key |-> u, value |-> d])
      BY <1>2 DEF Insert
    <2>3. /\ table' \in Seq(Entries) /\ Len(table') = Len(table) + 1 /\ Len(table) \in Nat
          /\ \A j \in 1 .. Len(table) : table'[j] = table[j]
          /\ table'[Len(table) + 1] = [key |-> u, value |-> d]
      BY <1>0, <2>2 DEF TypeOK
    <2>4. Len(table) + 1 \in 1 .. Len(table')
      BY <2>3
    <2>5. \A j \in 1 .. Len(table') \ {Len(table) + 1} : j \in 1 .. Len(table)
      BY <2>3
    <2>6. \A j \in 1 .. Len(table) : j \in 1 .. Len(table')
      BY <2>3
    <2> QED
      BY <2>1, <2>3, <2>4, <2>5, <2>6
  <1> QED
    BY <1>1, <1>2

-----------------------------------------------------------------------------
(* There are finitely many holders of a device.                            *)
LEMMA HoldersFinite == \A d : IsFiniteSet(Holders(d)) /\ Cardinality(Holders(d)) \in Nat
  <1> SUFFICES ASSUME NEW d PROVE IsFiniteSet(Holders(d)) /\ Cardinality(Holders(d)) \in Nat
    OBVIOUS
  <1>1. Holders(d) \in SUBSET Workers
    BY DEF Holders
  <1> QED
    BY <1>1, TableAssumption, FS_Subset, FS_CardinalityType

(* Nothing has been created.                                               *)
LEMMA InitOK == Init => TypeOK /\ DeviceInv
  <1> SUFFICES ASSUME Init PROVE TypeOK /\ DeviceInv
    OBVIOUS
  <1>1. TypeOK
    <2>1. table \in Seq(Entries)
      BY EmptySeq DEF Init
    <2>2. allocated \in Nat /\ ref_count \in [Devices -> Nat]
      BY TableAssumption DEF Init
    <2> QED
      BY <2>1, <2>2 DEF Init, TypeOK
  <1>2. CountInv
    <2>1. \A d \in Devices : Holders(d) = {}
      BY TableAssumption DEF Init, Holders
    <2>2. \A d \in Devices : Cardinality(Holders(d)) = 0
      BY <2>1, FS_EmptySet
    <2> QED
      BY <2>2 DEF Init, CountInv
  <1>3. TableInv
    <2>1. Len(table) = 0 /\ DOMAIN table = {}
      BY DEF Init
    <2> QED
      BY <2>1 DEF Init, TableInv, NoDangling
  <1> QED
    BY <1>1, <1>2, <1>3 DEF DeviceInv

(* A device that exists is not freed, and is used by somebody.             *)
LEMMA CountUses ==
    ASSUME TypeOK, CountInv, NEW d \in Devices
    PROVE  /\ d \in owned \/ Holders(d) # {} <=> ref_count[d] > 0
           /\ d \in owned \/ Holders(d) # {} <=> d \in made \ freed
  <1>1. Cardinality(Holders(d)) = 0 <=> Holders(d) = {}
    BY HoldersFinite, FS_EmptySet
  <1>2. ref_count[d] = Cardinality(Holders(d)) + (IF d \in owned THEN 1 ELSE 0) /\ ref_count[d] \in Nat
    BY DEF TypeOK, CountInv
  <1>3. ref_count[d] > 0 <=> d \in made \ freed
    BY DEF CountInv
  <1> QED
    BY <1>1, <1>2, <1>3, HoldersFinite

(* device_create.                                                          *)
LEMMA CreateKeeps ==
    ASSUME TypeOK, DeviceInv, NEW d \in Devices, Create(d)
    PROVE  TypeOK' /\ DeviceInv'
  <1> DEFINE others == {e \in made \ freed : uid[e] = uid[d]}
  <1>0. uid[d] \in UIDs /\ d \notin made /\ d \notin freed /\ Insert(uid[d], d)
    BY DEF Create, TypeOK
  <1>1. table' \in Seq(Entries)
    BY <1>0, InsertEntries DEF DeviceInv
  <1>2. twins' = IF others = {} THEN twins ELSE twins \cup others \cup {d}
    BY DEF Create
  <1>3. TypeOK'
    <2>1. allocated' \in Nat
      BY <1>0, TableAssumption DEF Insert, TypeOK
    <2>2. twins' \in SUBSET Devices
      BY <1>2 DEF TypeOK
    <2> QED
      BY <1>1, <2>1, <2>2 DEF Create, TypeOK
  <1>4. CountInv'
    <2>1. \A e \in Devices : Holders(e)' = Holders(e)
      BY DEF Create, Holders
    <2>2. ref_count[d] = 0 /\ ref_count[d] = Cardinality(Holders(d)) + (IF d \in owned THEN 1 ELSE 0)
      BY <1>0 DEF DeviceInv, CountInv, TypeOK
    <2>3. Cardinality(Holders(d)) = 0
      BY <2>2, HoldersFinite
    <2>4. ASSUME NEW e \in Devices
          PROVE  /\ ref_count'[e] = Cardinality(Holders(e)') + (IF e \in owned' THEN 1 ELSE 0)
                 /\ ref_count'[e] > 0 <=> e \in made' \ freed'
      <3>1. CASE e = d
        BY <1>0, <2>1, <2>3, <3>1 DEF Create, TypeOK
      <3>2. CASE e # d
        BY <2>1, <3>2 DEF Create, TypeOK, DeviceInv, CountInv
      <3> QED
        BY <3>1, <3>2
    <2> QED
      BY <2>4 DEF CountInv
  <1>5. TableInv'
    <2>1. PICK k \in 1 .. Len(table') :
            /\ table'[k] = [key |-> uid[d], value |-> d]
            /\ \A j \in 1 .. Len(table') \ {k} :
                 j \in 1 .. Len(table) /\ table'[j] = table[j] /\ table[j].key # uid[d]
      BY <1>0, InsertEntries DEF DeviceInv
    <2>2. \A i \in 1 .. Len(table) : table[i].key # uid[d] => i \in 1 .. Len(table') /\ table'[i] = table[i]
      BY <1>0, InsertEntries DEF DeviceInv
    <2>3. UNCHANGED <<uid, freed>> /\ made' = made \cup {d}
      BY DEF Create
    <2>4. \A i \in 1 .. Len(table) : table[i].key = uid[table[i].value] /\ table[i].value \in made \ freed
      BY TableType DEF DeviceInv, TableInv, NoDangling
    <2>5. \A i \in 1 .. Len(table') : table'[i].key = uid[table'[i].value] /\ table'[i].value \in made' \ freed
      BY <1>0, <2>1, <2>3, <2>4
    <2>6. \A i, j \in 1 .. Len(table') : table'[i].key = table'[j].key => i = j
      BY <2>1 DEF DeviceInv, TableInv
    <2>7. DOMAIN table' = 1 .. Len(table')
      BY <1>1, LenProperties
    <2>8. ASSUME NEW x \in made' \ freed, NEW y \in made' \ freed, uid[x] = uid[y], x # y PROVE x \in twins'
      BY <1>0, <1>2, <2>3, <2>8 DEF DeviceInv, TableInv
    <2>9. ASSUME NEW x \in made' \ (freed \cup twins') PROVE \E i \in 1 .. Len(table') : table'[i].value = x
      <3>1. CASE x = d
        BY <2>1, <3>1
      <3>2. CASE x # d
        <4>1. x \in made \ (freed \cup twins)
          BY <1>2, <2>3, <2>9, <3>2
        <4>2. PICK i \in 1 .. Len(table) : table[i].value = x
          BY <4>1 DEF DeviceInv, TableInv
        <4>3. uid[x] # uid[d]
          BY <1>0, <1>2, <2>9, <4>1
        <4> QED
          BY <2>2, <2>4, <4>2, <4>3
      <3> QED
        BY <3>1, <3>2
    <2> QED
      BY <2>3, <2>5, <2>6, <2>7, <2>8, <2>9 DEF TableInv, NoDangling
  <1> QED
    BY <1>3, <1>4, <1>5 DEF DeviceInv

(* ipcon_acquire_device.                                                   *)
LEMMA AcquireKeeps ==
    ASSUME TypeOK, DeviceInv, NEW w \in Workers, NEW u \in UIDs, Acquire(w, u)
    PROVE  TypeOK' /\ DeviceInv'
  <1> DEFINE d == Lookup(u)
  <1>1. d \in made \ freed /\ d \in Devices /\ d # Nothing
    BY LookupAlive DEF Acquire, DeviceInv, TypeOK
  <1>2. TypeOK'
    BY <1>1 DEF Acquire, TypeOK
  <1>3. \A e \in Devices : Holders(e)' = IF e = d THEN Holders(e) \cup {w} ELSE Holders(e)
    BY <1>1, TableAssumption DEF Acquire, Holders, TypeOK
  <1>4. w \notin Holders(d)
    BY <1>1 DEF Acquire, Holders
  <1>5. CountInv'
    <2>1. Cardinality(Holders(d) \cup {w}) = Cardinality(Holders(d)) + 1
      BY <1>4, HoldersFinite, FS_AddElement
    <2>2. ASSUME NEW e \in Devices
          PROVE  /\ ref_count'[e] = Cardinality(Holders(e)') + (IF e \in owned' THEN 1 ELSE 0)
                 /\ ref_count'[e] > 0 <=> e \in made' \ freed'
      <3> HIDE DEF d
      <3>1. ref_count'[e] = IF e = d THEN ref_count[e] + 1 ELSE ref_count[e]
        BY DEF Acquire, TypeOK, d
      <3>2. /\ ref_count[e] = Cardinality(Holders(e)) + (IF e \in owned THEN 1 ELSE 0)
            /\ ref_count[e] > 0 <=> e \in made \ freed
        BY DEF DeviceInv, CountInv
      <3>3. UNCHANGED <<owned, made, freed>>
        BY DEF Acquire
      <3>4. ref_count[e] \in Nat
        BY DEF TypeOK
      <3>5. Cardinality(Holders(e)') = IF e = d THEN Cardinality(Holders(e)) + 1 ELSE Cardinality(Holders(e))
        BY <1>3, <2>1
      <3>6. Cardinality(Holders(e)) \in Nat
        BY HoldersFinite, FS_CardinalityType
      <3>7. ref_count'[e] > 0 <=> e \in made' \ freed'
        BY <1>1, <3>1, <3>2, <3>3, <3>4
      <3> QED
        BY <3>1, <3>2, <3>3, <3>4, <3>5, <3>6, <3>7
    <2> QED
      BY <2>2 DEF CountInv
  <1>6. TableInv'
    BY DEF Acquire, DeviceInv, TableInv, NoDangling
  <1> QED
    BY <1>2, <1>5, <1>6 DEF DeviceInv
-----------------------------------------------------------------------------

(* device_release: what it does to the references, to the freed devices    *)
(* and to the table.                                                       *)
LEMMA DropKeeps ==
    ASSUME TypeOK, DeviceInv, NEW d \in Devices, d \in made \ freed, Drop(d),
           UNCHANGED <<uid, made, twins>>
    PROVE  /\ ref_count' \in [Devices -> Nat]
           /\ \A e \in Devices : ref_count'[e] = IF e = d THEN ref_count[e] - 1 ELSE ref_count[e]
           /\ \A e \in Devices : ref_count'[e] > 0 <=> e \in made \ freed'
           /\ freed' \in SUBSET made
           /\ table' \in Seq(Entries) /\ TableInv'
  <1>1. ref_count[d] > 0 /\ ref_count[d] \in Nat
    BY DEF DeviceInv, CountInv, TypeOK
  <1>2. \A e \in Devices : ref_count'[e] = IF e = d THEN ref_count[e] - 1 ELSE ref_count[e]
    BY DEF Drop, TypeOK
  <1>3. ref_count' \in [Devices -> Nat]
    BY <1>1 DEF Drop, TypeOK
  <1>4. \A e \in Devices : ref_count[e] \in Nat /\ (ref_count[e] > 0 <=> e \in made \ freed)
    BY DEF DeviceInv, CountInv, TypeOK
  <1>5. CASE ref_count[d] = 1
    <2>1. freed' = freed \cup {d} /\ Remove(uid[d])
      BY <1>5 DEF Drop
    <2>2. \A e \in Devices : ref_count'[e] > 0 <=> e \in made \ freed'
      BY <1>2, <1>4, <1>5, <2>1
    <2>3. /\ table' \in Seq(Entries)
          /\ \A k \in 1 .. Len(table') : \E i \in 1 .. Len(table) : table'[k] = table[i] /\ table[i].key # uid[d]
          /\ \A i \in 1 .. Len(table) : table[i].key # uid[d] => \E k \in 1 .. Len(table') : table'[k] = table[i]
          /\ \A k, l \in 1 .. Len(table') : table'[k].key = table'[l].key => k = l
      BY <2>1, RemoveEntries DEF DeviceInv
    <2>4. \A i \in 1 .. Len(table) : table[i].key = uid[table[i].value] /\ table[i].value \in made \ freed
      BY TableType DEF DeviceInv, TableInv, NoDangling
    <2>5. \A k \in 1 .. Len(table') : table'[k].key = uid[table'[k].value] /\ table'[k].value \in made \ freed'
      BY <2>1, <2>3, <2>4
    <2>6. DOMAIN table' = 1 .. Len(table')
      BY <2>3, LenProperties
    <2>7. \A x, y \in made \ freed' : uid[x] = uid[y] /\ x # y => x \in twins
      BY <2>1 DEF DeviceInv, TableInv
    <2>8. ASSUME NEW x \in made \ (freed' \cup twins) PROVE \E k \in 1 .. Len(table') : table'[k].value = x
      <3>1. x \in made \ (freed \cup twins) /\ x # d
        BY <2>1, <2>8
      <3>2. uid[x] # uid[d]
        BY <3>1 DEF DeviceInv, TableInv
      <3>3. PICK i \in 1 .. Len(table) : table[i].value = x
        BY <3>1 DEF DeviceInv, TableInv
      <3> QED
        BY <2>3, <2>4, <3>2, <3>3
    <2>9. TableInv'
      BY <2>3, <2>5, <2>6, <2>7, <2>8 DEF TableInv, NoDangling
    <2>10. freed' \in SUBSET made
      BY <2>1 DEF TypeOK
    <2> QED
      BY <1>2, <1>3, <2>2, <2>3, <2>9, <2>10
  <1>6. CASE ref_count[d] # 1
    <2>1. UNCHANGED <<freed, table>>
      BY <1>6 DEF Drop
    <2>2. \A e \in Devices : ref_count'[e] > 0 <=> e \in made \ freed'
      BY <1>1, <1>2, <1>4, <1>6, <2>1
    <2>3. TableInv'
      BY <2>1 DEF DeviceInv, TableInv, NoDangling
    <2> QED
      BY <1>2, <1>3, <2>1, <2>2, <2>3 DEF TypeOK
  <1> QED
    BY <1>5, <1>6

(* A worker gives its device back.                                         *)
LEMMA ReleaseKeeps ==
    ASSUME TypeOK, DeviceInv, NEW w \in Workers, Release(w)
    PROVE  TypeOK' /\ DeviceInv'
  <1> DEFINE d == held[w]
  <1>1. d \in Devices /\ w \in Holders(d)
    BY DEF Release, TypeOK, Holders
  <1>2. d \in made \ freed
    BY <1>1, CountUses DEF DeviceInv
  <1>3. Drop(d) /\ UNCHANGED <<uid, made, twins, allocated, owned>>
    BY DEF Release
  <1>4. /\ ref_count' \in [Devices -> Nat]
        /\ \A e \in Devices : ref_count'[e] = IF e = d THEN ref_count[e] - 1 ELSE ref_count[e]
        /\ \A e \in Devices : ref_count'[e] > 0 <=> e \in made \ freed'
        /\ freed' \in SUBSET made
        /\ table' \in Seq(Entries) /\ TableInv'
    BY <1>1, <1>2, <1>3, DropKeeps
  <1>5. TypeOK'
    BY <1>3, <1>4 DEF Release, TypeOK
  <1>6. \A e \in Devices : Holders(e)' = IF e = d THEN Holders(e) \ {w} ELSE Holders(e)
    BY <1>1, TableAssumption DEF Release, Holders, TypeOK
  <1>7. CountInv'
    <2> HIDE DEF d
    <2>1. Cardinality(Holders(d) \ {w}) = Cardinality(Holders(d)) - 1
      BY <1>1, HoldersFinite, FS_RemoveElement
    <2>2. ASSUME NEW e \in Devices
          PROVE  ref_count'[e] = Cardinality(Holders(e)') + (IF e \in owned' THEN 1 ELSE 0)
      <3>1. ref_count[e] = Cardinality(Holders(e)) + (IF e \in owned THEN 1 ELSE 0)
        BY DEF DeviceInv, CountInv
      <3>2. Cardinality(Holders(e)') = IF e = d THEN Cardinality(Holders(e)) - 1 ELSE Cardinality(Holders(e))
        BY <1>6, <2>1
      <3>3. Cardinality(Holders(e)) \in Nat
        BY HoldersFinite, FS_CardinalityType
      <3>4. ref_count'[e] = IF e = d THEN ref_count[e] - 1 ELSE ref_count[e]
        BY <1>4
      <3>5. owned' = owned
        BY <1>3
      <3> QED
        BY <3>1, <3>2, <3>3, <3>4, <3>5
    <2> QED
      BY <1>3, <1>4, <2>2 DEF CountInv
  <1> QED
    BY <1>4, <1>5, <1>7 DEF DeviceInv

(* The application gives its device up.                                    *)
LEMMA GiveUpKeeps ==
    ASSUME TypeOK, DeviceInv, NEW d \in Devices, GiveUp(d)
    PROVE  TypeOK' /\ DeviceInv'
  <1>1. d \in made \ freed
    BY CountUses DEF GiveUp, DeviceInv
  <1>2. Drop(d) /\ UNCHANGED <<uid, made, twins, allocated, held>> /\ owned' = owned \ {d} /\ d \in owned
    BY DEF GiveUp
  <1>3. /\ ref_count' \in [Devices -> Nat]
        /\ \A e \in Devices : ref_count'[e] = IF e = d THEN ref_count[e] - 1 ELSE ref_count[e]
        /\ \A e \in Devices : ref_count'[e] > 0 <=> e \in made \ freed'
        /\ freed' \in SUBSET made
        /\ table' \in Seq(Entries) /\ TableInv'
    BY <1>1, <1>2, DropKeeps
  <1>4. TypeOK'
    BY <1>2, <1>3 DEF TypeOK
  <1>5. \A e \in Devices : Holders(e)' = Holders(e)
    BY <1>2 DEF Holders
  <1>6. CountInv'
    <2>1. ASSUME NEW e \in Devices
          PROVE  ref_count'[e] = Cardinality(Holders(e)') + (IF e \in owned' THEN 1 ELSE 0)
      <3>1. ref_count[e] = Cardinality(Holders(e)) + (IF e \in owned THEN 1 ELSE 0)
        BY DEF DeviceInv, CountInv
      <3> QED
        BY <1>2, <1>3, <1>5, <3>1, HoldersFinite
    <2> QED
      BY <1>2, <1>3, <2>1 DEF CountInv
  <1> QED
    BY <1>3, <1>4, <1>6 DEF DeviceInv

(* Every step keeps the invariant.                                         *)
LEMMA DeviceStep == TypeOK /\ DeviceInv /\ [Next]_vars => TypeOK' /\ DeviceInv'
  <1> SUFFICES ASSUME TypeOK, DeviceInv, [Next]_vars PROVE TypeOK' /\ DeviceInv'
    OBVIOUS
  <1>1. CASE UNCHANGED vars
    <2>1. TypeOK'
      BY <1>1 DEF vars, TypeOK
    <2>2. \A d \in Devices : Holders(d)' = Holders(d)
      BY <1>1 DEF vars, Holders
    <2>3. CountInv'
      BY <1>1, <2>2 DEF vars, DeviceInv, CountInv
    <2>4. TableInv'
      BY <1>1 DEF vars, DeviceInv, TableInv, NoDangling
    <2> QED
      BY <2>1, <2>3, <2>4 DEF DeviceInv
  <1> QED
    BY <1>1, CreateKeeps, GiveUpKeeps, ReleaseKeeps, AcquireKeeps DEF Next

(* References and table entries are right at all times.                    *)
THEOREM DeviceCorrect == Spec => [](TypeOK /\ DeviceInv)
  BY InitOK, DeviceStep, PTL DEF Spec

(* No device is freed while the application or a worker uses it.           *)
THEOREM NotFreedInUseCorrect == Spec => []NotFreedInUse
  <1>1. TypeOK /\ DeviceInv => NotFreedInUse
    <2> SUFFICES ASSUME TypeOK, DeviceInv, NEW d \in InUse, d \in freed PROVE FALSE
      BY DEF NotFreedInUse
    <2>1. d \in Devices
      BY DEF TypeOK
    <2>2. d \in owned \/ Holders(d) # {}
      BY DEF InUse, Holders
    <2> QED
      BY <2>1, <2>2, CountUses DEF DeviceInv
  <1> QED
    BY <1>1, DeviceCorrect, PTL

(* What nobody uses any more is freed.                                     *)
THEOREM FreedWhenUnusedCorrect == Spec => []FreedWhenUnused
  <1>1. TypeOK /\ DeviceInv => FreedWhenUnused
    <2> SUFFICES ASSUME TypeOK, DeviceInv, NEW d \in made, d \notin InUse, d \notin freed PROVE FALSE
      BY DEF FreedWhenUnused
    <2>1. d \in Devices
      BY DEF TypeOK
    <2>2. d \notin owned /\ Holders(d) = {}
      BY DEF InUse, Holders
    <2> QED
      BY <2>1, <2>2, CountUses DEF DeviceInv
  <1> QED
    BY <1>1, DeviceCorrect, PTL

(* The table never hands out a freed device.                               *)
THEOREM NoDanglingCorrect == Spec => []NoDangling
  <1>1. TypeOK /\ DeviceInv => NoDangling
    BY DEF DeviceInv, TableInv
  <1> QED
    BY <1>1, DeviceCorrect, PTL

(* A device that never shared its UID is found as long as it exists.       *)
THEOREM FoundCorrect == Spec => []Found
  <1>1. TypeOK /\ DeviceInv => Found
    <2> SUFFICES ASSUME TypeOK, DeviceInv, NEW d \in made \ (freed \cup twins) PROVE Lookup(uid[d]) = d
      BY DEF Found
    <2>1. PICK i \in 1 .. Len(table) : table[i].value = d
      BY DEF DeviceInv, TableInv
    <2>2. table[i].key = uid[d]
      BY <2>1 DEF DeviceInv, TableInv
    <2> QED
      BY <2>1, <2>2, LookupEntry DEF DeviceInv
  <1> QED
    BY <1>1, DeviceCorrect, PTL

(* The table has grown before an entry is written: entries only leave it    *)
(* otherwise.                                                              *)
THEOREM InBoundsCorrect == Spec => []InBounds
  <1>1. Init => InBounds
    BY TableAssumption DEF Init, InBounds
  <1>2. TypeOK /\ DeviceInv /\ InBounds /\ [Next]_vars => InBounds'
    <2> SUFFICES ASSUME TypeOK, DeviceInv, InBounds, [Next]_vars PROVE InBounds'
      OBVIOUS
    <2> USE DEF TypeOK, InBounds
    <2>1. ASSUME NEW u, Remove(u), UNCHANGED allocated PROVE InBounds'
      <3>1. CASE HasKey(u)
        <4>1. First(u) \in 1 .. Len(table)
          BY <3>1, FirstFound DEF DeviceInv
        <4>2. table' = SubSeq(table, 1, First(u) - 1) \o SubSeq(table, First(u) + 1, Len(table))
          BY <2>1, <3>1 DEF Remove
        <4>3. Len(table') = Len(table) - 1
          BY <4>1, <4>2
        <4> QED
          BY <2>1, <4>3
      <3> QED
        BY <2>1, <3>1 DEF Remove
    <2>2. ASSUME NEW d \in Devices, Create(d) PROVE InBounds'
      <3>1. Insert(uid[d], d)
        BY <2>2 DEF Create
      <3>2. CASE HasKey(uid[d])
        BY <3>1, <3>2 DEF Insert
      <3>3. CASE ~HasKey(uid[d])
        <4>1. Len(table') = Len(table) + 1
          BY <3>1, <3>3 DEF Insert
        <4> QED
          BY <3>1, <3>3, <4>1, TableAssumption DEF Insert
      <3> QED
        BY <3>2, <3>3
    <2>3. ASSUME NEW d \in Devices, Drop(d), UNCHANGED allocated PROVE InBounds'
      BY <2>1, <2>3 DEF Drop
    <2>4. CASE UNCHANGED <<table, allocated>>
      BY <2>4
    <2> QED
      BY <2>2, <2>3, <2>4 DEF Next, vars, GiveUp, Release, Acquire, InUse
  <1> QED
    BY <1>1, <1>2, DeviceCorrect, PTL DEF Spec

-----------------------------------------------------------------------------
(* What is found under a UID after a step.                                 *)
LEMMA LookupNone ==
    ASSUME TypeOK, NEW u
    PROVE  HasKey(u) <=> \E i \in 1 .. Len(table) : table[i].key = u
  BY TableType DEF HasKey

(* The same as LookupEntry, after a step.                                  *)
LEMMA EntryThen ==
    ASSUME table' \in Seq(Entries), TableInv', NEW u, NEW i, i \in 1 .. Len(table'), table'[i].key = u
    PROVE  HasKey(u)' /\ Lookup(u)' = table'[i].value
  <1>1. DOMAIN table' = 1 .. Len(table') /\ Len(table') \in Nat
    BY LenProperties
  <1>2. HasKey(u)'
    BY <1>1 DEF HasKey
  <1>3. \A j \in 1 .. i - 1 : j \in 1 .. Len(table') /\ j # i
    BY <1>1
  <1>4. \A j, k \in 1 .. Len(table') : table'[j].key = table'[k].key => j = k
    BY DEF TableInv
  <1>5. IsFirst(i, u)' /\ \A j : IsFirst(j, u)' => j = i
    BY <1>1, <1>3, <1>4 DEF IsFirst
  <1>6. First(u)' = i
    BY <1>5 DEF First
  <1> QED
    BY <1>2, <1>6 DEF Lookup

LEMMA CreateLookup ==
    ASSUME TypeOK, DeviceInv, NEW d \in Devices, Create(d), NEW u
    PROVE  Lookup(u)' = IF u = uid[d] THEN d ELSE Lookup(u)
  <1>1. TypeOK' /\ DeviceInv'
    BY CreateKeeps
  <1>2. uid[d] \in UIDs /\ Insert(uid[d], d)
    BY DEF Create, TypeOK
  <1>3. PICK k \in 1 .. Len(table') :
          /\ table'[k] = [key |-> uid[d], value |-> d]
          /\ \A j \in 1 .. Len(table') \ {k} :
               j \in 1 .. Len(table) /\ table'[j] = table[j] /\ table[j].key # uid[d]
    BY <1>2, InsertEntries DEF DeviceInv
  <1>4. \A i \in 1 .. Len(table) : table[i].key # uid[d] => i \in 1 .. Len(table') /\ table'[i] = table[i]
    BY <1>2, InsertEntries DEF DeviceInv
  <1>5. \A i \in 1 .. Len(table') : table'[i].key = u => Lookup(u)' = table'[i].value
    BY <1>1, EntryThen DEF DeviceInv, TypeOK
  <1>6. CASE u = uid[d]
    BY <1>3, <1>5, <1>6
  <1>7. CASE u # uid[d] /\ HasKey(u)
    <2>1. PICK i \in 1 .. Len(table) : table[i].key = u
      BY <1>7, LookupNone
    <2>2. i \in 1 .. Len(table') /\ table'[i] = table[i]
      BY <1>4, <1>7, <2>1
    <2> QED
      BY <1>5, <1>7, <2>1, <2>2, LookupEntry DEF DeviceInv
  <1>8. CASE u # uid[d] /\ ~HasKey(u)
    <2>1. DOMAIN table' = 1 .. Len(table')
      BY <1>1, LenProperties DEF TypeOK
    <2>2. \A j \in 1 .. Len(table') : table'[j].key # u
      BY <1>3, <1>8, LookupNone
    <2>3. ~HasKey(u)'
      BY <2>1, <2>2 DEF HasKey
    <2> QED
      BY <1>8, <2>3 DEF Lookup
  <1> QED
    BY <1>6, <1>7, <1>8

(* The steps that give a device back or up.                                *)
Frees(d) == d \in made \ freed /\ Drop(d) /\ UNCHANGED <<allocated, uid, made, twins>>

LEMMA FreesWhat ==
    ASSUME TypeOK, DeviceInv
    PROVE  /\ \A d \in Devices : GiveUp(d) => Frees(d)
           /\ \A w \in Workers : Release(w) => held[w] \in Devices /\ Frees(held[w])
  <1>1. ASSUME NEW d \in Devices, GiveUp(d) PROVE Frees(d)
    BY <1>1, CountUses DEF GiveUp, DeviceInv, Frees
  <1>2. ASSUME NEW w \in Workers, Release(w) PROVE held[w] \in Devices /\ Frees(held[w])
    <2>1. held[w] \in Devices /\ w \in Holders(held[w])
      BY <1>2 DEF Release, TypeOK, Holders
    <2> QED
      BY <1>2, <2>1, CountUses DEF Release, DeviceInv, Frees
  <1> QED
    BY <1>1, <1>2

LEMMA FreesLookup ==
    ASSUME TypeOK, DeviceInv, NEW d \in Devices, Frees(d), NEW u
    PROVE  Lookup(u)' \in {Lookup(u), Nothing}
  <1>1. CASE UNCHANGED table
    BY <1>1 DEF Lookup, HasKey, First, IsFirst
  <1>2. CASE Remove(uid[d])
    <2>1. table' \in Seq(Entries) /\ TableInv'
      BY DropKeeps DEF Frees
    <2>2. DOMAIN table' = 1 .. Len(table')
      BY <2>1, LenProperties
    <2>3. CASE HasKey(u)'
      <3>1. PICK k \in 1 .. Len(table') : table'[k].key = u
        BY <2>2, <2>3 DEF HasKey
      <3>2. PICK i \in 1 .. Len(table) : table'[k] = table[i]
        BY <1>2, RemoveEntries DEF DeviceInv
      <3>3. Lookup(u) = table[i].value
        BY <3>1, <3>2, LookupEntry DEF DeviceInv
      <3>4. Lookup(u)' = table'[k].value
        BY <2>1, <3>1, EntryThen
      <3> QED
        BY <3>2, <3>3, <3>4
    <2> QED
      BY <2>3 DEF Lookup
  <1> QED
    BY <1>1, <1>2 DEF Frees, Drop

-----------------------------------------------------------------------------
(* A UID has an entry as long as no device with it was freed.              *)
EntryKept ==
    \A d \in made : (\A e \in made : uid[e] = uid[d] => e \notin freed) => HasKey(uid[d])

LEMMA EntryStep == TypeOK /\ DeviceInv /\ EntryKept /\ [Next]_vars => EntryKept'
  <1> SUFFICES ASSUME TypeOK, DeviceInv, EntryKept, [Next]_vars,
                      NEW d \in made', \A e \in made' : uid'[e] = uid'[d] => e \notin freed'
               PROVE  HasKey(uid[d])'
    BY DEF EntryKept
  <1>1. UNCHANGED uid /\ TypeOK'
    BY DeviceStep DEF Next, vars, Create, GiveUp, Release, Acquire
  <1>2. DOMAIN table' = 1 .. Len(table')
    BY <1>1, LenProperties DEF TypeOK
  <1>3. CASE UNCHANGED <<table, made, freed>>
    BY <1>1, <1>3 DEF EntryKept, HasKey
  <1>4. ASSUME NEW c \in Devices, Create(c) PROVE HasKey(uid[d])'
    <2>1. uid[c] \in UIDs /\ Insert(uid[c], c) /\ made' = made \cup {c} /\ UNCHANGED freed
      BY <1>4 DEF Create, TypeOK
    <2>2. CASE uid[d] = uid[c]
      <3>1. PICK k \in 1 .. Len(table') : table'[k] = [key |-> uid[c], value |-> c]
        BY <2>1, InsertEntries DEF DeviceInv
      <3>2. table'[k].key = uid[c]
        BY <3>1
      <3> QED
        BY <1>1, <1>2, <2>2, <3>2 DEF HasKey
    <2>3. CASE uid[d] # uid[c]
      <3>1. d \in made /\ HasKey(uid[d])
        BY <1>1, <2>1, <2>3 DEF EntryKept
      <3>2. PICK i \in 1 .. Len(table) : table[i].key = uid[d]
        BY <3>1, LookupNone
      <3>3. i \in 1 .. Len(table') /\ table'[i] = table[i]
        BY <2>1, <2>3, <3>2, InsertEntries DEF DeviceInv
      <3> QED
        BY <1>1, <1>2, <3>2, <3>3 DEF HasKey
    <2> QED
      BY <2>2, <2>3
  <1>5. ASSUME NEW c \in Devices, Frees(c) PROVE HasKey(uid[d])'
    <2>1. c \in made /\ UNCHANGED made
      BY <1>5 DEF Frees
    <2>2. CASE UNCHANGED <<freed, table>>
      BY <1>3, <2>1, <2>2
    <2>3. CASE freed' = freed \cup {c} /\ Remove(uid[c])
      <3>1. uid[d] # uid[c]
        BY <1>1, <2>1, <2>3
      <3>2. HasKey(uid[d])
        BY <1>1, <2>1, <2>3 DEF EntryKept
      <3>3. PICK i \in 1 .. Len(table) : table[i].key = uid[d]
        BY <3>2, LookupNone
      <3>4. PICK k \in 1 .. Len(table') : table'[k] = table[i]
        BY <2>3, <3>1, <3>3, RemoveEntries DEF DeviceInv
      <3> QED
        BY <1>1, <1>2, <3>3, <3>4 DEF HasKey
    <2> QED
      BY <1>5, <2>2, <2>3 DEF Frees, Drop
  <1>6. ASSUME NEW w \in Workers, NEW u \in UIDs, Acquire(w, u) PROVE HasKey(uid[d])'
    BY <1>3, <1>6 DEF Acquire
  <1> QED
    BY <1>3, <1>4, <1>5, <1>6, FreesWhat DEF Next, vars

(* An entry goes only when a device with its UID is freed.                 *)
THEOREM EntryKeptCorrect == Spec => []EntryKept
  <1>1. Init => EntryKept
    BY DEF Init, EntryKept
  <1> QED
    BY <1>1, EntryStep, DeviceCorrect, PTL DEF Spec

=============================================================================
