-------------------------- MODULE PacketQueueProofs --------------------------
(***************************************************************************)
(* Theorems about the packet queue, for every number of producers, of      *)
(* items and every set of data.                                            *)
(***************************************************************************)
EXTENDS PacketQueue, FiniteSetTheorems, SequenceTheorems, TLAPS

(* What the assumption says of the constants the proofs use.               *)
LEMMA Constants ==
    /\ MaxItems \in Nat /\ IsFiniteSet(Producers)
    /\ Exit \notin Data /\ Nothing # Exit /\ Nothing \notin Data
  BY QueueAssumption

(* There are finitely many releases to come.                               *)
LEMMA ReleasingFinite == IsFiniteSet(Releasing) /\ Cardinality(Releasing) \in Nat
  <1>1. Releasing \in SUBSET Producers
    BY DEF Releasing
  <1> QED
    BY <1>1, Constants, FS_Subset, FS_CardinalityType

(* Linking an item adds a release to come, releasing takes it away.        *)
LEMMA ReleasingAdded ==
    ASSUME TypeOK, NEW p \in Producers, ppc[p] # "release",
           ppc' = [ppc EXCEPT ![p] = "release"]
    PROVE  Cardinality(Releasing') = Cardinality(Releasing) + 1
  <1>1. Releasing' = Releasing \cup {p} /\ p \notin Releasing
    BY DEF Releasing, TypeOK
  <1> QED
    BY <1>1, ReleasingFinite, FS_AddElement

LEMMA ReleasingRemoved ==
    ASSUME TypeOK, NEW p \in Producers, ppc[p] = "release",
           ppc' = [ppc EXCEPT ![p] = "idle"]
    PROVE  Cardinality(Releasing') = Cardinality(Releasing) - 1
  <1>1. Releasing' = Releasing \ {p} /\ p \in Releasing
    BY DEF Releasing, TypeOK
  <1> QED
    BY <1>1, ReleasingFinite, FS_RemoveElement

(* An empty list, and nothing to be released.                              *)
LEMMA InitOK == Init => TypeOK /\ QueueInv
  <1> SUFFICES ASSUME Init PROVE TypeOK /\ QueueInv
    OBVIOUS
  <1>1. TypeOK
    <2>1. chain \in Seq(Nodes)
      BY EmptySeq DEF Init
    <2>2. next \in [Nodes -> Nodes \cup {Null}] /\ data \in [Nodes -> Data \cup {Exit}]
      BY DEF Init
    <2>3. ppc \in [Producers -> {"idle", "link", "release"}] /\ pitem \in [Producers -> Nodes \cup {Null}]
      BY DEF Init
    <2>4. semaphore \in Nat /\ allocated \in 0 .. MaxItems
      BY Constants DEF Init
    <2>5. taken \in Data \cup {Exit, Nothing} /\ exit_item \in Nodes \cup {Null} /\ before \subseteq Nodes
      BY DEF Init
    <2>6. head \in Nodes \cup {Null} /\ tail \in Nodes \cup {Null} /\ gpc = "wait"
      BY DEF Init
    <2> QED
      BY <2>1, <2>2, <2>3, <2>4, <2>5, <2>6 DEF TypeOK
  <1>2. Releasing = {}
    BY DEF Init, Releasing
  <1>3. Cardinality(Releasing) = 0
    BY <1>2, FS_EmptySet
  <1>4. CountInv
    BY <1>3 DEF Init, CountInv
  <1>5. ListInv /\ FreshInv /\ GetNeverFails /\ NothingLost
    BY DEF Init, ListInv, FreshInv, GetNeverFails, NothingLost
  <1>6. ExitInv
    BY Constants DEF Init, ExitInv, Null
  <1> QED
    BY <1>1, <1>4, <1>5, <1>6 DEF QueueInv

(* A list is empty when its head is Null.                                  *)
LEMMA EmptyList == ASSUME TypeOK, ListInv PROVE head = Null <=> chain = <<>>
  <1>1. ASSUME chain # <<>> PROVE chain[1] \in Nodes
    <2>1. 1 \in 1 .. Len(chain)
      BY <1>1, EmptySeq DEF TypeOK
    <2> QED
      BY <2>1, ElementOfSeq DEF TypeOK
  <1> QED
    BY <1>1 DEF ListInv, Nodes, Null

(* Another item is allocated: nobody has it yet.                           *)
LEMMA AllocateKeeps ==
    ASSUME TypeOK, QueueInv, NEW p \in Producers, NEW d \in Data \cup {Exit}, Allocate(p, d),
           \/ d # Exit /\ UNCHANGED <<exit_item, before>>
           \/ /\ d = Exit /\ exit_item = Null
              /\ exit_item' = allocated + 1 /\ before' = {chain[i] : i \in 1 .. Len(chain)}
    PROVE  TypeOK' /\ QueueInv'
  <1> DEFINE n == allocated + 1
  <1>1. n \in Nodes /\ n > allocated
    BY Constants DEF Allocate, TypeOK, Nodes
  <1>2. TypeOK'
    <2>1. \A i \in 1 .. Len(chain) : chain[i] \in Nodes
      BY DEF QueueInv, ListInv, TypeOK
    <2>2. exit_item' \in Nodes \cup {Null} /\ before' \subseteq Nodes
      BY <1>1, <2>1 DEF TypeOK, Nodes
    <2> QED
      BY <1>1, <2>2 DEF Allocate, TypeOK, Nodes
  <1>3. ListInv'
    <2>1. \A i \in 1 .. Len(chain) : chain[i] \in Nodes /\ chain[i] <= allocated
      BY DEF QueueInv, ListInv, FreshInv
    <2>2. \A i \in 1 .. Len(chain) : next'[chain[i]] = next[chain[i]]
      BY <1>1, <2>1 DEF Allocate, TypeOK, Nodes
    <2>3. \A i \in 1 .. Len(chain) - 1 : next'[chain[i]] = chain[i + 1]
      <3> SUFFICES ASSUME NEW i \in 1 .. Len(chain) - 1 PROVE next'[chain[i]] = chain[i + 1]
        OBVIOUS
      <3>1. i \in 1 .. Len(chain)
        BY DEF TypeOK
      <3> QED
        BY <2>2, <3>1 DEF QueueInv, ListInv
    <2> QED
      BY <2>3 DEF Allocate, QueueInv, ListInv
  <1>4. FreshInv'
    <2>1. \A i \in 1 .. Len(chain) : chain[i] <= allocated /\ chain[i] \in Nodes
      BY DEF QueueInv, ListInv, FreshInv
    <2>2. \A q \in Producers \ {p} : ppc'[q] = ppc[q] /\ pitem'[q] = pitem[q]
      BY DEF Allocate, TypeOK
    <2>3. pitem'[p] = n /\ ppc'[p] = "link"
      BY DEF Allocate, TypeOK
    <2>4. \A q \in Producers : ppc[q] # "idle" => pitem[q] \in 1 .. allocated
      BY DEF QueueInv, FreshInv
    <2>5. \A q \in Producers : ppc'[q] # "idle" => pitem'[q] \in 1 .. allocated'
      BY <1>1, <2>2, <2>3, <2>4 DEF Allocate, TypeOK
    <2>6. \A i \in 1 .. Len(chain') : chain'[i] <= allocated'
      BY <2>1 DEF Allocate, TypeOK, Nodes
    <2>7. ASSUME NEW q \in Producers, ppc'[q] = "link"
          PROVE  /\ \A i \in 1 .. Len(chain') : chain'[i] # pitem'[q]
                 /\ \A r \in Producers \ {q} : ppc'[r] = "link" => pitem'[r] # pitem'[q]
      <3>1. CASE q = p
        BY <1>1, <2>1, <2>2, <2>3, <2>4, <3>1 DEF Allocate, TypeOK, Nodes
      <3>2. CASE q # p
        BY <1>1, <2>2, <2>3, <2>4, <2>7, <3>2 DEF Allocate, TypeOK, QueueInv, FreshInv
      <3> QED
        BY <3>1, <3>2
    <2> QED
      BY <2>5, <2>6, <2>7 DEF FreshInv
  <1>5. CountInv'
    <2>1. Releasing' = Releasing
      BY DEF Allocate, Releasing, TypeOK
    <2> QED
      BY <2>1 DEF Allocate, QueueInv, CountInv
  <1>6. ExitInv'
    <2>1. \A m \in 1 .. allocated : data'[m] = data[m]
      BY <1>1 DEF Allocate, TypeOK, Nodes
    <2>2. data'[n] = d /\ allocated' = n /\ exit_item <= allocated /\ exit_item' <= allocated'
      BY <1>1, Constants DEF Allocate, TypeOK, QueueInv, ExitInv, Nodes, Null
    <2>3. \A m \in 1 .. allocated' : data'[m] = Exit <=> m = exit_item'
      <3> SUFFICES ASSUME NEW m \in 1 .. allocated' PROVE data'[m] = Exit <=> m = exit_item'
        OBVIOUS
      <3>1. allocated \in Nat /\ exit_item \in Nat /\ m \in Nat \ {0}
        BY <1>1, <2>2, Constants DEF TypeOK, Nodes, Null
      <3>2. CASE m = n
        BY <2>2, <3>1, <3>2
      <3>3. CASE m # n
        <4>1. m \in 1 .. allocated
          BY <2>2, <3>1, <3>3
        <4>2. data[m] = Exit <=> m = exit_item
          BY <4>1 DEF QueueInv, ExitInv
        <4> QED
          BY <2>1, <3>1, <3>3, <4>1, <4>2 DEF Null
      <3> QED
        BY <3>2, <3>3
    <2>4. \A i \in 1 .. Len(chain) : chain[i] <= allocated /\ chain[i] \in Nodes
      BY DEF QueueInv, ListInv, FreshInv
    <2>5. \A m \in before' : m <= allocated /\ m \in Nodes
      BY <2>4 DEF TypeOK, QueueInv, ExitInv
    <2>6. ASSUME NEW q \in Producers, ppc'[q] = "link" PROVE pitem'[q] \notin before'
      <3>1. CASE q = p
        BY <1>1, <2>5, <3>1 DEF Allocate, TypeOK, Nodes
      <3>2. CASE q # p
        BY <2>6, <3>2 DEF Allocate, TypeOK, QueueInv, FreshInv, ExitInv
      <3> QED
        BY <3>1, <3>2
    <2>7. ASSUME NEW i \in 1 .. Len(chain'), NEW j \in 1 .. Len(chain'),
                 chain'[i] \in before', chain'[j] = exit_item'
          PROVE  i < j
      BY <1>1, <2>4, <2>7 DEF Allocate, TypeOK, QueueInv, ExitInv, Nodes
    <2>8. taken' = Exit <=> gpc' \in {"exited", "destroyed"}
      BY DEF Allocate, QueueInv, ExitInv
    <2>9. taken' = Exit => exit_item' # Null
      BY <1>1 DEF Allocate, QueueInv, ExitInv, Nodes, Null
    <2>10. \A m \in before' : m <= allocated'
      BY <2>2, <2>5 DEF TypeOK, Nodes
    <2> QED
      BY <2>2, <2>3, <2>6, <2>7, <2>8, <2>9, <2>10 DEF ExitInv
  <1>7. GetNeverFails' /\ NothingLost'
    <2>1. gpc \in {"exited", "destroyed"} => exit_item # Null
      BY DEF QueueInv, ExitInv
    <2> QED
      BY <2>1 DEF Allocate, QueueInv, GetNeverFails, NothingLost
  <1> QED
    BY <1>2, <1>3, <1>4, <1>5, <1>6, <1>7 DEF QueueInv
-----------------------------------------------------------------------------

(* Linking appends the item to the chain.                                  *)
LEMMA LinkKeeps ==
    ASSUME TypeOK, QueueInv, NEW p \in Producers, Link(p)
    PROVE  TypeOK' /\ QueueInv'
  <1> DEFINE n == pitem[p]
  <1> DEFINE l == Len(chain)
  <1>1. /\ n \in 1 .. allocated /\ n \in Nodes /\ n # Null
        /\ \A i \in 1 .. l : chain[i] # n
    BY Constants DEF Link, TypeOK, QueueInv, FreshInv, Nodes, Null
  <1>2. /\ chain' \in Seq(Nodes) /\ Len(chain') = l + 1 /\ chain' # <<>> /\ l \in Nat
        /\ \A i \in 1 .. l : chain'[i] = chain[i]
        /\ chain'[l + 1] = n
    BY <1>1 DEF Link, TypeOK
  <1>3. tail = Null <=> chain = <<>>
    <2>1. ASSUME chain # <<>> PROVE chain[l] \in Nodes
      <3>1. l \in 1 .. Len(chain)
        BY <2>1, EmptySeq DEF TypeOK
      <3> QED
        BY <3>1, ElementOfSeq DEF TypeOK
    <2> QED
      BY <2>1 DEF QueueInv, ListInv, Nodes, Null
  <1>4. TypeOK'
    <2>1. head' \in Nodes \cup {Null} /\ tail' \in Nodes \cup {Null} /\ next' \in [Nodes -> Nodes \cup {Null}]
      BY <1>1 DEF Link, TypeOK
    <2> QED
      BY <1>2, <2>1 DEF Link, TypeOK
  <1>5. ListInv'
    <2>1. chain # <<>> => l \in 1 .. l /\ 1 \in 1 .. l
      BY EmptySeq DEF TypeOK
    <2>2. head' = chain'[1]
      BY <1>2, <1>3, <2>1 DEF Link, QueueInv, ListInv
    <2>3. tail' = chain'[Len(chain')]
      BY <1>2 DEF Link
    <2>4. ASSUME NEW i \in 1 .. Len(chain') - 1 PROVE next'[chain'[i]] = chain'[i + 1]
      <3>1. i \in 1 .. l /\ chain # <<>> /\ chain[i] \in Nodes
        BY <1>2, <2>4, EmptySeq DEF TypeOK
      <3>2. next' = [next EXCEPT ![chain[l]] = n] /\ chain[l] \in Nodes
        BY <1>3, <2>1, <3>1 DEF Link, QueueInv, ListInv
      <3>3. CASE i = l
        BY <1>2, <3>1, <3>2, <3>3 DEF TypeOK
      <3>4. CASE i # l
        <4>1. i \in 1 .. l - 1 /\ i + 1 \in 1 .. l
          BY <1>2, <3>1, <3>4
        <4>2. chain[i] # chain[l] /\ next[chain[i]] = chain[i + 1]
          BY <2>1, <3>1, <3>4, <4>1 DEF QueueInv, ListInv
        <4> QED
          BY <1>2, <3>1, <3>2, <4>1, <4>2 DEF TypeOK
      <3> QED
        BY <3>3, <3>4
    <2>5. \A i, j \in 1 .. Len(chain') : chain'[i] = chain'[j] => i = j
      BY <1>1, <1>2 DEF QueueInv, ListInv
    <2> QED
      BY <1>2, <2>2, <2>3, <2>4, <2>5 DEF ListInv
  <1>6. \A q \in Producers : ppc'[q] = IF q = p THEN "release" ELSE ppc[q]
    BY DEF Link, TypeOK
  <1>7. FreshInv'
    <2>1. \A i \in 1 .. Len(chain') : chain'[i] <= allocated
      BY <1>1, <1>2 DEF QueueInv, FreshInv, TypeOK
    <2>2. \A q \in Producers : ppc'[q] # "idle" => pitem[q] \in 1 .. allocated
      BY <1>1, <1>6 DEF QueueInv, FreshInv
    <2>3. ASSUME NEW q \in Producers, ppc'[q] = "link"
          PROVE  /\ \A i \in 1 .. Len(chain') : chain'[i] # pitem[q]
                 /\ \A r \in Producers \ {q} : ppc'[r] = "link" => pitem[r] # pitem[q]
      <3>1. q # p /\ ppc[q] = "link" /\ ppc[p] = "link"
        BY <1>6, <2>3 DEF Link
      <3>2. n # pitem[q]
        BY <3>1 DEF QueueInv, FreshInv
      <3> QED
        BY <1>2, <1>6, <3>1, <3>2 DEF QueueInv, FreshInv
    <2> QED
      BY <2>1, <2>2, <2>3 DEF FreshInv, Link
  <1>8. CountInv'
    <2>1. Cardinality(Releasing') = Cardinality(Releasing) + 1
      BY ReleasingAdded DEF Link
    <2> QED
      BY <1>2, <2>1, ReleasingFinite DEF Link, TypeOK, QueueInv, CountInv
  <1>9. n \notin before
    BY DEF Link, QueueInv, ExitInv
  <1>10. ExitInv'
    <2>1. ASSUME NEW i \in 1 .. Len(chain'), NEW j \in 1 .. Len(chain'),
                 chain'[i] \in before, chain'[j] = exit_item
          PROVE  i < j
      <3>1. i \in 1 .. l
        BY <1>2, <1>9, <2>1
      <3>2. CASE j \in 1 .. l
        BY <1>2, <2>1, <3>1, <3>2 DEF QueueInv, ExitInv
      <3>3. CASE j = l + 1
        BY <1>2, <3>1, <3>3
      <3> QED
        BY <1>2, <3>2, <3>3
    <2>2. \A q \in Producers : ppc'[q] = "link" => ppc[q] = "link"
      BY <1>6
    <2> QED
      BY <2>1, <2>2 DEF Link, QueueInv, ExitInv
  <1>11. GetNeverFails' /\ NothingLost'
    <2>1. gpc \in {"exited", "destroyed"} => \A i \in 1 .. Len(chain') : chain'[i] \notin before
      BY <1>2, <1>9 DEF QueueInv, NothingLost
    <2> QED
      BY <2>1 DEF Link, QueueInv, GetNeverFails, NothingLost
  <1> QED
    BY <1>4, <1>5, <1>7, <1>8, <1>10, <1>11 DEF QueueInv

(* Releasing and acquiring the semaphore leave the list alone.             *)
LEMMA ReleaseKeeps ==
    ASSUME TypeOK, QueueInv, NEW p \in Producers, Release(p)
    PROVE  TypeOK' /\ QueueInv'
  <1>1. TypeOK'
    BY DEF Release, TypeOK
  <1>2. \A q \in Producers : ppc'[q] = IF q = p THEN "idle" ELSE ppc[q]
    BY DEF Release, TypeOK
  <1>3. CountInv'
    <2>1. Cardinality(Releasing') = Cardinality(Releasing) - 1
      BY ReleasingRemoved DEF Release
    <2> QED
      BY <2>1, ReleasingFinite DEF Release, TypeOK, QueueInv, CountInv
  <1>4. ListInv' /\ GetNeverFails'
    BY DEF Release, QueueInv, ListInv, GetNeverFails
  <1>5. FreshInv'
    BY <1>2 DEF Release, QueueInv, FreshInv
  <1>6. ExitInv'
    BY <1>2 DEF Release, QueueInv, ExitInv
  <1>7. NothingLost'
    BY <1>2 DEF Release, QueueInv, NothingLost
  <1> QED
    BY <1>1, <1>3, <1>4, <1>5, <1>6, <1>7 DEF QueueInv

LEMMA AcquireKeeps ==
    ASSUME TypeOK, QueueInv, Acquire
    PROVE  TypeOK' /\ QueueInv'
  <1>1. TypeOK'
    BY DEF Acquire, TypeOK
  <1>2. Releasing' = Releasing
    BY DEF Acquire, Releasing
  <1>3. CountInv'
    BY <1>2, ReleasingFinite DEF Acquire, TypeOK, QueueInv, CountInv
  <1>4. ListInv' /\ FreshInv' /\ GetNeverFails' /\ NothingLost'
    BY DEF Acquire, QueueInv, ListInv, FreshInv, GetNeverFails, NothingLost
  <1>5. ExitInv'
    BY DEF Acquire, QueueInv, ExitInv
  <1> QED
    BY <1>1, <1>3, <1>4, <1>5 DEF QueueInv

(* A callback thread that was let pass finds an item.                      *)
LEMMA ItemThere ==
    ASSUME TypeOK, QueueInv, gpc = "take"
    PROVE  head # Null /\ chain # <<>>
  <1>1. Len(chain) # 0
    BY ReleasingFinite DEF TypeOK, QueueInv, CountInv
  <1>2. chain # <<>>
    BY <1>1, EmptySeq
  <1> QED
    BY <1>2, EmptyList DEF QueueInv

(* Taking the head takes the first item off the chain.                     *)
LEMMA TakeKeeps ==
    ASSUME TypeOK, QueueInv, Take
    PROVE  TypeOK' /\ QueueInv'
  <1> DEFINE l == Len(chain)
  <1>1. head # Null /\ chain # <<>> /\ Unlink /\ gpc = "take"
    BY ItemThere DEF Take
  <1>2. /\ l \in Nat \ {0} /\ 1 \in 1 .. l /\ l \in 1 .. l
        /\ \A i \in 1 .. l : chain[i] \in Nodes
        /\ head = chain[1] /\ tail = chain[l]
    BY <1>1, EmptySeq DEF TypeOK, QueueInv, ListInv
  <1>3. /\ chain' \in Seq(Nodes) /\ Len(chain') = l - 1
        /\ \A i \in 1 .. l - 1 : chain'[i] = chain[i + 1]
    BY <1>1, HeadTailProperties DEF Unlink, TypeOK
  <1>4. tail = head <=> l = 1
    BY <1>2 DEF QueueInv, ListInv
  <1>5. l = 1 <=> chain' = <<>>
    BY <1>2, <1>3, EmptySeq
  <1>6. l # 1 => next[chain[1]] = chain[2] /\ 1 \in 1 .. l - 1
    <2>1. l # 1 => 1 \in 1 .. l - 1
      BY <1>2
    <2> QED
      BY <2>1 DEF QueueInv, ListInv
  <1>7. TypeOK'
    <2>1. head' \in Nodes \cup {Null} /\ tail' \in Nodes \cup {Null}
      BY <1>1, <1>2 DEF Unlink, TypeOK
    <2>2. next' \in [Nodes -> Nodes \cup {Null}] /\ taken' \in Data \cup {Exit, Nothing}
      BY <1>1, <1>2 DEF Unlink, TypeOK
    <2>3. gpc' \in {"wait", "take", "exited", "failed", "destroyed"}
      BY DEF Take, AfterTake
    <2> QED
      BY <1>3, <2>1, <2>2, <2>3 DEF Take, TypeOK
  <1>8. ListInv'
    <2>1. head' = IF chain' = <<>> THEN Null ELSE chain'[1]
      BY <1>1, <1>2, <1>3, <1>4, <1>5, <1>6 DEF Unlink
    <2>2. tail' = IF chain' = <<>> THEN Null ELSE chain'[Len(chain')]
      <3>1. l # 1 => chain'[l - 1] = chain[l]
        <4>1. l # 1 => l - 1 \in 1 .. l - 1 /\ (l - 1) + 1 = l
          BY <1>2
        <4> QED
          BY <1>3, <4>1
      <3> QED
        BY <1>1, <1>2, <1>3, <1>4, <1>5, <3>1 DEF Unlink
    <2>3. ASSUME NEW i \in 1 .. Len(chain') - 1 PROVE next'[chain'[i]] = chain'[i + 1]
      <3>1. i + 1 \in 1 .. l - 1 /\ i \in 1 .. l - 1 /\ i + 1 \in 1 .. l /\ i + 1 # 1
        BY <1>2, <1>3, <2>3
      <3>2. chain'[i] = chain[i + 1] /\ chain'[i + 1] = chain[(i + 1) + 1]
        BY <1>3, <3>1
      <3>3. chain[i + 1] # chain[1] /\ chain[i + 1] \in Nodes /\ next[chain[i + 1]] = chain[(i + 1) + 1]
        BY <1>2, <3>1 DEF QueueInv, ListInv
      <3> QED
        BY <1>1, <1>2, <3>2, <3>3 DEF Unlink, TypeOK
    <2>4. ASSUME NEW i \in 1 .. Len(chain'), NEW j \in 1 .. Len(chain'), chain'[i] = chain'[j] PROVE i = j
      <3>1. i \in 1 .. l - 1 /\ j \in 1 .. l - 1 /\ i + 1 \in 1 .. l /\ j + 1 \in 1 .. l
        BY <1>2, <1>3, <2>4
      <3>2. chain[i + 1] = chain[j + 1]
        BY <1>3, <2>4, <3>1
      <3>3. i + 1 = j + 1
        BY <3>1, <3>2 DEF QueueInv, ListInv
      <3> QED
        BY <3>1, <3>3
    <2> QED
      BY <1>3, <2>1, <2>2, <2>3, <2>4 DEF ListInv
  <1>9. \A i \in 1 .. Len(chain') : i + 1 \in 1 .. l /\ chain'[i] = chain[i + 1]
    BY <1>2, <1>3
  <1>10. FreshInv'
    BY <1>9 DEF Take, QueueInv, FreshInv
  <1>11. gpc' = IF data[chain[1]] = Exit THEN "exited" ELSE "wait"
    BY <1>1, <1>2 DEF Take, AfterTake
  <1>12. CountInv'
    <2>1. Releasing' = Releasing
      BY DEF Take, Releasing
    <2> QED
      BY <1>1, <1>2, <1>3, <1>11, <2>1, ReleasingFinite DEF Take, TypeOK, QueueInv, CountInv
  <1>13. chain[1] \in 1 .. allocated
    BY <1>2, Constants DEF QueueInv, FreshInv, Nodes
  <1>14. data[chain[1]] = Exit => chain[1] = exit_item /\ exit_item # Null
    BY <1>13, Constants DEF QueueInv, ExitInv, TypeOK, Null
  <1>15. ExitInv'
    <2>1. taken' = data[chain[1]] /\ UNCHANGED <<exit_item, before, data, allocated, ppc, pitem>>
      BY <1>1, <1>2 DEF Take, Unlink
    <2>2. ASSUME NEW i \in 1 .. Len(chain'), NEW j \in 1 .. Len(chain'),
                 chain'[i] \in before, chain'[j] = exit_item
          PROVE  i < j
      <3>1. i + 1 \in 1 .. l /\ j + 1 \in 1 .. l /\ chain[i + 1] \in before /\ chain[j + 1] = exit_item
        BY <1>9, <2>2
      <3>2. i + 1 < j + 1
        BY <3>1 DEF QueueInv, ExitInv
      <3> QED
        BY <1>2, <1>3, <3>2
    <2>3. taken' = Exit <=> gpc' \in {"exited", "destroyed"}
      BY <1>11, <2>1
    <2> QED
      BY <1>14, <2>1, <2>2, <2>3 DEF QueueInv, ExitInv
  <1>16. GetNeverFails'
    BY <1>11 DEF GetNeverFails
  <1>17. NothingLost'
    <2> SUFFICES ASSUME data[chain[1]] = Exit, NEW i \in 1 .. Len(chain')
                 PROVE  chain'[i] \notin before
      BY <1>11 DEF NothingLost, Take
    <2>1. i + 1 \in 1 .. l /\ chain'[i] = chain[i + 1]
      BY <1>9
    <2>2. chain[i + 1] \in before => i + 1 < 1
      BY <1>2, <1>14, <2>1 DEF QueueInv, ExitInv
    <2> QED
      BY <2>1, <2>2
  <1> QED
    BY <1>7, <1>8, <1>10, <1>12, <1>15, <1>16, <1>17 DEF QueueInv
-----------------------------------------------------------------------------

(* Destroying the queue leaves behind what is in it.                       *)
LEMMA DestroyKeeps ==
    ASSUME TypeOK, QueueInv, Destroy
    PROVE  TypeOK' /\ QueueInv' /\ UNCHANGED <<chain, data, taken>>
  <1>1. gpc = "exited"
    BY DEF Destroy, QueueInv, GetNeverFails
  <1>2. TypeOK'
    BY DEF Destroy, TypeOK
  <1>3. Releasing' = Releasing
    BY DEF Destroy, Releasing
  <1>4. ListInv' /\ FreshInv' /\ GetNeverFails'
    BY DEF Destroy, QueueInv, ListInv, FreshInv, GetNeverFails
  <1>5. CountInv'
    BY <1>1, <1>3 DEF Destroy, QueueInv, CountInv
  <1>6. ExitInv' /\ NothingLost'
    BY <1>1 DEF Destroy, QueueInv, ExitInv, NothingLost
  <1> QED
    BY <1>2, <1>4, <1>5, <1>6 DEF Destroy, QueueInv

(* The two kinds of items a producer allocates.                            *)
LEMMA PutKeeps ==
    ASSUME TypeOK, QueueInv, NEW p \in Producers
    PROVE  /\ \A d \in Data : BeginPut(p, d) => TypeOK' /\ QueueInv'
           /\ BeginExit(p) => TypeOK' /\ QueueInv'
  <1>1. ASSUME NEW d \in Data, BeginPut(p, d) PROVE TypeOK' /\ QueueInv'
    BY <1>1, Constants, AllocateKeeps DEF BeginPut, TypeOK
  <1>2. ASSUME BeginExit(p) PROVE TypeOK' /\ QueueInv'
    BY <1>2, AllocateKeeps DEF BeginExit
  <1> QED
    BY <1>1, <1>2

(* Every step keeps the invariant.                                         *)
LEMMA QueueStep == TypeOK /\ QueueInv /\ [Next]_vars => TypeOK' /\ QueueInv'
  <1> SUFFICES ASSUME TypeOK, QueueInv, [Next]_vars PROVE TypeOK' /\ QueueInv'
    OBVIOUS
  <1>1. ASSUME NEW p \in Producers, NEW d \in Data, BeginPut(p, d) PROVE TypeOK' /\ QueueInv'
    BY <1>1, PutKeeps
  <1>2. ASSUME NEW p \in Producers, BeginExit(p) PROVE TypeOK' /\ QueueInv'
    BY <1>2, PutKeeps
  <1>3. ASSUME NEW p \in Producers, Put(p) PROVE TypeOK' /\ QueueInv'
    BY <1>3, LinkKeeps, ReleaseKeeps DEF Put
  <1>4. CASE Get
    BY <1>4, AcquireKeeps, TakeKeeps DEF Get
  <1>5. CASE Destroy
    BY <1>5, DestroyKeeps
  <1>6. CASE UNCHANGED vars
    <2>1. Releasing' = Releasing
      BY <1>6 DEF vars, Releasing
    <2>2. TypeOK'
      BY <1>6 DEF vars, TypeOK
    <2>3. ListInv' /\ FreshInv' /\ GetNeverFails' /\ NothingLost'
      BY <1>6 DEF vars, QueueInv, ListInv, FreshInv, GetNeverFails, NothingLost
    <2>4. CountInv' /\ ExitInv'
      BY <1>6, <2>1 DEF vars, QueueInv, CountInv, ExitInv
    <2> QED
      BY <2>2, <2>3, <2>4 DEF QueueInv
  <1> QED
    BY <1>1, <1>2, <1>3, <1>4, <1>5, <1>6 DEF Next

(* The list, the semaphore and the exit item keep to the invariant.        *)
THEOREM QueueCorrect == Spec => []QueueInv
  BY InitOK, QueueStep, PTL DEF Spec

(* The callback thread never ends because its queue failed it.             *)
THEOREM GetNeverFailsCorrect == Spec => []GetNeverFails
  <1>1. QueueInv => GetNeverFails
    BY DEF QueueInv
  <1> QED
    BY <1>1, QueueCorrect, PTL

(* Nothing that was linked before the exit item was put is thrown away with *)
(* the queue.                                                              *)
THEOREM NothingLostCorrect == Spec => []NothingLost
  <1>1. QueueInv => NothingLost
    BY DEF QueueInv
  <1> QED
    BY <1>1, QueueCorrect, PTL

-----------------------------------------------------------------------------
(* What the queue holds, as the first-in first-out queue sees it.          *)
Items == [i \in DOMAIN chain |-> data[chain[i]]]

(* It is a sequence as long as the chain.                                  *)
LEMMA MappedSeq ==
    ASSUME NEW c \in Seq(Nodes), NEW f \in [Nodes -> Data \cup {Exit}],
           NEW s, s = [i \in DOMAIN c |-> f[c[i]]]
    PROVE  /\ s \in Seq(Data \cup {Exit}) /\ Len(s) = Len(c)
           /\ \A i \in 1 .. Len(c) : s[i] = f[c[i]]
           /\ Len(c) \in Nat
  <1>1. Len(c) \in Nat /\ DOMAIN c = 1 .. Len(c) /\ \A i \in 1 .. Len(c) : c[i] \in Nodes
    BY ElementOfSeq, LenProperties
  <1>2. s = [i \in 1 .. Len(c) |-> f[c[i]]]
    BY <1>1
  <1>3. \A i \in 1 .. Len(c) : f[c[i]] \in Data \cup {Exit}
    BY <1>1
  <1> QED
    BY <1>1, <1>2, <1>3

LEMMA ItemsSeq ==
    ASSUME TypeOK
    PROVE  /\ Items \in Seq(Data \cup {Exit}) /\ Len(Items) = Len(chain)
           /\ \A i \in 1 .. Len(chain) : Items[i] = data[chain[i]]
           /\ Len(chain) \in Nat
  BY MappedSeq DEF TypeOK, Items

LEMMA ItemsSeqPrime ==
    ASSUME TypeOK'
    PROVE  /\ Items' \in Seq(Data \cup {Exit}) /\ Len(Items') = Len(chain')
           /\ \A i \in 1 .. Len(chain') : Items'[i] = data'[chain'[i]]
           /\ Len(chain') \in Nat
  BY MappedSeq DEF TypeOK, Items

(* Allocating, releasing and acquiring change nothing in it.               *)
LEMMA AllocateStutters ==
    ASSUME TypeOK, QueueInv, NEW p \in Producers, NEW d \in Data \cup {Exit}, Allocate(p, d)
    PROVE  Items' = Items /\ taken' = taken
  <1>1. \A i \in DOMAIN chain : chain[i] <= allocated /\ chain[i] \in Nodes /\ chain[i] # allocated + 1
    <2>1. DOMAIN chain = 1 .. Len(chain) /\ \A i \in 1 .. Len(chain) : chain[i] \in Nodes
      BY ElementOfSeq, LenProperties DEF TypeOK
    <2> QED
      BY <2>1 DEF TypeOK, QueueInv, FreshInv, Nodes
  <1>2. \A i \in DOMAIN chain : data'[chain[i]] = data[chain[i]]
    BY <1>1 DEF Allocate, TypeOK
  <1> QED
    BY <1>2 DEF Allocate, Items

(* Linking puts one item.                                                  *)
LEMMA LinkPuts ==
    ASSUME TypeOK, QueueInv, NEW p \in Producers, Link(p)
    PROVE  \E d \in Data \cup {Exit} : Items' = Append(Items, d) /\ UNCHANGED taken
  <1> DEFINE d == data[pitem[p]]
  <1> DEFINE l == Len(chain)
  <1>1. pitem[p] \in Nodes
    BY Constants DEF Link, TypeOK, QueueInv, FreshInv, Nodes
  <1>2. d \in Data \cup {Exit} /\ data' = data
    BY <1>1 DEF Link, TypeOK
  <1>3. /\ Len(chain') = l + 1 /\ chain'[l + 1] = pitem[p] /\ l \in Nat
        /\ \A i \in 1 .. l : chain'[i] = chain[i]
    BY <1>1 DEF Link, TypeOK
  <1>4. TypeOK'
    BY LinkKeeps
  <1>5. /\ Items' \in Seq(Data \cup {Exit}) /\ Len(Items') = l + 1
        /\ \A i \in 1 .. l + 1 : Items'[i] = data[chain'[i]]
    BY <1>2, <1>3, <1>4, ItemsSeqPrime
  <1>6. /\ Append(Items, d) \in Seq(Data \cup {Exit}) /\ Len(Append(Items, d)) = l + 1
        /\ \A i \in 1 .. l + 1 : Append(Items, d)[i] = IF i <= l THEN Items[i] ELSE d
    BY <1>2, ItemsSeq
  <1>7. \A i \in 1 .. l + 1 : Items'[i] = Append(Items, d)[i]
    BY <1>3, <1>5, <1>6, ItemsSeq
  <1>8. Items' = Append(Items, d)
    BY <1>5, <1>6, <1>7, SeqEqual
  <1> QED
    BY <1>2, <1>8 DEF Link

(* Taking gets the first one.                                              *)
LEMMA TakeGets ==
    ASSUME TypeOK, QueueInv, Take
    PROVE  /\ Items # <<>> /\ taken # Exit
           /\ taken' = Head(Items) /\ Items' = Tail(Items)
  <1> DEFINE l == Len(chain)
  <1>1. head # Null /\ chain # <<>> /\ Unlink /\ gpc = "take"
    BY ItemThere DEF Take
  <1>2. /\ l \in Nat \ {0} /\ 1 \in 1 .. l /\ head = chain[1]
        /\ Len(chain') = l - 1 /\ \A i \in 1 .. l - 1 : chain'[i] = chain[i + 1]
    BY <1>1, EmptySeq, HeadTailProperties DEF TypeOK, Unlink, QueueInv, ListInv
  <1>3. Items # <<>> /\ taken' = Head(Items)
    BY <1>1, <1>2, ItemsSeq DEF Unlink
  <1>4. taken # Exit
    BY <1>1 DEF QueueInv, ExitInv
  <1>5. data' = data /\ TypeOK'
    BY TakeKeeps DEF Take
  <1>6. /\ Tail(Items) \in Seq(Data \cup {Exit}) /\ Len(Tail(Items)) = l - 1
        /\ \A i \in 1 .. l - 1 : Tail(Items)[i] = Items[i + 1]
    BY <1>3, ItemsSeq, HeadTailProperties
  <1>7. /\ Items' \in Seq(Data \cup {Exit}) /\ Len(Items') = l - 1
        /\ \A i \in 1 .. l - 1 : Items'[i] = data[chain'[i]]
    BY <1>2, <1>5, ItemsSeqPrime
  <1>8. \A i \in 1 .. l - 1 : Items'[i] = Tail(Items)[i]
    <2> SUFFICES ASSUME NEW i \in 1 .. l - 1 PROVE Items'[i] = Tail(Items)[i]
      OBVIOUS
    <2>1. i + 1 \in 1 .. l
      BY <1>2
    <2>2. Items'[i] = data[chain[i + 1]]
      BY <1>2, <1>7
    <2>3. Tail(Items)[i] = Items[i + 1]
      BY <1>6
    <2>4. Items[i + 1] = data[chain[i + 1]]
      BY <2>1, ItemsSeq
    <2> QED
      BY <2>2, <2>3, <2>4
  <1>9. Items' = Tail(Items)
    BY <1>6, <1>7, <1>8, SeqEqual
  <1> QED
    BY <1>3, <1>4, <1>9

(* Every step of the queue is a step of the first-in first-out queue.      *)
LEMMA FifoStep ==
    ASSUME TypeOK, QueueInv, [Next]_vars
    PROVE  [Queue!Next]_<<Items, taken>>
  <1>1. ASSUME NEW p \in Producers, NEW d \in Data, BeginPut(p, d) PROVE UNCHANGED <<Items, taken>>
    BY <1>1, AllocateStutters DEF BeginPut
  <1>2. ASSUME NEW p \in Producers, BeginExit(p) PROVE UNCHANGED <<Items, taken>>
    BY <1>2, AllocateStutters DEF BeginExit
  <1>3. ASSUME NEW p \in Producers, Link(p) PROVE \E d \in Data \cup {Exit} : Queue!Put(d)
    BY <1>3, LinkPuts DEF Queue!Put, Items
  <1>4. ASSUME NEW p \in Producers, Release(p) PROVE UNCHANGED <<Items, taken>>
    BY <1>4 DEF Release, Items
  <1>5. CASE Acquire
    BY <1>5 DEF Acquire, Items
  <1>6. CASE Take
    <2>1. Queue!Get
      BY <1>6, TakeGets DEF Queue!Get, Items
    <2> QED
      BY <2>1 DEF Queue!Next
  <1>7. CASE Destroy
    BY <1>7, DestroyKeeps DEF Items
  <1>8. CASE UNCHANGED vars
    BY <1>8 DEF vars, Items
  <1> QED
    BY <1>1, <1>2, <1>3, <1>4, <1>5, <1>6, <1>7, <1>8 DEF Next, Put, Get, Queue!Next

(* The linked list, its semaphore and its two critical sections implement  *)
(* the first-in first-out queue.                                           *)
THEOREM FifoCorrect == Spec => IsFifo
  <1>1. Init => Queue!Init
    BY DEF Init, Queue!Init, Queue!Nothing, Nothing
  <1>2. TypeOK /\ QueueInv /\ [Next]_vars => [Queue!Next]_<<Items, taken>>
    BY FifoStep
  <1>3. Spec => [](TypeOK /\ QueueInv)
    BY InitOK, QueueStep, PTL DEF Spec
  <1> QED
    BY <1>1, <1>2, <1>3, PTL DEF Spec, IsFifo, Queue!Spec, Items
=============================================================================
