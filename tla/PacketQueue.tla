----------------------------- MODULE PacketQueue -----------------------------
(***************************************************************************)
(* The queue of a callback context (libtinkerforge/bindings/               *)
(* ip_connection.c, queue_create to queue_get): a linked list that its     *)
(* mutex protects, and a semaphore the callback thread waits for.          *)
(*                                                                         *)
(* queue_put works on the list in one critical section, but releases the   *)
(* semaphore after it; queue_get acquires the semaphore and only then      *)
(* enters the critical section.  Each critical section is one step here.   *)
(* Nothing keeps other threads from putting while the exit item is put, or *)
(* behind it: a receive thread is not joined when the socket it reads from *)
(* is destroyed for the report of another thread.                          *)
(***************************************************************************)
EXTENDS Integers, Sequences, FiniteSets

CONSTANTS
    Producers,      \* threads that call queue_put
    Data,           \* what they put
    Exit,           \* QUEUE_KIND_EXIT or QUEUE_KIND_DESTROY_AND_EXIT
    MaxItems        \* bound: queue items ever allocated

Nothing == "nothing"

ASSUME QueueAssumption ==
    /\ MaxItems \in Nat /\ IsFiniteSet(Producers)
    /\ Exit \notin Data /\ Nothing \notin Data \cup {Exit}

Null == 0
Nodes == 1 .. MaxItems

VARIABLES
    head, tail,         \* of the list
    next, data,         \* per item
    semaphore,
    allocated,          \* number of items allocated
    ppc, pitem,         \* per producer: where it is in queue_put, and its item
    gpc, taken,         \* where the callback thread is, and what it got last
    exit_item,          \* history: the exit item, or Null
    chain,              \* history: the items of the list, from head to tail
    before              \* history: what the list held when the exit item was allocated

vars == <<head, tail, next, data, semaphore, allocated, ppc, pitem, gpc, taken, exit_item, chain, before>>

Init ==
    /\ head = Null /\ tail = Null
    /\ next = [n \in Nodes |-> Null] /\ data = [n \in Nodes |-> Exit]
    /\ semaphore = 0 /\ allocated = 0
    /\ ppc = [p \in Producers |-> "idle"] /\ pitem = [p \in Producers |-> Null]
    /\ gpc = "wait" /\ taken = Nothing
    /\ exit_item = Null /\ chain = <<>> /\ before = {}

-----------------------------------------------------------------------------
(* queue_put: the item is allocated and filled before the mutex is taken,   *)
Allocate(p, d) ==
    /\ ppc[p] = "idle" /\ allocated < MaxItems
    /\ allocated' = allocated + 1
    /\ next' = [next EXCEPT ![allocated + 1] = Null]
    /\ data' = [data EXCEPT ![allocated + 1] = d]
    /\ pitem' = [pitem EXCEPT ![p] = allocated + 1]
    /\ ppc' = [ppc EXCEPT ![p] = "link"]
    /\ UNCHANGED <<head, tail, semaphore, gpc, taken, chain>>

BeginPut(p, d) == Allocate(p, d) /\ UNCHANGED <<exit_item, before>>

(* ipcon_exit_callback_thread, once for every callback context.             *)
BeginExit(p) ==
    /\ exit_item = Null
    /\ Allocate(p, Exit)
    /\ exit_item' = allocated + 1
    /\ before' = {chain[i] : i \in 1 .. Len(chain)}

LinkKeepsTail(p) ==                                    \* mutant: the tail stays when the list is not empty
    /\ ppc[p] = "link" /\ ppc' = [ppc EXCEPT ![p] = "release"]
    /\ IF tail = Null
       THEN head' = pitem[p] /\ tail' = pitem[p] /\ UNCHANGED next
       ELSE next' = [next EXCEPT ![tail] = pitem[p]] /\ UNCHANGED <<head, tail>>
    /\ chain' = Append(chain, pitem[p])
    /\ UNCHANGED <<data, semaphore, allocated, pitem, gpc, taken, exit_item, before>>

(* linked with the mutex held,                                              *)
Link(p) ==
    /\ ppc[p] = "link"
    /\ IF tail = Null
       THEN head' = pitem[p] /\ UNCHANGED next
       ELSE next' = [next EXCEPT ![tail] = pitem[p]] /\ UNCHANGED head
    /\ tail' = pitem[p]
    /\ chain' = Append(chain, pitem[p])
    /\ ppc' = [ppc EXCEPT ![p] = "release"]
    /\ UNCHANGED <<data, semaphore, allocated, pitem, gpc, taken, exit_item, before>>

(* and announced when the mutex is free again.                              *)
ReleaseNothing(p) ==                                   \* mutant: no semaphore_release
    /\ ppc[p] = "release" /\ ppc' = [ppc EXCEPT ![p] = "idle"]
    /\ UNCHANGED <<head, tail, next, data, semaphore, allocated, pitem, gpc, taken, exit_item, chain, before>>

ReleaseTwice(p) ==                                     \* mutant: semaphore_release on both paths
    /\ ppc[p] = "release" /\ ppc' = [ppc EXCEPT ![p] = "idle"]
    /\ semaphore' = semaphore + 2
    /\ UNCHANGED <<head, tail, next, data, allocated, pitem, gpc, taken, exit_item, chain, before>>

Release(p) ==
    /\ ppc[p] = "release"
    /\ semaphore' = semaphore + 1
    /\ ppc' = [ppc EXCEPT ![p] = "idle"]
    /\ UNCHANGED <<head, tail, next, data, allocated, pitem, gpc, taken, exit_item, chain, before>>

-----------------------------------------------------------------------------
(* queue_get: semaphore_acquire, then the first item of the list.  An empty *)
(* list makes it return -1, and that ends the callback thread.              *)
Acquire ==
    /\ gpc = "wait" /\ semaphore > 0
    /\ semaphore' = semaphore - 1
    /\ gpc' = "take"
    /\ UNCHANGED <<head, tail, next, data, allocated, ppc, pitem, taken, exit_item, chain, before>>

UnlinkHeadOnly ==                                      \* mutant: tail not reset for the last item
    /\ head' = next[head] /\ UNCHANGED tail
    /\ next' = [next EXCEPT ![head] = Null]
    /\ taken' = data[head]
    /\ chain' = Tail(chain)

Unlink ==
    /\ IF tail = head
       THEN head' = Null /\ tail' = Null
       ELSE head' = next[head] /\ UNCHANGED tail
    /\ next' = [next EXCEPT ![head] = Null]
    /\ taken' = data[head]
    /\ chain' = Tail(chain)

AfterTakeAnyExit ==                                    \* mutant: ends as soon as an exit item is queued
    IF head = Null THEN "failed" ELSE IF exit_item # Null THEN "exited" ELSE "wait"

AfterTake ==
    IF head = Null THEN "failed"
    ELSE IF data[head] = Exit THEN "exited" ELSE "wait"

Take ==
    /\ gpc = "take" /\ gpc' = AfterTake
    /\ IF head = Null THEN UNCHANGED <<head, tail, next, taken, chain>> ELSE Unlink
    /\ UNCHANGED <<data, semaphore, allocated, ppc, pitem, exit_item, before>>

(* queue_destroy, by the callback thread or by who has joined it, after the *)
(* queue_put of the exit item.  The queue is freed with what is in it; what *)
(* a queue_put does that comes later, or is under way, is undefined and the *)
(* model ends here.                                                         *)
Destroy ==
    /\ gpc \in {"exited", "failed"} /\ exit_item # Null
    /\ \A p \in Producers : pitem[p] = exit_item => ppc[p] = "idle"
    /\ gpc' = "destroyed"
    /\ UNCHANGED <<head, tail, next, data, semaphore, allocated, ppc, pitem, taken, exit_item, chain, before>>

-----------------------------------------------------------------------------
Put(p) == Link(p) \/ Release(p)
Get == Acquire \/ Take

Freed == gpc = "destroyed"

Next ==
    /\ ~Freed
    /\ \/ \E p \in Producers : (\E d \in Data : BeginPut(p, d)) \/ BeginExit(p) \/ Put(p)
       \/ Get \/ Destroy

(* The threads run; whether anything is put is up to them.                  *)
Fairness == (\A p \in Producers : WF_vars(~Freed /\ Put(p))) /\ WF_vars(Get)

Spec == Init /\ [][Next]_vars
FairSpec == Spec /\ Fairness

-----------------------------------------------------------------------------
TypeOK ==
    /\ head \in Nodes \cup {Null} /\ tail \in Nodes \cup {Null}
    /\ next \in [Nodes -> Nodes \cup {Null}] /\ data \in [Nodes -> Data \cup {Exit}]
    /\ semaphore \in Nat /\ allocated \in 0 .. MaxItems
    /\ ppc \in [Producers -> {"idle", "link", "release"}]
    /\ pitem \in [Producers -> Nodes \cup {Null}]
    /\ gpc \in {"wait", "take", "exited", "failed", "destroyed"}
    /\ taken \in Data \cup {Exit, Nothing} /\ exit_item \in Nodes \cup {Null}
    /\ chain \in Seq(Nodes) /\ before \subseteq Nodes

(* queue_get finds an item whenever the semaphore let it pass: the callback *)
(* thread never ends because its queue failed it.                           *)
GetNeverFails == gpc # "failed"

(* Whatever is in the list when ipcon_exit_callback_thread is called is     *)
(* dispatched before the callback thread ends, however the other producers  *)
(* interleave: only what was linked behind the exit item, or by a queue_put *)
(* that overlaps with it, is thrown away with the queue.                    *)
NothingLost ==
    gpc \in {"exited", "destroyed"} => \A i \in 1 .. Len(chain) : chain[i] \notin before

(* The linked list, its semaphore and the two critical sections implement a *)
(* first-in first-out queue.                                                *)
Queue == INSTANCE Fifo WITH items <- [i \in DOMAIN chain |-> data[chain[i]]]
IsFifo == Queue!Spec

(* Everything that was put is taken: the list never fills up behind a       *)
(* callback thread that waits, until that has taken its exit item.          *)
Drained == chain # <<>> ~> (chain = <<>> \/ taken = Exit)

-----------------------------------------------------------------------------
(* Why it works.  The list is the chain: head and tail are its ends, every  *)
(* item points to the one after it, and no item is in it twice.             *)
ListInv ==
    /\ chain \in Seq(Nodes)
    /\ head = IF chain = <<>> THEN Null ELSE chain[1]
    /\ tail = IF chain = <<>> THEN Null ELSE chain[Len(chain)]
    /\ \A i \in 1 .. Len(chain) - 1 : next[chain[i]] = chain[i + 1]
    /\ \A i, j \in 1 .. Len(chain) : chain[i] = chain[j] => i = j

(* An item that still has to be linked is in nobody else's hands.           *)
FreshInv ==
    /\ \A i \in 1 .. Len(chain) : chain[i] <= allocated
    /\ \A p \in Producers : ppc[p] # "idle" => pitem[p] \in 1 .. allocated
    /\ \A p \in Producers : ppc[p] = "link" =>
         /\ \A i \in 1 .. Len(chain) : chain[i] # pitem[p]
         /\ \A q \in Producers \ {p} : ppc[q] = "link" => pitem[q] # pitem[p]

(* An item of the list is announced by the semaphore, or about to be, or    *)
(* the callback thread is about to take one.                                *)
Releasing == {p \in Producers : ppc[p] = "release"}
CountInv == Len(chain) = semaphore + Cardinality(Releasing) + (IF gpc = "take" THEN 1 ELSE 0)

(* There is one exit item, and what was in the list before it was allocated *)
(* is in front of it.                                                       *)
ExitInv ==
    /\ exit_item <= allocated
    /\ \A n \in 1 .. allocated : data[n] = Exit <=> n = exit_item
    /\ taken = Exit <=> gpc \in {"exited", "destroyed"}
    /\ taken = Exit => exit_item # Null
    /\ \A n \in before : n <= allocated
    /\ \A p \in Producers : ppc[p] = "link" => pitem[p] \notin before
    /\ \A i, j \in 1 .. Len(chain) : chain[i] \in before /\ chain[j] = exit_item => i < j

QueueInv == ListInv /\ FreshInv /\ CountInv /\ ExitInv /\ GetNeverFails /\ NothingLost
=============================================================================
