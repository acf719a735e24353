------------------------------ MODULE XrsTxPool ------------------------------
(***************************************************************************)
(* The transaction pool (src/xrs-node/src/tx_pool.rs) as the network uses *)
(* it: broadcast_transaction pushes a PrioritizedTx while the pool holds   *)
(* fewer than Cap entries, and drain() empties it.                        *)
(*                                                                         *)
(* PriorityQueue wraps std BinaryHeap, a max-heap with respect to Ord,     *)
(* stored as a vector.  push appends and sifts the new element up past     *)
(* every parent it is greater than; drain hands the vector out in storage  *)
(* order.  PrioritizedTx's Ord compares other.fee with self.fee, so the    *)
(* heap's "greatest" entry is the one with the lowest fee.  A transaction  *)
(* is represented by its fee.                                              *)
(***************************************************************************)
EXTENDS Naturals, Sequences, Bags, SequencesExt, BagsExt

CONSTANTS
  Fees,   \* fees transactions are pushed with
  Cap     \* broadcast_transaction's capacity test (10,000)

VARIABLES
  heap,      \* BinaryHeap's vector
  drained,   \* what the last drain() yielded, in order
  accepted   \* ghost: bag of fees pushed

poolVars == <<heap, drained, accepted>>

(* PrioritizedTx::cmp: a <= b under the code's Ord. *)
OrdLeq(a, b) == b <= a

(* BinaryHeap::push's sift_up from position i (1-based: parent i \div 2), *)
(* stopping at the first parent the element is not greater than.         *)
RECURSIVE SiftUp(_, _)
SiftUp(h, i) ==
  IF i = 1 \/ OrdLeq(h[i], h[i \div 2]) THEN h
  ELSE SiftUp([h EXCEPT ![i] = h[i \div 2], ![i \div 2] = h[i]], i \div 2)

PoolInit ==
  /\ heap = <<>>
  /\ drained = <<>>
  /\ accepted = EmptyBag

(* Mutant: the capacity test dropped. *)
Broadcast_NoCap(f) ==
  /\ heap' = SiftUp(Append(heap, f), Len(heap) + 1)
  /\ accepted' = BagAdd(accepted, f)
  /\ UNCHANGED drained

(* Network::broadcast_transaction then PriorityQueue::push: a full pool   *)
(* drops the transaction.                                                 *)
Broadcast(f) ==
  /\ IF Len(heap) < Cap
     THEN /\ heap' = SiftUp(Append(heap, f), Len(heap) + 1)
          /\ accepted' = BagAdd(accepted, f)
     ELSE UNCHANGED <<heap, accepted>>
  /\ UNCHANGED drained

(* PriorityQueue::drain: the heap's vector, front to back. *)
Drain ==
  /\ drained' = heap
  /\ heap' = <<>>
  /\ UNCHANGED accepted

PoolNext ==
  \/ \E f \in Fees : Broadcast(f)
  \/ Drain

PoolSpec == PoolInit /\ [][PoolNext]_poolVars

-----------------------------------------------------------------------------
PoolTypeOK ==
  /\ heap \in Seq(Fees) /\ Len(heap) <= Cap
  /\ drained \in Seq(Fees)

(* Draining serves transactions in descending fee order, highest first    *)
(* (spec section 4.2, and its test: fees 5, 1, 9, 3 drain as 9, 5, 3, 1). *)
DrainInFeeOrder == IsSorted(drained, >=)

=============================================================================
