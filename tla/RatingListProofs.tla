--------------------------- MODULE RatingListProofs ---------------------------
(***************************************************************************)
(* Proofs about RatingList, for any finite set of addresses: until a stale *)
(* tail is removed, the nodes on the heap are linked in the order of one   *)
(* sequence, which is the queue that RotatingList describes.               *)
(***************************************************************************)
EXTENDS RatingList, SequenceLemmas, FiniteSetTheorems, TLAPS

(* The nodes are linked in the order of w. *)
Chain(w) ==
    /\ w \in Seq(Nodes)
    /\ Len(w) = total_c_nodes
    /\ \A i, j \in 1 .. Len(w) : w[i] = w[j] => i = j
    /\ \A m \in Nodes : m \in live <=> \E i \in 1 .. Len(w) : w[i] = m
    /\ Len(w) = 0 => head = NULL /\ tail = NULL
    /\ Len(w) > 0 => head = w[1] /\ tail = w[Len(w)] /\ next[w[1]] = NULL
    /\ \A i \in 1 .. Len(w) - 1 : prev[w[i]] = w[i + 1] /\ next[w[i + 1]] = w[i]

(* The tail is a node that was cycled and has kept its "prev" link. *)
Requeued == tail # NULL /\ prev[tail] # NULL

ChainInv == ~stale_removed => ~failed /\ \E w \in Seq(Nodes) : Chain(w)

ListInv == TypeOK /\ ChainInv

--------------------------------------------------------------------------------
(* The order in which Walk visits the nodes *)

(* Walk, as an operator of what it reads. *)
WalkOf(n, h, p) ==
    LET node[k \in 1 .. n] == IF k = 1 THEN h ELSE p[node[k - 1]]
    IN  [k \in 1 .. n |-> node[k]]

LEMMA WalkReads ==
  /\ Walk = WalkOf(total_c_nodes, head, prev)
  /\ Walk' = WalkOf(total_c_nodes', head', prev')
  BY DEF Walk, WalkOf

(* A sequence that starts at the head and goes on by "prev" is the walk:   *)
(* there is no first place where the two differ.                           *)
LEMMA WalkUnique ==
  ASSUME NEW n \in Nat, NEW h, NEW p, NEW w,
         w = [k \in 1 .. n |-> IF k = 1 THEN h ELSE p[w[k - 1]]]
  PROVE  WalkOf(n, h, p) = w
<1> DEFINE Follows(f) == f = [k \in 1 .. n |-> IF k = 1 THEN h ELSE p[f[k - 1]]]
           node == CHOOSE f : Follows(f)
           Differ == {k \in 1 .. n : node[k] # w[k]}
<1>1. Follows(node)
  <2>1. Follows(w)
    OBVIOUS
  <2> HIDE DEF Follows
  <2>2. QED
    BY <2>1
<1>2. WalkOf(n, h, p) = [k \in 1 .. n |-> node[k]]
  BY DEF WalkOf
<1> HIDE DEF node
<1>3. Differ = {}
  <2> SUFFICES ASSUME Differ # {} PROVE FALSE
    OBVIOUS
  <2>1. Differ \in SUBSET Nat
    OBVIOUS
  <2>2. PICK k \in Differ : \A j \in Differ : k <= j
    <3> HIDE DEF Differ
    <3>1. QED
      BY <2>1, Least
  <2>3. k \in 1 .. n /\ node[k] # w[k] /\ k # 1
    BY <1>1, <2>2
  <2>4. k - 1 \in 1 .. n /\ node[k - 1] = w[k - 1]
    BY <2>2, <2>3
  <2>5. QED
    BY <1>1, <2>3, <2>4
<1>4. node = w
  <2>1. node = [k \in 1 .. n |-> node[k]] /\ w = [k \in 1 .. n |-> w[k]]
    BY <1>1
  <2>2. \A k \in 1 .. n : node[k] = w[k]
    BY <1>3
  <2>3. [k \in 1 .. n |-> node[k]] = [k \in 1 .. n |-> w[k]]
    BY <2>2
  <2>4. QED
    BY <2>1, <2>3
<1>5. QED
  BY <1>2, <1>4

(* A sequence is its function. *)
LEMMA SeqIsFcn ==
  ASSUME NEW w \in Seq(Nodes)
  PROVE  /\ Len(w) \in Nat /\ w \in [1 .. Len(w) -> Nodes] /\ DOMAIN w = 1 .. Len(w)
         /\ w = [k \in 1 .. Len(w) |-> w[k]]
         /\ (w = <<>> <=> Len(w) = 0)
  BY LenProperties, EmptySeq

(* Following "prev" from the head gives the order of the chain. *)
LEMMA WalkIsChain ==
  ASSUME NEW w
  PROVE  /\ Chain(w) => Walk = w
         /\ Chain(w)' => Walk' = w
<1>1. ASSUME NEW n, NEW h, NEW p, w \in Seq(Nodes), Len(w) = n, Len(w) > 0 => h = w[1],
             \A i \in 1 .. Len(w) - 1 : p[w[i]] = w[i + 1]
      PROVE  WalkOf(n, h, p) = w
  <2>1. n \in Nat /\ w = [k \in 1 .. n |-> w[k]]
    BY <1>1, SeqIsFcn
  <2>2. ASSUME NEW k \in 1 .. n PROVE w[k] = IF k = 1 THEN h ELSE p[w[k - 1]]
    <3>1. CASE k = 1
      BY <1>1, <2>1, <3>1
    <3>2. CASE k # 1
      <4>1. k - 1 \in 1 .. Len(w) - 1 /\ (k - 1) + 1 = k
        BY <1>1, <2>1, <3>2
      <4>2. QED
        BY <1>1, <3>2, <4>1
    <3>3. QED
      BY <3>1, <3>2
  <2>3. w = [k \in 1 .. n |-> IF k = 1 THEN h ELSE p[w[k - 1]]]
    BY <2>1, <2>2
  <2>4. QED
    BY <2>1, <2>3, WalkUnique
<1>2. Chain(w) => Walk = w
  BY <1>1, WalkReads DEF Chain
<1>3. Chain(w)' => Walk' = w
  BY <1>1, WalkReads DEF Chain
<1>4. QED
  BY <1>2, <1>3

--------------------------------------------------------------------------------
(* Types, whatever is removed *)

LEMMA TypeInit == Init => TypeOK
  BY FS_EmptySet DEF Init, TypeOK

(* The number of nodes on the heap.                                        *)
LEMMA LiveFacts ==
  ASSUME TypeOK
  PROVE  /\ IsFiniteSet(live) /\ total_c_nodes \in Nat
         /\ total_c_nodes = 0 <=> live = {}
         /\ \A n \in Nodes \ live : Cardinality(live \cup {n}) = total_c_nodes + 1
         /\ \A n \in live : Cardinality(live \ {n}) = total_c_nodes - 1
<1>1. IsFiniteSet(live)
  BY NodesAssumption, FS_Subset DEF TypeOK
<1>2. QED
  BY <1>1, FS_CardinalityType, FS_EmptySet, FS_AddElement, FS_RemoveElement DEF TypeOK

LEMMA TypeStep ==
  ASSUME TypeOK, [Next]_vars
  PROVE  TypeOK'
<1> USE DEF TypeOK
<1>1. ASSUME NEW n \in Nodes, AddContribution(n) PROVE TypeOK'
  <2>1. CASE UseAfterFree(IF total_c_nodes = 0 THEN {} ELSE {tail})
    BY <1>1, <2>1 DEF AddContribution, UseAfterFree, listState
  <2>2. CASE LinkAtTail(n) /\ live' = live \cup {n} /\ total_c_nodes' = total_c_nodes + 1
             /\ UNCHANGED <<result, failed>>
    <3>1. /\ next' \in [Nodes -> Nodes \cup {NULL}] /\ prev' \in [Nodes -> Nodes \cup {NULL}]
          /\ head' \in Nodes \cup {NULL} /\ tail' \in Nodes \cup {NULL}
      BY <2>2 DEF LinkAtTail, NewNext
    <3>2. live' \subseteq Nodes /\ total_c_nodes' = Cardinality(live')
      BY <1>1, <2>2, LiveFacts DEF AddContribution
    <3>3. QED
      BY <1>1, <2>2, <3>1, <3>2 DEF AddContribution
  <2>3. QED
    BY <1>1, <2>1, <2>2 DEF AddContribution
<1>2. ASSUME NEW n \in Nodes, RemoveContribution(n) PROVE TypeOK'
  <2>0. stale_removed' \in BOOLEAN
    BY <1>2 DEF RemoveContribution
  <2>1. CASE UseAfterFree(Neighbours(n))
    BY <2>0, <2>1 DEF UseAfterFree, listState
  <2>2. CASE /\ UnlinkMiddle(n) \/ UnlinkHead(n) \/ UnlinkTail(n) \/ UnlinkSingleton(n)
             /\ live' = Freed(n) /\ total_c_nodes' = total_c_nodes - 1
             /\ UNCHANGED <<result, failed>>
    <3>1. /\ next' \in [Nodes -> Nodes \cup {NULL}] /\ prev' \in [Nodes -> Nodes \cup {NULL}]
          /\ head' \in Nodes \cup {NULL} /\ tail' \in Nodes \cup {NULL}
      BY <2>2 DEF UnlinkMiddle, UnlinkHead, UnlinkTail, UnlinkSingleton
    <3>2. live' \subseteq Nodes /\ total_c_nodes' = Cardinality(live')
      BY <1>2, <2>2, LiveFacts DEF RemoveContribution, Freed
    <3>3. QED
      BY <2>0, <2>2, <3>1, <3>2
  <2>3. QED
    BY <1>2, <2>1, <2>2 DEF RemoveContribution
<1>3. CASE CycleFrontContribution
  <2>1. UNCHANGED <<live, total_c_nodes, stale_removed>> /\ failed' \in BOOLEAN
    BY <1>3 DEF CycleFrontContribution
  <2>2. \/ UNCHANGED listState
        \/ HeadToTail /\ head \in live /\ prev[head] \in live /\ tail \in live
    BY <1>3 DEF CycleFrontContribution
  <2>3. result' \in {NULL, head, result}
    BY <1>3 DEF CycleFrontContribution
  <2>4. /\ next' \in [Nodes -> Nodes \cup {NULL}] /\ prev' \in [Nodes -> Nodes \cup {NULL}]
        /\ head' \in Nodes \cup {NULL} /\ tail' \in Nodes \cup {NULL}
    BY <2>2 DEF HeadToTail, listState
  <2>5. QED
    BY <2>1, <2>3, <2>4
<1>4. CASE UNCHANGED vars
  BY <1>4 DEF vars, listState
<1>5. QED
  BY <1>1, <1>2, <1>3, <1>4 DEF Next

--------------------------------------------------------------------------------
(* What the operations do to a chain *)

(* An addition appends its node; nothing is freed that it needs.           *)
LEMMA AddToChain ==
  ASSUME TypeOK, ~failed, NEW w, Chain(w), NEW n \in Nodes, AddContribution(n)
  PROVE  /\ n \notin live
         /\ Chain(Append(w, n))'
         /\ ~Requeued'
         /\ UNCHANGED <<result, failed, stale_removed>>
<1> DEFINE v == Append(w, n)
           L == Len(w)
<1>1. /\ w \in Seq(Nodes) /\ L \in Nat /\ L = total_c_nodes
      /\ \A i \in 1 .. L : w[i] \in Nodes
      /\ v \in Seq(Nodes) /\ Len(v) = L + 1 /\ v[L + 1] = n
      /\ \A i \in 1 .. L : v[i] = w[i]
  BY SeqIsFcn, AppendProperties DEF Chain
<1> HIDE DEF v
<1>2. n \notin live /\ UNCHANGED stale_removed
  BY DEF AddContribution
<1>3. L > 0 => tail = w[L] /\ tail \in live /\ tail \in Nodes
  BY <1>1 DEF Chain
<1>4. ~UseAfterFree(IF total_c_nodes = 0 THEN {} ELSE {tail})
  BY <1>1, <1>3 DEF UseAfterFree
<1>5. /\ LinkAtTail(n) /\ live' = live \cup {n} /\ total_c_nodes' = total_c_nodes + 1
      /\ UNCHANGED <<result, failed>>
  BY <1>4 DEF AddContribution
<1>6. \A i \in 1 .. L : w[i] # n
  BY <1>1, <1>2 DEF Chain
<1>7. /\ \A i, j \in 1 .. Len(v) : v[i] = v[j] => i = j
      /\ \A m \in Nodes : m \in live' <=> \E i \in 1 .. Len(v) : v[i] = m
  <2>1. \A i, j \in 1 .. L : w[i] = w[j] => i = j
    BY DEF Chain
  <2>2. \A m \in Nodes : m \in live <=> \E i \in 1 .. L : w[i] = m
    BY DEF Chain
  <2>3. \A i, j \in 1 .. Len(v) : v[i] = v[j] => i = j
    BY <1>1, <1>6, <2>1
  <2>4. ASSUME NEW m \in Nodes PROVE m \in live' <=> \E i \in 1 .. Len(v) : v[i] = m
    BY <1>1, <1>5, <2>2
  <2>5. QED
    BY <2>3, <2>4
<1>8. CASE L = 0
  <2>1. /\ head' = n /\ tail' = n /\ next' = [next EXCEPT ![n] = NULL]
        /\ prev' = [prev EXCEPT ![n] = NULL]
    BY <1>1, <1>5, <1>8 DEF LinkAtTail
  <2>2. v[1] = n /\ Len(v) = 1 /\ next'[n] = NULL /\ prev'[n] = NULL
    BY <1>1, <1>8, <2>1 DEF TypeOK
  <2>3. Chain(v)'
    BY <1>1, <1>5, <1>7, <2>1, <2>2 DEF Chain
  <2>4. QED
    BY <1>2, <1>5, <2>1, <2>2, <2>3 DEF Requeued, v
<1>9. CASE L > 0
  <2>1. /\ tail' = n /\ head' = head /\ next' = [next EXCEPT ![n] = tail]
        /\ prev' = [prev EXCEPT ![n] = NULL, ![tail] = n]
    BY <1>1, <1>5, <1>9 DEF LinkAtTail, NewNext
  <2>2. v[1] = w[1] /\ w[1] # n /\ head = w[1] /\ next[w[1]] = NULL /\ tail = w[L]
    BY <1>1, <1>6, <1>9 DEF Chain
  <2>3. next'[v[1]] = NULL /\ prev'[n] = NULL
    BY <1>1, <1>3, <1>6, <1>9, <2>1, <2>2 DEF TypeOK
  <2>4. ASSUME NEW i \in 1 .. L PROVE prev'[v[i]] = v[i + 1] /\ next'[v[i + 1]] = v[i]
    <3>1. CASE i = L
      BY <1>1, <1>3, <1>6, <1>9, <2>1, <2>2, <3>1 DEF TypeOK
    <3>2. CASE i # L
      <4>1. /\ i \in 1 .. L - 1 /\ i + 1 \in 1 .. L
            /\ v[i] = w[i] /\ v[i + 1] = w[i + 1]
            /\ w[i] \in Nodes /\ w[i + 1] \in Nodes
        BY <1>1, <3>2
      <4>2. prev[w[i]] = w[i + 1] /\ next[w[i + 1]] = w[i] /\ w[i] # w[L]
        BY <1>1, <1>9, <3>2, <4>1 DEF Chain
      <4>3. QED
        BY <1>6, <2>1, <2>2, <4>1, <4>2 DEF TypeOK
    <3>3. QED
      BY <3>1, <3>2
  <2>5. Chain(v)'
    <3>1. /\ v \in Seq(Nodes) /\ Len(v) = total_c_nodes' /\ Len(v) > 0
          /\ head' = v[1] /\ tail' = v[Len(v)] /\ next'[v[1]] = NULL
      BY <1>1, <1>5, <1>9, <2>1, <2>2, <2>3
    <3>2. \A i \in 1 .. Len(v) - 1 : prev'[v[i]] = v[i + 1] /\ next'[v[i + 1]] = v[i]
      <4>1. Len(v) - 1 = L
        BY <1>1
      <4>2. QED
        BY <2>4, <4>1
    <3>3. QED
      BY <1>7, <3>1, <3>2 DEF Chain
  <2>6. QED
    BY <1>2, <1>5, <2>1, <2>3, <2>5 DEF Requeued, v
<1>10. QED
  BY <1>1, <1>8, <1>9

(* Whatever branch it takes, a removal that is not stale takes its node    *)
(* out of the chain and closes the gap.                                    *)
LEMMA RemoveFromChain ==
  ASSUME TypeOK, ~failed, NEW w, Chain(w), NEW n \in Nodes, RemoveContribution(n), ~stale_removed'
  PROVE  /\ \E i \in 1 .. Len(w) : w[i] = n /\ Chain(Promise!RemoveAt(w, i))'
         /\ Requeued' <=> Requeued
         /\ ~(Requeued /\ n = tail)
         /\ UNCHANGED <<result, failed>>
<1> DEFINE L == Len(w)
<1>1. /\ w \in Seq(Nodes) /\ L \in Nat /\ L = total_c_nodes
      /\ \A k \in 1 .. L : w[k] \in Nodes /\ w[k] \in live
  BY SeqIsFcn DEF Chain
<1>2. n \in live /\ ~(n = tail /\ prev[n] # NULL)
  BY DEF RemoveContribution
<1>3. PICK i \in 1 .. L : w[i] = n
  BY <1>2 DEF Chain
<1>4. \A j, k \in 1 .. L : w[j] = w[k] => j = k
  BY DEF Chain
<1>5. /\ i = 1 => next[n] = NULL /\ head = n
      /\ i > 1 => i - 1 \in 1 .. L /\ next[n] = w[i - 1] /\ head = w[1]
  <2>1. L > 0
    BY <1>1
  <2>2. i > 1 => i - 1 \in 1 .. L - 1 /\ (i - 1) + 1 = i
    BY <1>1
  <2>3. QED
    BY <1>1, <1>3, <2>1, <2>2 DEF Chain
<1>6. /\ i = L => prev[n] = NULL /\ tail = n
      /\ i < L => i + 1 \in 1 .. L /\ prev[n] = w[i + 1] /\ tail = w[L]
  <2>1. L > 0
    BY <1>1
  <2>2. i < L => i \in 1 .. L - 1 /\ i + 1 \in 1 .. L
    BY <1>1
  <2>3. QED
    BY <1>1, <1>2, <1>3, <2>1, <2>2 DEF Chain
<1>7. i = 1 \/ i > 1
  BY <1>1
<1>8. i = L \/ i < L
  BY <1>1
<1>9. Neighbours(n) \subseteq live
  BY <1>1, <1>5, <1>6, <1>7, <1>8 DEF Neighbours
<1>10. /\ UnlinkMiddle(n) \/ UnlinkHead(n) \/ UnlinkTail(n) \/ UnlinkSingleton(n)
       /\ live' = live \ {n} /\ total_c_nodes' = total_c_nodes - 1
       /\ UNCHANGED <<result, failed>>
  BY <1>9 DEF RemoveContribution, UseAfterFree, Freed
<1>11. NULL \notin Nodes
  BY NodesAssumption
(* The two neighbours are linked to each other, and nothing else changes. *)
<1>12. /\ i = 1 /\ L = 1 => head' = NULL /\ tail' = NULL
       /\ i = 1 /\ L > 1 => head' = w[2]
       /\ i > 1 => head' = head
       /\ i = L /\ L > 1 => tail' = w[L - 1]
       /\ i < L => tail' = tail
       /\ i > 1 => prev'[w[i - 1]] = IF i < L THEN w[i + 1] ELSE NULL
       /\ i < L => next'[w[i + 1]] = IF i > 1 THEN w[i - 1] ELSE NULL
       /\ \A k \in 1 .. L : k # i - 1 => prev'[w[k]] = prev[w[k]]
       /\ \A k \in 1 .. L : k # i + 1 => next'[w[k]] = next[w[k]]
  <2>1. CASE i > 1 /\ i < L
    <3>1. /\ next[n] = w[i - 1] /\ prev[n] = w[i + 1] /\ w[i - 1] \in Nodes /\ w[i + 1] \in Nodes
          /\ i - 1 \in 1 .. L /\ i + 1 \in 1 .. L
      BY <1>1, <1>5, <1>6, <2>1
    <3>2. /\ next' = [next EXCEPT ![w[i + 1]] = w[i - 1]]
          /\ prev' = [prev EXCEPT ![w[i - 1]] = w[i + 1]]
          /\ UNCHANGED <<head, tail>>
      BY <1>10, <1>11, <3>1 DEF UnlinkMiddle, UnlinkHead, UnlinkTail, UnlinkSingleton
    <3>3. \A k \in 1 .. L : k # i - 1 => prev'[w[k]] = prev[w[k]]
      BY <1>1, <1>4, <3>1, <3>2 DEF TypeOK
    <3>4. \A k \in 1 .. L : k # i + 1 => next'[w[k]] = next[w[k]]
      BY <1>1, <1>4, <3>1, <3>2 DEF TypeOK
    <3>5. prev'[w[i - 1]] = w[i + 1] /\ next'[w[i + 1]] = w[i - 1]
      BY <3>1, <3>2 DEF TypeOK
    <3>6. QED
      BY <1>1, <2>1, <3>2, <3>3, <3>4, <3>5
  <2>2. CASE i = 1 /\ i < L
    <3>1. next[n] = NULL /\ prev[n] = w[2] /\ w[2] \in Nodes /\ 2 \in 1 .. L /\ i + 1 = 2
      BY <1>1, <1>5, <1>6, <2>2
    <3>2. /\ next' = [next EXCEPT ![w[2]] = NULL]
          /\ head' = w[2] /\ UNCHANGED <<prev, tail>>
      BY <1>10, <1>11, <3>1 DEF UnlinkMiddle, UnlinkHead, UnlinkTail, UnlinkSingleton
    <3>3. \A k \in 1 .. L : k # i + 1 => next'[w[k]] = next[w[k]]
      BY <1>1, <1>4, <3>1, <3>2 DEF TypeOK
    <3>4. next'[w[i + 1]] = NULL
      BY <3>1, <3>2 DEF TypeOK
    <3>5. QED
      BY <1>1, <2>2, <3>2, <3>3, <3>4
  <2>3. CASE i > 1 /\ i = L
    <3>1. /\ next[n] = w[i - 1] /\ prev[n] = NULL /\ w[i - 1] \in Nodes /\ i - 1 \in 1 .. L
          /\ i - 1 = L - 1
      BY <1>1, <1>5, <1>6, <2>3
    <3>2. /\ prev' = [prev EXCEPT ![w[i - 1]] = NULL]
          /\ tail' = w[i - 1] /\ UNCHANGED <<next, head>>
      BY <1>10, <1>11, <3>1 DEF UnlinkMiddle, UnlinkHead, UnlinkTail, UnlinkSingleton
    <3>3. \A k \in 1 .. L : k # i - 1 => prev'[w[k]] = prev[w[k]]
      BY <1>1, <1>4, <3>1, <3>2 DEF TypeOK
    <3>4. prev'[w[i - 1]] = NULL
      BY <3>1, <3>2 DEF TypeOK
    <3>5. QED
      BY <1>1, <2>3, <3>1, <3>2, <3>3, <3>4
  <2>4. CASE i = 1 /\ i = L
    <3>1. head' = NULL /\ tail' = NULL /\ UNCHANGED <<next, prev>>
      BY <1>5, <1>6, <1>10, <2>4 DEF UnlinkMiddle, UnlinkHead, UnlinkTail, UnlinkSingleton
    <3>2. QED
      BY <1>1, <2>4, <3>1
  <2>5. QED
    BY <1>7, <1>8, <2>1, <2>2, <2>3, <2>4
<1>13. (Requeued' <=> Requeued) /\ ~(Requeued /\ n = tail)
  <2>1. CASE i = L
    <3>1. ~Requeued
      BY <1>6, <2>1 DEF Requeued
    <3>2. ~Requeued'
      <4>1. CASE L = 1
        BY <1>12, <2>1, <4>1 DEF Requeued
      <4>2. CASE L # 1
        <5>1. L > 1 /\ i > 1 /\ ~(i < L) /\ i - 1 = L - 1
          BY <1>1, <2>1, <4>2
        <5>2. QED
          BY <1>12, <2>1, <5>1 DEF Requeued
      <4>3. QED
        BY <4>1, <4>2
    <3>3. QED
      BY <3>1, <3>2
  <2>2. CASE i < L
    <3>1. L \in 1 .. L /\ L # i /\ L # i - 1
      BY <1>1, <2>2
    <3>2. tail' = tail /\ tail = w[L] /\ prev'[w[L]] = prev[w[L]]
      BY <1>6, <1>12, <2>2, <3>1
    <3>3. n # tail
      BY <1>3, <1>4, <3>1, <3>2
    <3>4. QED
      BY <3>2, <3>3 DEF Requeued
  <2>3. QED
    BY <1>8, <2>1, <2>2
<1> DEFINE v == Promise!RemoveAt(w, i)
<1>14. /\ v \in Seq(Nodes) /\ Len(v) = L - 1
       /\ \A k \in 1 .. L - 1 : v[k] = IF k < i THEN w[k] ELSE w[k + 1]
  BY <1>1, TakeOut DEF Promise!RemoveAt, TakenOut
<1> HIDE DEF v
<1>15. \A j, k \in 1 .. Len(v) : v[j] = v[k] => j = k
  <2>1. ASSUME NEW j \in 1 .. Len(v), NEW k \in 1 .. Len(v), v[j] = v[k] PROVE j = k
    <3>1. /\ j \in 1 .. L /\ k \in 1 .. L /\ j + 1 \in 1 .. L /\ k + 1 \in 1 .. L
          /\ j \in 1 .. L - 1 /\ k \in 1 .. L - 1
      BY <1>1, <1>14
    <3>2. (IF j < i THEN j ELSE j + 1) = (IF k < i THEN k ELSE k + 1)
      BY <1>4, <1>14, <2>1, <3>1
    <3>3. QED
      BY <1>1, <3>1, <3>2
  <2>2. QED
    BY <2>1
<1>16. \A m \in Nodes : m \in live' <=> \E k \in 1 .. Len(v) : v[k] = m
  <2>1. ASSUME NEW m \in Nodes, m \in live' PROVE \E k \in 1 .. Len(v) : v[k] = m
    <3>1. m \in live /\ m # n
      BY <1>10, <2>1
    <3>2. PICK k \in 1 .. L : w[k] = m
      BY <3>1 DEF Chain
    <3>3. k # i
      BY <1>3, <3>1, <3>2
    <3>4. CASE k < i
      BY <1>1, <1>14, <3>2, <3>4
    <3>5. CASE k > i
      <4>1. k - 1 \in 1 .. L - 1 /\ ~(k - 1 < i) /\ (k - 1) + 1 = k
        BY <1>1, <3>5
      <4>2. QED
        BY <1>14, <3>2, <4>1
    <3>6. QED
      BY <1>1, <3>3, <3>4, <3>5
  <2>2. ASSUME NEW k \in 1 .. Len(v) PROVE v[k] \in live'
    <3>1. k \in 1 .. L - 1 /\ k \in 1 .. L /\ k + 1 \in 1 .. L
      BY <1>1, <1>14
    <3>2. PICK j \in 1 .. L : v[k] = w[j] /\ j # i
      <4>1. CASE k < i
        BY <1>1, <1>14, <3>1, <4>1
      <4>2. CASE ~(k < i)
        BY <1>1, <1>14, <3>1, <4>2
      <4>3. QED
        BY <4>1, <4>2
    <3>3. QED
      BY <1>1, <1>3, <1>4, <1>10, <3>2
  <2>3. QED
    BY <2>1, <2>2
<1>17. Len(v) = 0 => head' = NULL /\ tail' = NULL
  BY <1>1, <1>12, <1>14
<1>18. Len(v) > 0 => head' = v[1] /\ tail' = v[Len(v)] /\ next'[v[1]] = NULL
  <2> SUFFICES ASSUME L > 1 PROVE head' = v[1] /\ tail' = v[L - 1] /\ next'[v[1]] = NULL
    BY <1>1, <1>14
  <2>1. 1 \in 1 .. L - 1 /\ L - 1 \in 1 .. L - 1 /\ 1 \in 1 .. L /\ (L - 1) + 1 = L
    BY <1>1
  <2>2. head' = v[1] /\ next'[v[1]] = NULL
    <3>1. CASE i = 1
      <4>1. v[1] = w[2] /\ i < L /\ ~(i > 1) /\ i + 1 = 2
        BY <1>1, <1>14, <2>1, <3>1
      <4>2. QED
        BY <1>12, <3>1, <4>1
    <3>2. CASE i > 1
      <4>1. v[1] = w[1] /\ 1 # i + 1 /\ head = w[1] /\ L > 0
        BY <1>1, <1>5, <1>14, <2>1, <3>2
      <4>2. next[w[1]] = NULL
        BY <4>1 DEF Chain
      <4>3. QED
        BY <1>12, <2>1, <3>2, <4>1, <4>2
    <3>3. QED
      BY <1>7, <3>1, <3>2
  <2>3. tail' = v[L - 1]
    <3>1. CASE i = L
      <4>1. v[L - 1] = w[L - 1]
        BY <1>1, <1>14, <2>1, <3>1
      <4>2. QED
        BY <1>12, <3>1, <4>1
    <3>2. CASE i < L
      <4>1. v[L - 1] = w[L]
        BY <1>1, <1>14, <2>1, <3>2
      <4>2. QED
        BY <1>6, <1>12, <3>2, <4>1
    <3>3. QED
      BY <1>8, <3>1, <3>2
  <2>4. QED
    BY <2>2, <2>3
<1>19. \A k \in 1 .. Len(v) - 1 : prev'[v[k]] = v[k + 1] /\ next'[v[k + 1]] = v[k]
  <2> SUFFICES ASSUME NEW k \in 1 .. L - 2
               PROVE  prev'[v[k]] = v[k + 1] /\ next'[v[k + 1]] = v[k]
    BY <1>1, <1>14
  <2>1. /\ k \in 1 .. L - 1 /\ k + 1 \in 1 .. L - 1 /\ k \in 1 .. L /\ k + 1 \in 1 .. L
        /\ k + 2 \in 1 .. L /\ (k + 1) + 1 = k + 2
    BY <1>1
  <2>2. /\ prev[w[k]] = w[k + 1] /\ next[w[k + 1]] = w[k]
        /\ prev[w[k + 1]] = w[k + 2] /\ next[w[k + 2]] = w[k + 1]
    BY <2>1 DEF Chain
  <2>3. CASE k + 1 < i
    <3>1. v[k] = w[k] /\ v[k + 1] = w[k + 1] /\ k # i - 1 /\ k + 1 # i + 1
      BY <1>1, <1>14, <2>1, <2>3
    <3>2. QED
      BY <1>12, <2>1, <2>2, <3>1
  <2>4. CASE k + 1 = i
    <3>1. v[k] = w[k] /\ v[k + 1] = w[k + 2] /\ k = i - 1 /\ k + 2 = i + 1 /\ i > 1 /\ i < L
      BY <1>1, <1>14, <2>1, <2>4
    <3>2. QED
      BY <1>12, <3>1
  <2>5. CASE k + 1 > i
    <3>1. v[k] = w[k + 1] /\ v[k + 1] = w[k + 2] /\ k + 1 # i - 1 /\ k + 2 # i + 1
      BY <1>1, <1>14, <2>1, <2>5
    <3>2. QED
      BY <1>12, <2>1, <2>2, <3>1
  <2>6. QED
    BY <1>1, <2>1, <2>3, <2>4, <2>5
<1>20. Len(v) = total_c_nodes'
  BY <1>1, <1>10, <1>14
<1>21. Chain(v)'
  BY <1>14, <1>15, <1>16, <1>17, <1>18, <1>19, <1>20 DEF Chain
<1>22. QED
  BY <1>3, <1>10, <1>13, <1>21 DEF v

(* A draw brings the head to the tail, and goes through no freed node.     *)
LEMMA CycleChain ==
  ASSUME TypeOK, ~failed, NEW w, Chain(w), CycleFrontContribution
  PROVE  /\ ~failed'
         /\ result' = IF Len(w) = 0 THEN NULL ELSE w[1]
         /\ Len(w) <= 1 => Chain(w)' /\ (Requeued' <=> Requeued)
         /\ Len(w) > 1 => Chain(Append(Tail(w), Head(w)))' /\ Requeued'
<1> DEFINE L == Len(w)
<1>1. /\ w \in Seq(Nodes) /\ L \in Nat /\ L = total_c_nodes
      /\ \A k \in 1 .. L : w[k] \in Nodes /\ w[k] \in live
      /\ L > 0 => head = w[1] /\ tail = w[L] /\ next[w[1]] = NULL
  BY SeqIsFcn DEF Chain
<1>2. \A j, k \in 1 .. L : w[j] = w[k] => j = k
  BY DEF Chain
<1>3. UNCHANGED <<live, total_c_nodes, stale_removed>> /\ NULL \notin Nodes
  BY NodesAssumption DEF CycleFrontContribution
<1>4. CASE L = 0
  <2>1. result' = NULL /\ UNCHANGED <<listState, failed>>
    BY <1>1, <1>4 DEF CycleFrontContribution
  <2>2. UNCHANGED <<next, prev, head, tail>>
    BY <2>1 DEF listState
  <2>3. Chain(w)' /\ (Requeued' <=> Requeued)
    BY <1>3, <2>2 DEF Chain, Requeued
  <2>4. QED
    BY <1>4, <2>1, <2>3
<1>5. CASE L = 1
  <2>1. head \in live /\ head = w[1]
    BY <1>1, <1>5
  <2>2. result' = head /\ UNCHANGED <<listState, failed>>
    BY <1>1, <1>5, <2>1 DEF CycleFrontContribution
  <2>3. UNCHANGED <<next, prev, head, tail>>
    BY <2>2 DEF listState
  <2>4. Chain(w)' /\ (Requeued' <=> Requeued)
    BY <1>3, <2>3 DEF Chain, Requeued
  <2>5. QED
    BY <1>5, <2>1, <2>2, <2>4
<1>6. CASE L > 1
  <2> DEFINE v == Append(Tail(w), Head(w))
  <2>1. /\ 1 \in 1 .. L /\ 2 \in 1 .. L /\ L \in 1 .. L /\ 1 \in 1 .. L - 1
        /\ head = w[1] /\ tail = w[L] /\ w[1] # w[L]
    BY <1>1, <1>2, <1>6
  <2>2. prev[w[1]] = w[2]
    BY <2>1 DEF Chain
  <2>3. head \in live /\ {prev[head], tail} \subseteq live
    BY <1>1, <2>1, <2>2
  <2>4. result' = head /\ HeadToTail /\ UNCHANGED failed
    BY <1>1, <1>6, <2>3 DEF CycleFrontContribution
  <2>5. /\ next' = [next EXCEPT ![w[2]] = NULL, ![w[1]] = w[L]]
        /\ prev' = [prev EXCEPT ![w[L]] = w[1]]
        /\ head' = w[2] /\ tail' = w[1]
    BY <2>1, <2>2, <2>4 DEF HeadToTail
  <2>6. /\ prev'[w[L]] = w[1] /\ next'[w[1]] = w[L] /\ next'[w[2]] = NULL
        /\ \A k \in 1 .. L - 1 : prev'[w[k]] = prev[w[k]]
        /\ \A k \in 3 .. L : next'[w[k]] = next[w[k]]
    <3>1. prev'[w[L]] = w[1] /\ next'[w[1]] = w[L]
      BY <1>1, <2>1, <2>5 DEF TypeOK
    <3>2. w[1] # w[2]
      BY <1>2, <2>1
    <3>3. next'[w[2]] = NULL
      BY <1>1, <2>1, <2>5, <3>2 DEF TypeOK
    <3>4. ASSUME NEW k \in 1 .. L - 1 PROVE prev'[w[k]] = prev[w[k]]
      <4>1. k \in 1 .. L /\ w[k] # w[L]
        BY <1>1, <1>2, <2>1
      <4>2. QED
        BY <1>1, <2>1, <2>5, <4>1 DEF TypeOK
    <3>5. ASSUME NEW k \in 3 .. L PROVE next'[w[k]] = next[w[k]]
      <4>1. k \in 1 .. L /\ k # 1 /\ k # 2
        BY <1>1
      <4>2. w[k] # w[1] /\ w[k] # w[2]
        BY <1>2, <2>1, <4>1
      <4>3. QED
        BY <1>1, <2>1, <2>5, <4>1, <4>2 DEF TypeOK
    <3>6. QED
      BY <3>1, <3>3, <3>4, <3>5
  <2>7. /\ v \in Seq(Nodes) /\ Len(v) = L /\ v[L] = w[1]
        /\ \A k \in 1 .. L - 1 : v[k] = w[k + 1]
    <3>1. w # <<>>
      BY <1>1, <1>6, SeqIsFcn
    <3>2. /\ Tail(w) \in Seq(Nodes) /\ Len(Tail(w)) = L - 1 /\ Head(w) \in Nodes
          /\ \A k \in 1 .. Len(Tail(w)) : Tail(w)[k] = w[k + 1]
      BY <1>1, <3>1, HeadTailProperties
    <3>3. Head(w) = w[1]
      OBVIOUS
    <3> DEFINE t == Tail(w)
    <3>4. /\ v \in Seq(Nodes) /\ Len(v) = Len(t) + 1
          /\ \A k \in 1 .. Len(t) : v[k] = t[k]
          /\ v[Len(t) + 1] = Head(w)
      BY <3>2, AppendProperties
    <3> HIDE DEF v, t
    <3>5. t \in Seq(Nodes) /\ Len(t) = L - 1 /\ \A k \in 1 .. L - 1 : t[k] = w[k + 1]
      BY <3>2 DEF t
    <3>6. QED
      BY <1>1, <1>6, <3>3, <3>4, <3>5
  <2> HIDE DEF v
  <2>8. \A j, k \in 1 .. Len(v) : v[j] = v[k] => j = k
    <3> SUFFICES ASSUME NEW j \in 1 .. L, NEW k \in 1 .. L, v[j] = v[k] PROVE j = k
      BY <2>7
    <3>1. /\ v[j] = w[IF j = L THEN 1 ELSE j + 1] /\ (IF j = L THEN 1 ELSE j + 1) \in 1 .. L
          /\ v[k] = w[IF k = L THEN 1 ELSE k + 1] /\ (IF k = L THEN 1 ELSE k + 1) \in 1 .. L
      BY <1>1, <1>6, <2>7
    <3>2. (IF j = L THEN 1 ELSE j + 1) = (IF k = L THEN 1 ELSE k + 1)
      BY <1>2, <3>1
    <3>3. QED
      BY <1>1, <3>2
  <2>9. \A m \in Nodes : m \in live' <=> \E k \in 1 .. Len(v) : v[k] = m
    <3>1. ASSUME NEW m \in Nodes, m \in live PROVE \E k \in 1 .. L : v[k] = m
      <4>1. PICK j \in 1 .. L : w[j] = m
        BY <3>1 DEF Chain
      <4>2. CASE j = 1
        BY <2>1, <2>7, <4>1, <4>2
      <4>3. CASE j # 1
        <5>1. j - 1 \in 1 .. L - 1 /\ j - 1 \in 1 .. L /\ (j - 1) + 1 = j
          BY <1>1, <4>3
        <5>2. QED
          BY <2>7, <4>1, <5>1
      <4>4. QED
        BY <4>2, <4>3
    <3>2. ASSUME NEW k \in 1 .. L PROVE v[k] \in live
      <4>1. CASE k = L
        BY <1>1, <2>1, <2>7, <4>1
      <4>2. CASE k # L
        <5>1. k \in 1 .. L - 1 /\ k + 1 \in 1 .. L
          BY <1>1, <4>2
        <5>2. QED
          BY <1>1, <2>7, <5>1
      <4>3. QED
        BY <4>1, <4>2
    <3>3. QED
      BY <1>3, <2>7, <3>1, <3>2
  <2>10. head' = v[1] /\ tail' = v[Len(v)] /\ next'[v[1]] = NULL
    BY <1>6, <2>1, <2>5, <2>6, <2>7
  <2>11. \A k \in 1 .. Len(v) - 1 : prev'[v[k]] = v[k + 1] /\ next'[v[k + 1]] = v[k]
    <3> SUFFICES ASSUME NEW k \in 1 .. L - 1 PROVE prev'[v[k]] = v[k + 1] /\ next'[v[k + 1]] = v[k]
      BY <2>7
    <3>1. CASE k = L - 1
      <4>1. v[k] = w[L] /\ v[k + 1] = w[1]
        BY <1>1, <2>7, <3>1
      <4>2. QED
        BY <2>6, <4>1
    <3>2. CASE k # L - 1
      <4>1. k + 1 \in 1 .. L - 1 /\ k + 2 \in 3 .. L /\ (k + 1) + 1 = k + 2
        BY <1>1, <3>2
      <4>2. v[k] = w[k + 1] /\ v[k + 1] = w[k + 2]
        BY <2>7, <4>1
      <4>3. prev[w[k + 1]] = w[k + 2] /\ next[w[k + 2]] = w[k + 1]
        BY <4>1 DEF Chain
      <4>4. QED
        BY <2>6, <4>1, <4>2, <4>3
    <3>3. QED
      BY <3>1, <3>2
  <2>12. Len(v) = total_c_nodes' /\ Len(v) > 0
    BY <1>1, <1>3, <1>6, <2>7
  <2>13. Chain(v)'
    <3>1. v \in Seq(Nodes) /\ Len(v) = total_c_nodes' /\ Len(v) # 0
      BY <1>6, <2>7, <2>12
    <3>2. Len(v) > 0 => head' = v[1] /\ tail' = v[Len(v)] /\ next'[v[1]] = NULL
      BY <2>10
    <3>3. QED
      BY <2>8, <2>9, <2>11, <3>1, <3>2 DEF Chain
  <2>14. Requeued'
    <3>1. prev'[w[1]] = w[2] /\ tail' = w[1]
      BY <2>1, <2>2, <2>5, <2>6
    <3>2. w[1] \in Nodes /\ w[2] \in Nodes
      BY <1>1, <2>1
    <3>3. QED
      BY <1>3, <3>1, <3>2 DEF Requeued
  <2>15. QED
    BY <1>6, <2>1, <2>4, <2>13, <2>14 DEF v
<1>7. QED
  BY <1>1, <1>4, <1>5, <1>6

--------------------------------------------------------------------------------
(* The invariant *)

(* A stale removal is never taken back.                                    *)
LEMMA StaleStays ==
  ASSUME [Next]_vars, stale_removed
  PROVE  stale_removed'
  BY DEF Next, vars, AddContribution, RemoveContribution, CycleFrontContribution

(* The empty list is a chain. *)
LEMMA ChainInit ==
  ASSUME Init
  PROVE  Chain(<<>>) /\ ~failed /\ ~stale_removed /\ ~Requeued
<1>1. <<>> \in Seq(Nodes) /\ Len(<<>>) = 0
  OBVIOUS
<1>2. QED
  BY <1>1 DEF Init, Chain, Requeued

LEMMA ChainStep ==
  ASSUME TypeOK, ChainInv, [Next]_vars
  PROVE  ChainInv'
<1> SUFFICES ASSUME ~stale_removed' PROVE ~failed' /\ \E w \in Seq(Nodes) : Chain(w)'
  BY DEF ChainInv
<1>1. ~failed /\ \E w \in Seq(Nodes) : Chain(w)
  BY StaleStays DEF ChainInv
<1>2. PICK w \in Seq(Nodes) : Chain(w)
  BY <1>1
<1>3. \A v : Chain(v)' => v \in Seq(Nodes)
  BY DEF Chain
<1>4. ASSUME NEW n \in Nodes, AddContribution(n) PROVE ~failed' /\ \E v \in Seq(Nodes) : Chain(v)'
  BY <1>1, <1>2, <1>3, <1>4, AddToChain
<1>5. ASSUME NEW n \in Nodes, RemoveContribution(n) PROVE ~failed' /\ \E v \in Seq(Nodes) : Chain(v)'
  BY <1>1, <1>2, <1>3, <1>5, RemoveFromChain
<1>6. CASE CycleFrontContribution
  <2>1. Len(w) \in Nat
    BY LenProperties
  <2>2. Len(w) <= 1 \/ Len(w) > 1
    BY <2>1
  <2>3. QED
    BY <1>1, <1>2, <1>3, <1>6, <2>2, CycleChain
<1>7. CASE UNCHANGED vars
  <2>1. UNCHANGED <<live, next, prev, head, tail, total_c_nodes, failed>>
    BY <1>7 DEF vars, listState
  <2>2. Chain(w)'
    BY <1>2, <2>1 DEF Chain
  <2>3. QED
    BY <1>1, <2>1, <2>2
<1>8. QED
  BY <1>4, <1>5, <1>6, <1>7 DEF Next

LEMMA ListInvariant == Spec => []ListInv
<1>1. Init => ListInv
  <2>1. Init => ChainInv
    BY ChainInit, EmptySeq DEF ChainInv
  <2>2. QED
    BY <2>1, TypeInit DEF ListInv
<1>2. ListInv /\ [Next]_vars => ListInv'
  BY TypeStep, ChainStep DEF ListInv
<1>3. QED
  BY <1>1, <1>2, PTL DEF Spec

--------------------------------------------------------------------------------

(* The links, the ends and the count keep their types through every        *)
(* addition, removal and draw, and total_c_nodes is the number of nodes    *)
(* on the heap, whatever is removed.                                       *)
THEOREM TypeCorrect == Spec => []TypeOK
<1>1. ListInv => TypeOK
  BY DEF ListInv
<1>2. QED
  BY <1>1, ListInvariant, PTL

(* As long as no stale tail was removed, following "prev" from the head    *)
(* visits every node once and ends at the tail, and "next" leads back.     *)
THEOREM WellFormedCorrect == Spec => []WellFormed
<1>1. ListInv => WellFormed
  <2> SUFFICES ASSUME ListInv, ~stale_removed PROVE WellFormed
    BY DEF WellFormed
  <2>1. PICK w \in Seq(Nodes) : Chain(w)
    BY DEF ListInv, ChainInv
  <2>2. Walk = w
    BY <2>1, WalkIsChain
  <2> DEFINE L == Len(w)
  <2>3. /\ L \in Nat /\ DOMAIN w = 1 .. L /\ L = total_c_nodes /\ live \subseteq Nodes
        /\ \A k \in 1 .. L : w[k] \in Nodes
    BY <2>1, SeqIsFcn DEF Chain, ListInv, TypeOK
  <2>4. {w[k] : k \in DOMAIN w} = live
    <3>1. \A m \in Nodes : m \in live <=> \E k \in 1 .. L : w[k] = m
      BY <2>1 DEF Chain
    <3>2. QED
      BY <2>3, <3>1
  <2>5. live = {} => head = NULL /\ tail = NULL
    <3>1. live = {} => L = 0
      <4>1. L # 0 => 1 \in DOMAIN w
        BY <2>3
      <4>2. QED
        BY <2>4, <4>1
    <3>2. QED
      BY <2>1, <3>1 DEF Chain
  <2>6. live # {} => w[total_c_nodes] = tail /\ next[head] = NULL
    <3>1. live # {} => L > 0
      BY <2>3, <2>4
    <3>2. QED
      BY <2>1, <2>3, <3>1 DEF Chain
  <2>7. ASSUME NEW k \in 2 .. total_c_nodes PROVE next[w[k]] = w[k - 1]
    <3>1. k - 1 \in 1 .. L - 1 /\ (k - 1) + 1 = k
      BY <2>3
    <3>2. QED
      BY <2>1, <3>1 DEF Chain
  <2>8. QED
    BY <2>2, <2>4, <2>5, <2>6, <2>7 DEF WellFormed
<1>2. QED
  BY <1>1, ListInvariant, PTL

(* The removal of a drawn contribution while it is the tail is the only    *)
(* step after which an operation can go through a freed node.              *)
THEOREM NoUseAfterFreeCorrect == Spec => []NoUseAfterFree
<1>1. ListInv => NoUseAfterFree
  BY DEF ListInv, ChainInv, NoUseAfterFree
<1>2. QED
  BY <1>1, ListInvariant, PTL

--------------------------------------------------------------------------------
(* The queue *)

LEMMA InitImplements == Init => Promise!Init
<1> SUFFICES ASSUME Init PROVE Promise!Init
  OBVIOUS
<1>1. Walk = <<>> /\ ~stale_removed /\ ~Requeued
  BY ChainInit, WalkIsChain
<1>2. result = NULL
  BY DEF Init
<1>3. QED
  BY <1>1, <1>2 DEF Promise!Init, Requeued

(* An addition appends to the queue.                                       *)
LEMMA AddImplements ==
  ASSUME TypeOK, ~failed, ~stale_removed, NEW w, Chain(w), NEW n \in Nodes, AddContribution(n)
  PROVE  Promise!AddContribution(n)
<1>1. Walk = w /\ Walk' = Append(w, n) /\ ~Requeued' /\ ~stale_removed'
      /\ UNCHANGED result /\ n \notin live
  BY AddToChain, WalkIsChain
<1>2. \A i \in 1 .. Len(w) : w[i] # n
  BY <1>1 DEF Chain
<1>3. DOMAIN w = 1 .. Len(w)
  BY SeqIsFcn DEF Chain
<1>4. ~Promise!Contains(w, n)
  BY <1>2, <1>3 DEF Promise!Contains
<1>5. stale_removed' = stale_removed
  BY DEF AddContribution
<1>6. QED
  BY <1>1, <1>4, <1>5 DEF Promise!AddContribution, Requeued

(* A removal that is not stale takes its node out of the queue.            *)
LEMMA RemoveImplements ==
  ASSUME TypeOK, ~failed, ~stale_removed, NEW w, Chain(w), NEW n \in Nodes,
         RemoveContribution(n), ~stale_removed'
  PROVE  Promise!RemoveContribution(n)
<1>1. PICK i \in 1 .. Len(w) : w[i] = n /\ Chain(Promise!RemoveAt(w, i))'
  BY RemoveFromChain
<1>2. Walk = w /\ Walk' = Promise!RemoveAt(w, i)
  BY <1>1, WalkIsChain
<1>3. (Requeued' <=> Requeued) /\ ~(Requeued /\ n = tail) /\ UNCHANGED result
  BY RemoveFromChain
<1>4. DOMAIN w = 1 .. Len(w) /\ Len(w) \in Nat
  BY SeqIsFcn DEF Chain
<1>5. tail = w[Len(w)]
  <2>1. Len(w) > 0
    BY <1>4
  <2>2. QED
    BY <2>1 DEF Chain
<1>6. Promise!Last(w) = tail
  BY <1>5 DEF Promise!Last
<1>7. \E k \in DOMAIN w : w[k] = n /\ Walk' = Promise!RemoveAt(w, k)
  BY <1>1, <1>2, <1>4
<1>8. ~(Requeued /\ n = Promise!Last(w))
  BY <1>3, <1>6
<1>9. (Requeued' <=> Requeued) /\ UNCHANGED result
  BY <1>3
<1>10. stale_removed' = stale_removed
  BY DEF RemoveContribution, TypeOK
<1>11. QED
  BY <1>2, <1>7, <1>8, <1>9, <1>10 DEF Promise!RemoveContribution, Requeued

(* The stale removal ends the promise.                                     *)
LEMMA StaleImplements ==
  ASSUME ~stale_removed, NEW n \in Nodes, RemoveContribution(n), stale_removed'
  PROVE  Promise!RemoveRequeued
<1>1. n = tail /\ prev[n] # NULL
  BY DEF RemoveContribution
<1>2. tail # NULL /\ prev[tail] # NULL
  BY <1>1, NodesAssumption
<1>3. QED
  BY <1>2 DEF Promise!RemoveRequeued

(* A draw brings the first of the queue to its end.                        *)
LEMMA CycleImplements ==
  ASSUME TypeOK, ~failed, ~stale_removed, NEW w, Chain(w), CycleFrontContribution
  PROVE  Promise!CycleFrontContribution
<1>1. Walk = w /\ ~stale_removed' /\ stale_removed' = stale_removed
  BY WalkIsChain DEF CycleFrontContribution
<1>2. Len(w) \in Nat /\ (w = <<>> <=> Len(w) = 0)
  BY SeqIsFcn DEF Chain
<1>3. result' = IF w = <<>> THEN NULL ELSE Head(w)
  BY <1>2, CycleChain
<1>4. CASE Len(w) <= 1
  <2>1. Walk' = w /\ (Requeued' <=> Requeued)
    BY <1>4, CycleChain, WalkIsChain
  <2>2. QED
    BY <1>1, <1>3, <1>4, <2>1 DEF Promise!CycleFrontContribution, Requeued
<1>5. CASE ~(Len(w) <= 1)
  <2>1. Len(w) > 1
    BY <1>2, <1>5
  <2>2. Chain(Append(Tail(w), Head(w)))' /\ Requeued'
    BY <2>1, CycleChain
  <2>3. Walk' = Append(Tail(w), Head(w))
    BY <2>2, WalkIsChain
  <2>4. QED
    BY <1>1, <1>3, <1>5, <2>2, <2>3 DEF Promise!CycleFrontContribution, Requeued
<1>6. QED
  BY <1>4, <1>5

LEMMA StepImplements ==
  ASSUME ListInv, [Next]_vars
  PROVE  [Promise!Next]_(Promise!listVars)
<1>1. CASE stale_removed
  <2>1. stale_removed'
    BY <1>1, StaleStays
  <2>2. QED
    BY <1>1, <2>1 DEF Promise!listVars
<1>2. CASE ~stale_removed
  <2>1. TypeOK /\ ~failed
    BY <1>2 DEF ListInv, ChainInv
  <2>2. PICK w : Chain(w)
    BY <1>2 DEF ListInv, ChainInv
  <2>3. ASSUME NEW n \in Nodes, AddContribution(n) PROVE Promise!Next
    <3>1. Promise!AddContribution(n)
      BY <1>2, <2>1, <2>2, <2>3, AddImplements
    <3>2. QED
      BY <3>1 DEF Promise!Next
  <2>4. ASSUME NEW n \in Nodes, RemoveContribution(n) PROVE Promise!Next
    <3>1. CASE stale_removed'
      BY <1>2, <2>4, <3>1, StaleImplements DEF Promise!Next
    <3>2. CASE ~stale_removed'
      <4>1. Promise!RemoveContribution(n)
        BY <1>2, <2>1, <2>2, <2>4, <3>2, RemoveImplements
      <4>2. QED
        BY <4>1 DEF Promise!Next
    <3>3. QED
      BY <3>1, <3>2
  <2>5. CASE CycleFrontContribution
    BY <1>2, <2>1, <2>2, <2>5, CycleImplements DEF Promise!Next
  <2>6. CASE UNCHANGED vars
    <3>1. UNCHANGED <<total_c_nodes, head, tail, prev, result, stale_removed>>
      BY <2>6 DEF vars, listState
    <3>2. UNCHANGED Walk
      BY <3>1 DEF Walk
    <3>3. QED
      BY <3>1, <3>2 DEF Promise!listVars
  <2>7. QED
    BY <2>3, <2>4, <2>5, <2>6 DEF Next
<1>3. QED
  BY <1>1, <1>2

(* Until a stale tail is removed, the list is the queue that RotatingList  *)
(* describes: each draw gives the contribution that has waited longest.    *)
THEOREM RotatingListImplemented == Spec => ImplementsRotatingList
<1>1. Init => Promise!Init
  BY InitImplements
<1>2. ListInv /\ [Next]_vars => [Promise!Next]_(Promise!listVars)
  BY StepImplements
<1>3. QED
  BY <1>1, <1>2, ListInvariant, PTL DEF Spec, ImplementsRotatingList, Promise!Spec

================================================================================
