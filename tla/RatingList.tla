------------------------------ MODULE RatingList ------------------------------
(***************************************************************************)
(* RatingList (src/util/rating-list.cpp): the contributions of one rating, *)
(* as a doubly-linked list on the heap.  The head is the next contribution *)
(* to be drawn for a match; "prev" leads from a node towards the tail and  *)
(* "next" towards the head.                                                *)
(*                                                                         *)
(* Every operation holds list_mutex from beginning to end and so is one    *)
(* action.  The callers (the contribution store) keep the node that an add *)
(* returned as the position of the contribution and remove each position   *)
(* at most once.  A node's address can be handed out again after delete.   *)
(***************************************************************************)
EXTENDS Naturals, FiniteSets, Sequences

CONSTANTS Nodes,  (* the addresses nodes are allocated at *)
          NULL

ASSUME NodesAssumption == IsFiniteSet(Nodes) /\ NULL \notin Nodes

VARIABLES
    live,            (* addresses that hold a node                           *)
    next, prev,      (* the links, as last written, of every address         *)
    head, tail,
    total_c_nodes,
    result,          (* node of the last result of cycle_front_contribution  *)
    failed,          (* a freed node or a null pointer was dereferenced      *)
    stale_removed    (* history: a tail with a "prev" link was removed       *)

listState == <<next, prev, head, tail>>
vars == <<live, listState, total_c_nodes, result, failed, stale_removed>>

Init ==
    /\ live = {}
    /\ next = [n \in Nodes |-> NULL]
    /\ prev = [n \in Nodes |-> NULL]
    /\ head = NULL
    /\ tail = NULL
    /\ total_c_nodes = 0
    /\ result = NULL
    /\ failed = FALSE
    /\ stale_removed = FALSE

(* Some node the operation goes through is not there any more. *)
UseAfterFree(nodes) ==
    /\ ~(nodes \subseteq live)
    /\ failed' = TRUE
    /\ UNCHANGED <<live, listState, total_c_nodes, result>>

--------------------------------------------------------------------------------

BugNewNext == NULL                                         (* mutant *)
NewNext == tail

LinkAtTail(n) ==
    IF total_c_nodes = 0
    THEN /\ head' = n
         /\ tail' = n
         /\ next' = [next EXCEPT ![n] = NULL]
         /\ prev' = [prev EXCEPT ![n] = NULL]
    ELSE /\ next' = [next EXCEPT ![n] = NewNext]
         /\ prev' = [prev EXCEPT ![n] = NULL, ![tail] = n]
         /\ tail' = n
         /\ UNCHANGED head

AddContribution(n) ==
    /\ ~failed
    /\ n \in Nodes \ live
    /\ \/ UseAfterFree(IF total_c_nodes = 0 THEN {} ELSE {tail})
       \/ /\ total_c_nodes = 0 \/ tail \in live
          /\ LinkAtTail(n)
          /\ live' = live \cup {n}
          /\ total_c_nodes' = total_c_nodes + 1
          /\ UNCHANGED <<result, failed>>
    /\ UNCHANGED stale_removed

(* The neighbours that remove_contribution patches. *)
Neighbours(n) == {next[n], prev[n]} \ {NULL}

UnlinkMiddle(n) ==
    /\ next[n] # NULL /\ prev[n] # NULL
    /\ next' = [next EXCEPT ![prev[n]] = next[n]]
    /\ prev' = [prev EXCEPT ![next[n]] = prev[n]]
    /\ UNCHANGED <<head, tail>>

BugUnlinkHead(n) ==                                        (* mutant *)
    /\ next[n] = NULL /\ prev[n] # NULL
    /\ next' = [next EXCEPT ![prev[n]] = NULL]
    /\ UNCHANGED <<prev, head, tail>>

UnlinkHead(n) ==
    /\ next[n] = NULL /\ prev[n] # NULL
    /\ next' = [next EXCEPT ![prev[n]] = NULL]
    /\ head' = prev[n]
    /\ UNCHANGED <<prev, tail>>

BugUnlinkTail(n) ==                                        (* mutant *)
    /\ next[n] # NULL /\ prev[n] = NULL
    /\ tail' = next[n]
    /\ UNCHANGED <<next, prev, head>>

UnlinkTail(n) ==
    /\ next[n] # NULL /\ prev[n] = NULL
    /\ prev' = [prev EXCEPT ![next[n]] = NULL]
    /\ tail' = next[n]
    /\ UNCHANGED <<next, head>>

UnlinkSingleton(n) ==
    /\ next[n] = NULL /\ prev[n] = NULL
    /\ head' = NULL
    /\ tail' = NULL
    /\ UNCHANGED <<next, prev>>

BugFreed(n) == live                                        (* mutant *)
Freed(n) == live \ {n}

RemoveContribution(n) ==
    /\ ~failed
    /\ n \in live
    /\ stale_removed' = (stale_removed \/ (n = tail /\ prev[n] # NULL))
    /\ \/ UseAfterFree(Neighbours(n))
       \/ /\ Neighbours(n) \subseteq live
          /\ UnlinkMiddle(n) \/ UnlinkHead(n) \/ UnlinkTail(n) \/ UnlinkSingleton(n)
          /\ live' = Freed(n)
          /\ total_c_nodes' = total_c_nodes - 1
          /\ UNCHANGED <<result, failed>>

(* The head goes to the tail; its "prev" link is left as it was. *)
HeadToTail ==
    LET new_head == prev[head] IN
    /\ next' = [next EXCEPT ![new_head] = NULL, ![head] = tail]
    /\ prev' = [prev EXCEPT ![tail] = head]
    /\ head' = new_head
    /\ tail' = head

CycleFrontContribution ==
    /\ ~failed
    /\ CASE total_c_nodes = 0 ->
              result' = NULL /\ UNCHANGED <<listState, failed>>
         [] total_c_nodes = 1 /\ head \in live ->
              result' = head /\ UNCHANGED <<listState, failed>>
         [] total_c_nodes > 1 /\ head \in live /\ {prev[head], tail} \subseteq live ->
              result' = head /\ HeadToTail /\ UNCHANGED failed
         [] OTHER ->
              failed' = TRUE /\ UNCHANGED <<listState, result>>
    /\ UNCHANGED <<live, total_c_nodes, stale_removed>>

Next ==
    \/ \E n \in Nodes : AddContribution(n) \/ RemoveContribution(n)
    \/ CycleFrontContribution

Spec == Init /\ [][Next]_vars

--------------------------------------------------------------------------------

(* The nodes that lead from the head towards the tail. *)
Walk ==
    LET node[k \in 1 .. total_c_nodes] ==
            IF k = 1 THEN head ELSE prev[node[k - 1]]
    IN  [k \in 1 .. total_c_nodes |-> node[k]]

(* Types of the variables. *)
TypeOK ==
    /\ live \subseteq Nodes
    /\ next \in [Nodes -> Nodes \cup {NULL}]
    /\ prev \in [Nodes -> Nodes \cup {NULL}]
    /\ head \in Nodes \cup {NULL}
    /\ tail \in Nodes \cup {NULL}
    /\ total_c_nodes = Cardinality(live)
    /\ result \in Nodes \cup {NULL}
    /\ failed \in BOOLEAN
    /\ stale_removed \in BOOLEAN

(* As long as no stale tail was removed: following "prev" from the head    *)
(* visits every node once and ends at the tail, and "next" leads back.     *)
WellFormed ==
    ~stale_removed =>
        LET w == Walk IN
        /\ {w[k] : k \in DOMAIN w} = live
        /\ live = {} => head = NULL /\ tail = NULL
        /\ live # {} => /\ w[total_c_nodes] = tail
                        /\ next[head] = NULL
        /\ \A k \in 2 .. total_c_nodes : next[w[k]] = w[k - 1]

(* Nothing else makes the list go through a freed node. *)
NoUseAfterFree == failed => stale_removed

(* The list is the queue that RotatingList describes.                      *)
Promise == INSTANCE RotatingList WITH
    list      <- IF stale_removed THEN <<>> ELSE Walk,
    requeued  <- ~stale_removed /\ tail # NULL /\ prev[tail] # NULL,
    result    <- IF stale_removed THEN NULL ELSE result,
    undefined <- stale_removed
ImplementsRotatingList == Promise!Spec

(* "patch middle node": the branch of remove_contribution for a node that  *)
(* has neighbours on both sides is never taken for an end of the list.     *)
MiddleIsMiddle ==
    [][\A n \in live :
         RemoveContribution(n) /\ ~failed' /\ UnlinkMiddle(n) => n \notin {head, tail}]_vars

================================================================================
