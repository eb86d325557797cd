----------------------------- MODULE RotatingList -----------------------------
(***************************************************************************)
(* What a RatingList promises its caller: a queue of contributions that    *)
(* are added at the tail, taken out from anywhere, and brought from the    *)
(* head to the tail each time one is drawn for a match, so that they are   *)
(* drawn in turn.                                                          *)
(*                                                                         *)
(* The promise ends when the contribution that was drawn last is taken out *)
(* while it is still the tail.  RatingList does not survive that, so the   *)
(* specification says it openly and leaves everything after it undefined.  *)
(***************************************************************************)
EXTENDS Sequences, SequencesExt

CONSTANTS Nodes,  (* list nodes, each standing for its contribution *)
          NULL

VARIABLES
    list,      (* the nodes, from head to tail                       *)
    requeued,  (* the tail was brought there by CycleFrontContribution *)
    result,    (* the last result of CycleFrontContribution *)
    undefined  (* nothing is promised any more                       *)

listVars == <<list, requeued, result, undefined>>

Init ==
    /\ list = <<>>
    /\ requeued = FALSE
    /\ result = NULL
    /\ undefined = FALSE

AddContribution(n) ==
    /\ ~undefined
    /\ ~Contains(list, n)
    /\ list' = Append(list, n)
    /\ requeued' = FALSE
    /\ UNCHANGED <<result, undefined>>

RemoveContribution(n) ==
    /\ ~undefined
    /\ ~(requeued /\ n = Last(list))
    /\ \E i \in DOMAIN list : list[i] = n /\ list' = RemoveAt(list, i)
    /\ UNCHANGED <<requeued, result, undefined>>

RemoveRequeued ==
    /\ ~undefined
    /\ requeued
    /\ undefined' = TRUE
    /\ list' = <<>>
    /\ requeued' = FALSE
    /\ result' = NULL

(* The caller gets the head, which goes to the tail. *)
CycleFrontContribution ==
    /\ ~undefined
    /\ result' = IF list = <<>> THEN NULL ELSE Head(list)
    /\ IF Len(list) <= 1
       THEN UNCHANGED <<list, requeued>>
       ELSE list' = Append(Tail(list), Head(list)) /\ requeued' = TRUE
    /\ UNCHANGED undefined

Next ==
    \/ \E n \in Nodes : AddContribution(n) \/ RemoveContribution(n)
    \/ RemoveRequeued
    \/ CycleFrontContribution

Spec == Init /\ [][Next]_listVars

================================================================================
