------------------------------ MODULE Supervision ------------------------------
(***************************************************************************)
(* What the orchestrator and its threads promise each other: no thread     *)
(* ends before an alarm was raised, none is asked to stop without one, and *)
(* the orchestrator does not count a thread as stopped before it has ended. *)
(* Once every thread has been stopped, nothing runs any more.              *)
(* EngineShutdown implements this specification.                           *)
(***************************************************************************)
CONSTANT Threads

VARIABLES alarm,      (* some thread has reported a fatal error              *)
          running,    (* threads that have not come to the end of run()      *)
          asked,      (* threads that were asked to stop                     *)
          stopped     (* threads that the orchestrator knows to have ended   *)

supervisionVars == <<alarm, running, asked, stopped>>

Init == ~alarm /\ running = Threads /\ asked = {} /\ stopped = {}

Alarm ==
    /\ alarm' = TRUE
    /\ UNCHANGED <<running, asked, stopped>>

Ask(t) ==
    /\ alarm
    /\ asked' = asked \cup {t}
    /\ UNCHANGED <<alarm, running, stopped>>

End(t) ==
    /\ alarm
    /\ running' = running \ {t}
    /\ UNCHANGED <<alarm, asked, stopped>>

Stop(t) ==
    /\ t \in asked \ running
    /\ stopped' = stopped \cup {t}
    /\ UNCHANGED <<alarm, running, asked>>

Next == Alarm \/ \E t \in Threads : Ask(t) \/ End(t) \/ Stop(t)

Spec == Init /\ [][Next]_supervisionVars

================================================================================
