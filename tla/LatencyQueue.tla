---------------------------- MODULE LatencyQueue ----------------------------
(***************************************************************************)
(* What set_latency promises: latencies accepted from the real-time thread *)
(* reach the context thread one by one, whole and in order; the context    *)
(* thread takes what there is and applies the last one it took.            *)
(* LatencyRing implements this module.                                     *)
(***************************************************************************)
EXTENDS Naturals, Sequences

CONSTANT Latencies

VARIABLES queue,    \* latencies accepted and not yet taken
          seen,     \* the last one taken
          current,  \* the one in effect (nLatency)
          lost      \* the connection was reported lost

queueVars == <<queue, seen, current, lost>>

QueueInit == queue = << >> /\ seen = 0 /\ current = 0 /\ lost = FALSE

Accept(l) == queue' = Append(queue, l) /\ UNCHANGED <<seen, current, lost>>

Take ==
    /\ queue # << >>
    /\ seen' = Head(queue)
    /\ queue' = Tail(queue)
    /\ UNCHANGED <<current, lost>>

Apply == current' = seen /\ UNCHANGED <<queue, seen, lost>>

\* The filter refuses the latency, before or after it took effect.
ApplyFails ==
    /\ lost' = TRUE
    /\ current' \in {current, seen}
    /\ seen' = current'
    /\ UNCHANGED queue

\* The backend reconnects: nothing is left of the old connection.
Restart == queue' = << >> /\ seen' = 0 /\ current' = 0 /\ lost' = FALSE

QueueNext ==
    \/ \E l \in Latencies : Accept(l)
    \/ Take \/ Apply \/ ApplyFails \/ Restart

QueueSpec == QueueInit /\ [][QueueNext]_queueVars
=============================================================================
