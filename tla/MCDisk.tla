------------------------------- MODULE MCDisk --------------------------------
(* An instance for TLC of what the gateway keeps on disk: the SQL stores and *)
(* the log.                                                                  *)
EXTENDS MCSqlStore, Logs

\* Any two model values: the symmetry is one for both parts.
MCLoggers == {g1, g2}

\* The parts are independent: in a behavior of the instance one of them is at
\* work, and the other stays in one of its initial states.
StoreRests == Init /\ engine = "sqlite" /\ column = "filled"
LogRests   == LogInit /\ ring.max = Min(RingLimits)

MCInit == Init /\ LogInit /\ (StoreRests \/ LogRests)

MCNext ==
    \/ LogRests /\ Next /\ UNCHANGED logVars
    \/ StoreRests /\ LogNext /\ UNCHANGED vars

MCSpec == MCInit /\ [][MCNext]_<<vars, logVars>>
=============================================================================
