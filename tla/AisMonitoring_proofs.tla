------------------------ MODULE AisMonitoring_proofs ------------------------
(***************************************************************************)
(* The statistics only ever take runs away from the health check: with     *)
(* them the AIS reader does nothing that AisMessageReader does not, so      *)
(* every safety property proved there holds here.                          *)
(***************************************************************************)
EXTENDS AisMonitoring, AisMessageReader_proofs

LEMMA MonitoredStep == [MonitoredNext]_monitoredVars => [Next]_vars
<1> SUFFICES ASSUME [MonitoredNext]_monitoredVars PROVE [Next]_vars
  OBVIOUS
<1>1. CASE HealthChecks
  BY <1>1 DEF HealthChecks, Next
<1>2. CASE receiveMessage
  BY <1>2 DEF receiveMessage, Next
<1>3. CASE logReadStatistics
  BY <1>3 DEF logReadStatistics
<1>4. CASE Unmonitored
  BY <1>4 DEF Unmonitored, Next
<1>5. CASE UNCHANGED monitoredVars
  BY <1>5 DEF monitoredVars
<1>6. QED BY <1>1, <1>2, <1>3, <1>4, <1>5 DEF MonitoredNext

\* The reader with its statistics implements the reader without them.
THEOREM ImplementsReader == MonitoredSpec => Spec
<1>1. MonitoredInit => Init
  BY DEF MonitoredInit
<1>2. QED BY <1>1, MonitoredStep, PTL DEF MonitoredSpec, Spec

\* An exception of the health check opens no socket, publishes no reader, and
\* reorders nothing.
THEOREM MonitoredSafety ==
  MonitoredSpec => [](TypeOK /\ NoSocketLeaks /\ NoNullReader /\ DeliversInOrder)
                     /\ JoinsNeighbours /\ KeepsFeed
<1>1. Spec => [](TypeOK /\ NoSocketLeaks /\ NoNullReader /\ DeliversInOrder)
  BY TypeCorrect, NoLeaks, NeverNullReader, DeliveredInOrder, PTL
<1> QED BY <1>1, ImplementsReader, JoinsOnlyNeighbours, ImplementsFeed
=============================================================================
