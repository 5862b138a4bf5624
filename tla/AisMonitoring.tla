--------------------------- MODULE AisMonitoring ---------------------------
(***************************************************************************)
(* The AIS reader with VesselLoggingListener, whose statistics the health  *)
(* check and the controller update and a thread of its own logs once a     *)
(* minute.  All of them use the map's entry for the connection: an entry   *)
(* of the wrong class makes the health check throw before it reconnects.   *)
(***************************************************************************)
EXTENDS AisMessageReader

VARIABLE
  statistics   \* the class of readStatisticsMap's CONNECTION entry, "none": no entry

monitoredVars == <<vars, statistics>>

MonitoredInit == Init /\ statistics = "none"

\* The cast of the entry, a ClassCastException for plain ReadStatistics.
IsConnectionStatistics == statistics # "ReadStatistics"

\* keepAlive() gives the status first; when that throws, Spring logs it and
\* nothing else of this run happens.  logReadStatistics() has another monitor:
\* it may have found no entry before and put its own after.
readAisConnectionStatus ==
  IF hpc = "idle"
  THEN /\ IsConnectionStatistics
       /\ statistics' \in {"ConnectionStatistics"} \cup
            (IF statistics = "none" THEN {"ReadStatistics"} ELSE {})
  ELSE UNCHANGED statistics

HealthChecks == HealthRuns /\ readAisConnectionStatus

\* The listeners before this one may throw, and so may this one: the
\* controller catches it.
receiveMessage ==
  /\ ControllerTakes
  /\ \/ IsConnectionStatistics /\ statistics' = "ConnectionStatistics"
     \/ UNCHANGED statistics

\* Where no entry with a status is found, one without is put.
logReadStatistics ==
  /\ statistics = "none" /\ statistics' = "ReadStatistics" /\ UNCHANGED vars

Unmonitored ==
  (SetUp \/ Destroy \/ DestroyClose \/ Reader \/ EnvironmentActs) /\ UNCHANGED statistics

MonitoredNext == HealthChecks \/ receiveMessage \/ logReadStatistics \/ Unmonitored

MonitoredSpec == MonitoredInit /\ [][MonitoredNext]_monitoredVars

\* Every thread is scheduled, fixedDelay repeats the health check for ever, and
\* destroy() once begun closes the client.  A server that is asked again and
\* again accepts at last; else the environment owes nothing.
MonitoredFairSpec ==
  /\ MonitoredSpec
  /\ WF_monitoredVars(HealthChecks) /\ WF_monitoredVars(receiveMessage)
  /\ WF_monitoredVars(Reader /\ UNCHANGED statistics)
  /\ WF_monitoredVars(SetUp /\ UNCHANGED statistics)
  /\ WF_monitoredVars(DestroyClose /\ UNCHANGED statistics)
  /\ SF_monitoredVars(HealthChecks /\ hpc' = "createReader")

-----------------------------------------------------------------------------
(* Properties                                                               *)

\* The health check is stuck: its statistics have the wrong class.
HealthStuck == statistics = "ReadStatistics"

\* Once the faults end, the connection is re-established for good and reported
\* so, unless the reader died, the health check is stuck or the application
\* stops.
Recovers ==
  <>[](IsConnected /\ status = "CONNECTED") \/ <>ReaderDead \/ <>HealthStuck \/ <>ShuttingDown

Pending(k) == /\ socket > 0 /\ conns[socket].open
              /\ \E i \in DOMAIN conns[socket].wire : conns[socket].wire[i].n = k

\* A sentence that reached an open connection is read or lost with the
\* connection; it does not wait for a reader that never comes.
NoSentenceWaitsForEver ==
  \A k \in 1..MaxLines : Pending(k) ~> (~Pending(k) \/ ReaderDead \/ HealthStuck \/ ShuttingDown)

\* destroy() ends the reader thread, even one blocked in readLine(), also when
\* the health check is stuck, or just reconnecting and opens a socket after the
\* close.
DestroyStopsReader == ShuttingDown ~> (rpc \in {"stopped", "dead"})

\* AisMessageReader.java:137, "Connection failure -> let reconnection handler
\* handle this": while the reader waits, the health check reconnects.
HandlerReconnects ==
  (rpc = "sleep" /\ ~isConnected /\ hpc = "idle") ~> (hpc = "close" \/ ShuttingDown)
=============================================================================
