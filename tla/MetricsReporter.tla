-------------------------- MODULE MetricsReporter --------------------------
(***************************************************************************)
(* MetricsReporter of metrics/reporter.py over the collector: a controller *)
(* thread starts and stops the reporting thread through an event and a     *)
(* join with a timeout, while other threads record.  A report may take any *)
(* time, for the lock of the collector and for the log, and the join may   *)
(* give up before it is over.                                              *)
(***************************************************************************)
EXTENDS MetricsCollector

CONSTANTS
    Main,       \* the thread that starts and stops the reporter
    Reporter,   \* threads the reporter may create
    NoThread    \* _thread before the first start

ASSUME ReporterAssumption ==
    /\ Main \in Thread
    /\ Reporter \subseteq Thread \ {Main}
    /\ NoThread \notin Thread

VARIABLES
    stopEvent,  \* _stop_event
    thread,     \* _thread
    joining,    \* whether Main is in the join of stop
    state       \* what each reporter thread does

reporterVars == <<stopEvent, thread, joining, state>>
metricsVars == <<collectorVars, reporterVars>>

\* A thread is over when its loop ended, or when an exception left it.
Alive == {r \in Reporter : state[r] \notin {"ended", "crashed"}}

MetricsTypeOK ==
    /\ CollectorTypeOK
    /\ stopEvent \in BOOLEAN
    /\ thread \in Reporter \cup {NoThread}
    /\ joining \in BOOLEAN
    /\ state \in [Reporter -> {"ended", "waiting", "reporting", "handling", "crashed"}]

-----------------------------------------------------------------------------
\* A thread that was not created yet is not alive either.
MetricsInit ==
    /\ CollectorInit
    /\ stopEvent = FALSE
    /\ thread = NoThread
    /\ joining = FALSE
    /\ state = [r \in Reporter |-> "ended"]

MainFree == ~ joining /\ call[Main] = NoCall

\* Mutants: the event is cleared before the running thread is noticed, or
\* the thread that runs is not noticed.
StartClears(r) ==
    /\ MainFree
    /\ stopEvent' = FALSE
    /\ IF thread \in Alive
       THEN UNCHANGED <<thread, state>>
       ELSE /\ r \notin Alive
            /\ thread' = r
            /\ state' = [state EXCEPT ![r] = "waiting"]
    /\ UNCHANGED <<collectorVars, joining>>

StartAnyway(r) ==
    /\ MainFree
    /\ r \notin Alive
    /\ stopEvent' = FALSE
    /\ thread' = r
    /\ state' = [state EXCEPT ![r] = "waiting"]
    /\ UNCHANGED <<collectorVars, joining>>

\* start, with a fresh thread r; one that finds its thread alive returns.
Start(r) ==
    /\ MainFree
    /\ thread \notin Alive
    /\ r \notin Alive
    /\ stopEvent' = FALSE
    /\ thread' = r
    /\ state' = [state EXCEPT ![r] = "waiting"]
    /\ UNCHANGED <<collectorVars, joining>>

Stop ==
    /\ MainFree
    /\ stopEvent' = TRUE
    /\ joining' = (thread # NoThread)
    /\ UNCHANGED <<collectorVars, thread, state>>

\* join returns when the thread has ended, or after its timeout.
Joined ==
    /\ joining
    /\ joining' = FALSE
    /\ UNCHANGED <<collectorVars, stopEvent, thread, state>>

(***************************************************************************)
(* _loop                                                                   *)
(***************************************************************************)

\* wait times out, and a report begins.
Wake(r) ==
    /\ state[r] = "waiting"
    /\ ~ stopEvent
    /\ Call(r, "snapshot")
    /\ state' = [state EXCEPT ![r] = "reporting"]
    /\ UNCHANGED <<stopEvent, thread, joining>>

\* The snapshot was logged.
Reported(r) ==
    /\ state[r] = "reporting"
    /\ call[r] = NoCall
    /\ state' = [state EXCEPT ![r] = "waiting"]
    /\ UNCHANGED <<collectorVars, stopEvent, thread, joining>>

\* Mutant: nothing catches the exception of a report.
ReportCrashes(r) ==
    /\ state[r] = "reporting"
    /\ call[r] = NoCall
    /\ state' = [state EXCEPT ![r] = "ended"]
    /\ UNCHANGED <<collectorVars, stopEvent, thread, joining>>

\* Logging the snapshot raises, and the loop catches it.
ReportRaises(r) ==
    /\ state[r] = "reporting"
    /\ call[r] = NoCall
    /\ state' = [state EXCEPT ![r] = "handling"]
    /\ UNCHANGED <<collectorVars, stopEvent, thread, joining>>

\* The exception was logged, and the loop goes on.
Handled(r) ==
    /\ state[r] = "handling"
    /\ state' = [state EXCEPT ![r] = "waiting"]
    /\ UNCHANGED <<collectorVars, stopEvent, thread, joining>>

\* Logging the exception raises as well: nothing catches that, and the
\* thread is over.
HandlerRaises(r) ==
    /\ state[r] = "handling"
    /\ state' = [state EXCEPT ![r] = "crashed"]
    /\ UNCHANGED <<collectorVars, stopEvent, thread, joining>>

\* wait finds the event set.
Ends(r) ==
    /\ state[r] = "waiting"
    /\ stopEvent
    /\ state' = [state EXCEPT ![r] = "ended"]
    /\ UNCHANGED <<collectorVars, stopEvent, thread, joining>>

\* The calls of the other threads; Main calls while it is not in stop.
Uses(t) ==
    /\ t = Main => ~ joining
    /\ \E op \in Recorded \cup {"reset", "snapshot"} : Call(t, op)
    /\ UNCHANGED reporterVars

Locks(t) == AcquireLock(t) /\ UNCHANGED reporterVars
Moves(t) == InsideLock(t) /\ UNCHANGED reporterVars

MetricsNext ==
    \/ \E r \in Reporter :
          \/ Start(r) \/ Wake(r) \/ Ends(r)
          \/ Reported(r) \/ ReportRaises(r) \/ Handled(r) \/ HandlerRaises(r)
    \/ Stop
    \/ Joined
    \/ \E t \in Thread \ Reporter : Uses(t)
    \/ \E t \in Thread : Locks(t) \/ Moves(t)

\* Threads run, a thread that keeps asking for a lock that becomes free gets
\* it, and a wait of the reporter ends: by its timeout, or by the event.
MetricsSpec ==
    /\ MetricsInit
    /\ [][MetricsNext]_metricsVars
    /\ \A t \in Thread : WF_metricsVars(Moves(t)) /\ SF_metricsVars(Locks(t))
    /\ \A r \in Reporter :
          /\ WF_metricsVars(Wake(r) \/ Ends(r))
          /\ WF_metricsVars(Reported(r) \/ ReportRaises(r))
          /\ WF_metricsVars(Handled(r) \/ HandlerRaises(r))

-----------------------------------------------------------------------------
(***************************************************************************)
(* Properties                                                              *)
(***************************************************************************)

\* There is never more than one reporting thread, although stop may return
\* while the old one is still at its last report (reporter.py:55-57).
OneReporter == \A r, s \in Alive : r = s

\* Until it is told to stop, a reporter that was started reports and waits
\* again and again: other threads do not keep it from the lock for ever, and a
\* report that raises is not its last (reporter.py:110-115).  Only an exception
\* of the handler itself ends it.
KeepsReporting ==
    \A s \in {"waiting", "reporting"} :
        []<>(thread = NoThread \/ stopEvent \/ state[thread] \in {s, "crashed"})

\* After stop every reporting thread ends, even if the join gave up and start
\* was called again before it noticed (reporter.py:70).
StopEnds == stopEvent ~> Alive = {}
=============================================================================
