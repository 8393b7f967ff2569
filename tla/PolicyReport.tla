---------------------------- MODULE PolicyReport ----------------------------
(***************************************************************************)
(* The PolicyReport output of version 2 (src/outputs/policyreport.go): a   *)
(* goroutine for each event reads the report of the event's namespace, or  *)
(* the cluster's, appends a result, drops the oldest beyond MaxEvents and  *)
(* writes it back. Kubernetes is external: it refuses an update made from  *)
(* an older version, a creation of what exists, and may fail or lose its   *)
(* answer at any call.                                                     *)
(***************************************************************************)
EXTENDS Naturals, Sequences, FiniteSets

CONSTANTS
  Events,
  Attributes,  \* of an event: [namespace, subject]
  MaxEvents

ASSUME MaxEventsAssumption == MaxEvents \in Nat \ {0}

\* Where events may say they come from; namespace "gone" does not exist.
Namespaces == {"", "team", "gone"}
DefaultNamespace == "falco"
ASSUME AttributesAssumption == Attributes \subseteq [namespace : Namespaces, subject : BOOLEAN]
Reports == {"cluster", "team", DefaultNamespace}

VARIABLES
  event,    \* the attributes of each event
  pc,       \* where each event's goroutine is
  place,    \* the report it works on
  copy,     \* policyr, the goroutine's copy of it
  report,   \* the reports in Kubernetes; version 0: there is none
  died,     \* the process, by a panic
  added,    \* history: for each report, the events added to it, in order
  raced     \* history: goroutines whose creation came too late

kubernetes == <<report, added>>
vars == <<event, pc, place, copy, kubernetes, died, raced>>

Init ==
  /\ event \in [Events -> Attributes]
  /\ pc = [e \in Events |-> "idle"]
  /\ place = [e \in Events |-> "cluster"]
  /\ copy = [e \in Events |-> [version |-> 0, results |-> <<>>]]
  /\ report = [r \in Reports |-> [version |-> 0, results |-> <<>>]]
  /\ added = [r \in Reports |-> <<>>]
  /\ died = FALSE /\ raced = {}

At(e, label) == ~died /\ pc[e] = label
GoTo(e, label) == pc' = [pc EXCEPT ![e] = label]

\* UpdateOrCreatePolicyReport: getNamespace decides for one of the two kinds of report.
Start(e) ==
  /\ At(e, "idle")
  /\ GoTo(e, IF event[e].namespace = "" THEN "get" ELSE "namespace")
  /\ UNCHANGED <<event, place, copy, kubernetes, died, raced>>

\* If the namespace is not found the default is taken, also for the result's first subject,
\* which may not be there; any other error is passed over, and where there is no namespace
\* no report can be written.
FindNamespace(e) ==
  /\ At(e, "namespace")
  /\ \/ /\ event[e].namespace # "gone"
        /\ place' = [place EXCEPT ![e] = event[e].namespace]
        /\ GoTo(e, "get") /\ UNCHANGED died
     \/ /\ event[e].namespace = "gone" /\ event[e].subject
        /\ place' = [place EXCEPT ![e] = DefaultNamespace]
        /\ GoTo(e, "get") /\ UNCHANGED died
     \/ /\ event[e].namespace = "gone" /\ ~event[e].subject
        /\ died' = TRUE /\ UNCHANGED <<pc, place>>
     \/ /\ event[e].namespace = "gone"
        /\ GoTo(e, "error") /\ UNCHANGED <<place, died>>
  /\ UNCHANGED <<event, copy, kubernetes, raced>>

LastEvents(results) ==
  IF Len(results) > MaxEvents THEN Tail(results) ELSE results

GetReport(e) ==
  /\ At(e, "get")
  /\ \/ /\ copy' = [copy EXCEPT ![e] =
                      [version |-> report[place[e]].version,
                       results |-> LastEvents(Append(report[place[e]].results, e))]]
        /\ GoTo(e, "write")
     \/ GoTo(e, "error") /\ UNCHANGED copy
  /\ UNCHANGED <<event, place, kubernetes, died, raced>>

\* Kubernetes takes goroutine e's copy: as a new report, or if it is of the last version.
Takes(e) ==
  /\ copy[e].version = report[place[e]].version
  /\ report' = [report EXCEPT ![place[e]] =
                  [version |-> @.version + 1, results |-> copy[e].results]]

Adds(e) == added' = [added EXCEPT ![place[e]] = Append(@, e)]

\* Create if there was no report, Update if there was. The answer may be lost.
WriteReport(e) ==
  /\ At(e, "write")
  /\ Takes(e) /\ Adds(e)
  /\ \E answer \in {"ok", "error"} : GoTo(e, answer)
  /\ UNCHANGED <<event, place, copy, died, raced>>

\* Mutant: the error of an update is only logged.
WriteRefusedIgnored(e) ==
  /\ At(e, "write")
  /\ GoTo(e, "ok")
  /\ UNCHANGED <<event, place, copy, kubernetes, died, raced>>

\* A conflict is an error as any other: nothing is tried again.
WriteRefused(e) ==
  /\ At(e, "write")
  /\ GoTo(e, "error")
  /\ UNCHANGED <<event, place, copy, kubernetes, died, raced>>

\* The report was created by another goroutine in the meantime.
AlreadyExists(e) ==
  /\ At(e, "write")
  /\ copy[e].version = 0 /\ report[place[e]].version > 0
  /\ GoTo(e, "get again")
  /\ raced' = raced \union {e}
  /\ UNCHANGED <<event, place, copy, kubernetes, died>>

\* Mutant: the result is kept in the copy that is written, with the present version.
GetAgainKeepsCopy(e) ==
  /\ At(e, "get again")
  /\ copy' = [copy EXCEPT ![e] = [version |-> report[place[e]].version, results |-> @.results]]
  /\ GoTo(e, "write again")
  /\ UNCHANGED <<event, place, kubernetes, died, raced>>

\* The report is read again, without the event's result. The cluster's is looked for by
\* the other kind's name, and not found.
GetAgain(e) ==
  /\ At(e, "get again")
  /\ \/ /\ place[e] # "cluster"
        /\ copy' = [copy EXCEPT ![e] = report[place[e]]]
        /\ GoTo(e, "write again")
     \/ GoTo(e, "error") /\ UNCHANGED copy
  /\ UNCHANGED <<event, place, kubernetes, died, raced>>

WriteAgain(e) ==
  /\ At(e, "write again")
  /\ \/ Takes(e) /\ \E answer \in {"ok", "error"} : GoTo(e, answer)
     \/ GoTo(e, "error") /\ UNCHANGED report
  /\ UNCHANGED <<event, place, copy, added, died, raced>>

Next ==
  \E e \in Events :
    \/ Start(e) \/ FindNamespace(e) \/ GetReport(e)
    \/ WriteReport(e) \/ WriteRefused(e) \/ AlreadyExists(e)
    \/ GetAgain(e) \/ WriteAgain(e)

Spec == Init /\ [][Next]_vars

-----------------------------------------------------------------------------
\* However the goroutines' reads and writes interleave, a report holds the last MaxEvents
\* of the results that were added to it, in order: no write undoes another, the one that
\* follows a lost race for the creation included.
KeepsNewest ==
  \A r \in Reports :
    LET n == Len(added[r])
    IN report[r].results =
         SubSeq(added[r], IF n > MaxEvents THEN n - MaxEvents + 1 ELSE 1, n)

\* An event is counted as a success only if its result was added, unless its goroutine
\* lost the race for the creation of the report: that one is counted and nowhere to be
\* found.
OkMeansAdded ==
  \A e \in Events : pc[e] = "ok" /\ e \notin raced =>
    \E i \in DOMAIN added[place[e]] : added[place[e]][i] = e

=============================================================================
