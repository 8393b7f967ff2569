-------------------------- MODULE PolicyReportProofs --------------------------
(***************************************************************************)
(* Proofs about the PolicyReport output of version 2, for every set of     *)
(* events and size of a report: however the goroutines' reads and writes   *)
(* interleave, a report holds the newest of the results that were added.   *)
(***************************************************************************)
EXTENDS PolicyReport, SequenceTheorems, TLAPS

-----------------------------------------------------------------------------
(* The newest elements of a sequence *)

Newest(s) == SubSeq(s, IF Len(s) > MaxEvents THEN Len(s) - MaxEvents + 1 ELSE 1, Len(s))

LEMMA NewestOfShort ==
  ASSUME NEW S, NEW s \in Seq(S), Len(s) <= MaxEvents
  PROVE  Newest(s) = s
<1>1. Len(s) \in Nat /\ MaxEvents \in Nat
  BY MaxEventsAssumption, LenProperties
<1>2. ~(Len(s) > MaxEvents)
  BY <1>1
<1>3. Newest(s) = SubSeq(s, 1, Len(s))
  BY <1>2 DEF Newest
<1> QED
  BY <1>3, SubSeqFull

LEMMA NewestOfLong ==
  ASSUME NEW S, NEW s \in Seq(S), Len(s) >= MaxEvents
  PROVE  /\ Newest(s) \in Seq(S) /\ Len(Newest(s)) = MaxEvents
         /\ \A i \in 1..MaxEvents : Newest(s)[i] = s[Len(s) - MaxEvents + i]
<1>1. Len(s) \in Nat /\ MaxEvents \in Nat \ {0}
  BY MaxEventsAssumption, LenProperties
<1> DEFINE m == IF Len(s) > MaxEvents THEN Len(s) - MaxEvents + 1 ELSE 1
           n == Len(s)
<1>2. m = n - MaxEvents + 1 /\ m \in 1..n /\ n \in Nat
  BY <1>1
<1>3. Newest(s) = SubSeq(s, m, n)
  BY DEF Newest
<1>4. \A i \in m..n : s[i] \in S
  BY <1>2, ElementOfSeq
<1> HIDE DEF m
<1>5. /\ SubSeq(s, m, n) \in Seq(S) /\ Len(SubSeq(s, m, n)) = IF m <= n THEN n - m + 1 ELSE 0
      /\ \A i \in 1..n - m + 1 : SubSeq(s, m, n)[i] = s[m + i - 1]
  BY <1>2, <1>4, SubSeqProperties
<1> HIDE DEF n
<1>6. n - m + 1 = MaxEvents /\ m <= n /\ \A i \in 1..MaxEvents : m + i - 1 = n - MaxEvents + i
  BY <1>1, <1>2
<1>7. \A i \in 1..MaxEvents : Newest(s)[i] = s[n - MaxEvents + i]
  BY <1>3, <1>5, <1>6
<1> QED
  BY <1>3, <1>5, <1>6, <1>7 DEF n

\* A result appended to the newest ones, of which the oldest is dropped when there are too
\* many, gives the newest ones of all: what GetReport computes from a report.
LEMMA LastEventsAreNewest ==
  ASSUME NEW S, NEW s \in Seq(S), NEW e \in S
  PROVE  LastEvents(Append(Newest(s), e)) = Newest(Append(s, e))
<1> DEFINE t == Append(s, e)
<1>1. /\ Len(s) \in Nat /\ MaxEvents \in Nat \ {0}
      /\ t \in Seq(S) /\ Len(t) = Len(s) + 1 /\ t[Len(s) + 1] = e
      /\ \A i \in 1..Len(s) : t[i] = s[i]
  BY MaxEventsAssumption, LenProperties, AppendProperties
<1> HIDE DEF t
<1>2. CASE Len(s) < MaxEvents
  <2>1. Newest(s) = s /\ Newest(t) = t
    BY <1>1, <1>2, NewestOfShort
  <2>2. LastEvents(t) = t
    BY <1>1, <1>2 DEF LastEvents
  <2> QED
    BY <2>1, <2>2 DEF t
<1>3. CASE Len(s) >= MaxEvents
  <2> DEFINE u == Append(Newest(s), e)
  <2>1. /\ Newest(s) \in Seq(S) /\ Len(Newest(s)) = MaxEvents
        /\ \A i \in 1..MaxEvents : Newest(s)[i] = s[Len(s) - MaxEvents + i]
    BY <1>3, NewestOfLong
  <2>2. /\ Newest(t) \in Seq(S) /\ Len(Newest(t)) = MaxEvents
        /\ \A i \in 1..MaxEvents : Newest(t)[i] = t[Len(t) - MaxEvents + i]
    <3>1. Len(t) >= MaxEvents
      BY <1>1, <1>3
    <3> QED
      BY <1>1, <3>1, NewestOfLong
  <2>3. /\ u \in Seq(S) /\ Len(u) = MaxEvents + 1 /\ u[MaxEvents + 1] = e
        /\ \A i \in 1..MaxEvents : u[i] = Newest(s)[i]
    BY <2>1, AppendProperties
  <2> HIDE DEF u
  <2>4. LastEvents(u) = Tail(u) /\ u # <<>>
    BY <1>1, <2>3, EmptySeq DEF LastEvents
  <2>5. /\ Tail(u) \in Seq(S) /\ Len(Tail(u)) = MaxEvents
        /\ \A i \in 1..MaxEvents : Tail(u)[i] = u[i + 1]
    BY <1>1, <2>3, <2>4, HeadTailProperties
  <2>6. ASSUME NEW i \in 1..MaxEvents PROVE Tail(u)[i] = Newest(t)[i]
    <3>1. Tail(u)[i] = u[i + 1] /\ Newest(t)[i] = t[Len(s) + 1 - MaxEvents + i]
      BY <1>1, <2>2, <2>5
    <3>2. CASE i = MaxEvents
      BY <1>1, <2>3, <3>1, <3>2
    <3>3. CASE i # MaxEvents
      <4>1. i + 1 \in 1..MaxEvents
        BY <1>1, <3>3
      <4>2. u[i + 1] = s[Len(s) - MaxEvents + (i + 1)]
        BY <2>1, <2>3, <4>1
      <4>3. /\ Len(s) - MaxEvents + (i + 1) = Len(s) + 1 - MaxEvents + i
            /\ Len(s) + 1 - MaxEvents + i \in 1..Len(s)
        BY <1>1, <1>3, <3>3
      <4> QED
        BY <1>1, <3>1, <4>2, <4>3
    <3> QED
      BY <3>2, <3>3
  <2>7. Tail(u) = Newest(t)
    BY <2>2, <2>5, <2>6, SeqEqual
  <2> QED
    BY <2>4, <2>7 DEF t, u
<1> QED
  BY <1>1, <1>2, <1>3

-----------------------------------------------------------------------------
(* Types *)

Report == [version : Nat, results : Seq(Events)]
Labels == {"idle", "namespace", "get", "write", "get again", "write again", "ok", "error"}

TypeOK ==
  /\ event \in [Events -> Attributes]
  /\ pc \in [Events -> Labels]
  /\ place \in [Events -> Reports]
  /\ copy \in [Events -> Report]
  /\ report \in [Reports -> Report]
  /\ added \in [Reports -> Seq(Events)]
  /\ raced \subseteq Events
  /\ \A e \in Events : pc[e] = "namespace" => event[e].namespace # ""

LEMMA InitType == Init => TypeOK
<1> SUFFICES ASSUME Init PROVE TypeOK
  OBVIOUS
<1>1. <<>> \in Seq(Events) /\ [version |-> 0, results |-> <<>>] \in Report
  BY EmptySeq DEF Report
<1> QED
  BY <1>1 DEF Init, TypeOK, Labels, Reports

LEMMA LastEventsType ==
  ASSUME NEW s \in Seq(Events), NEW e \in Events
  PROVE  LastEvents(Append(s, e)) \in Seq(Events)
<1>1. Append(s, e) \in Seq(Events) /\ Append(s, e) # <<>>
  BY AppendProperties, EmptySeq
<1> QED
  BY <1>1, HeadTailProperties DEF LastEvents

\* What a step of a goroutine leaves to the others.
LEMMA GoToType ==
  ASSUME TypeOK, NEW e \in Events, NEW label \in Labels, GoTo(e, label)
  PROVE  /\ pc' \in [Events -> Labels] /\ pc'[e] = label
         /\ \A d \in Events \ {e} : pc'[d] = pc[d]
BY DEF TypeOK, GoTo

LEMMA TakesType ==
  ASSUME TypeOK, NEW e \in Events, Takes(e)
  PROVE  /\ report' \in [Reports -> Report]
         /\ report'[place[e]].version = report[place[e]].version + 1
         /\ report'[place[e]].results = copy[e].results
         /\ \A r \in Reports \ {place[e]} : report'[r] = report[r]
<1> DEFINE new == [version |-> report[place[e]].version + 1, results |-> copy[e].results]
<1>1. report \in [Reports -> Report] /\ place[e] \in Reports /\ copy[e] \in Report
  BY DEF TypeOK
<1>2. report[place[e]].version \in Nat /\ copy[e].results \in Seq(Events)
  BY <1>1 DEF Report
<1>3. new \in Report /\ report' = [report EXCEPT ![place[e]] = new]
  BY <1>2 DEF Report, Takes
<1> QED
  BY <1>1, <1>3

LEMMA NextType == TypeOK /\ [Next]_vars => TypeOK'
<1> SUFFICES ASSUME TypeOK, [Next]_vars PROVE TypeOK'
  OBVIOUS
<1>1. ASSUME NEW e \in Events, Start(e) PROVE TypeOK'
  BY <1>1, GoToType DEF Start, TypeOK, Labels, kubernetes, GoTo
<1>2. ASSUME NEW e \in Events, FindNamespace(e) PROVE TypeOK'
  <2>1. event[e].namespace \in Namespaces /\ event[e].namespace # ""
    <3>1. event[e] \in Attributes /\ event[e].namespace # ""
      BY <1>2 DEF FindNamespace, At, TypeOK
    <3>2. event[e] \in [namespace : Namespaces, subject : BOOLEAN]
      BY <3>1, AttributesAssumption
    <3> QED
      BY <3>1, <3>2
  <2>2. place' \in [Events -> Reports]
    BY <1>2, <2>1 DEF FindNamespace, TypeOK, Namespaces, Reports
  <2>3. /\ pc' \in [Events -> Labels]
        /\ \A d \in Events : pc'[d] = "namespace" => pc[d] = "namespace"
    BY <1>2 DEF FindNamespace, GoTo, TypeOK, Labels
  <2> QED
    BY <1>2, <2>2, <2>3 DEF FindNamespace, TypeOK, kubernetes
<1>3. ASSUME NEW e \in Events, GetReport(e) PROVE TypeOK'
  <2>1. /\ pc' \in [Events -> Labels]
        /\ \A d \in Events : pc'[d] = "namespace" => pc[d] = "namespace"
    BY <1>3 DEF GetReport, GoTo, TypeOK, Labels
  <2>2. report[place[e]].version \in Nat /\ report[place[e]].results \in Seq(Events)
    BY DEF TypeOK, Report
  <2>3. [version |-> report[place[e]].version,
         results |-> LastEvents(Append(report[place[e]].results, e))] \in Report
    BY <2>2, LastEventsType DEF Report
  <2>4. copy' \in [Events -> Report]
    BY <1>3, <2>3 DEF GetReport, TypeOK
  <2> QED
    BY <1>3, <2>1, <2>4 DEF GetReport, TypeOK, kubernetes
<1>4. ASSUME NEW e \in Events, WriteReport(e) PROVE TypeOK'
  <2>1. /\ pc' \in [Events -> Labels]
        /\ \A d \in Events : pc'[d] = "namespace" => pc[d] = "namespace"
    BY <1>4 DEF WriteReport, GoTo, TypeOK, Labels
  <2>2. report' \in [Reports -> Report]
    BY <1>4, TakesType DEF WriteReport
  <2>3. place[e] \in Reports /\ added[place[e]] \in Seq(Events)
    BY DEF TypeOK
  <2>4. Append(added[place[e]], e) \in Seq(Events)
    BY <2>3, AppendProperties
  <2>5. added' \in [Reports -> Seq(Events)]
    BY <1>4, <2>4 DEF WriteReport, Adds, TypeOK
  <2> QED
    BY <1>4, <2>1, <2>2, <2>5 DEF WriteReport, TypeOK
<1>5. ASSUME NEW e \in Events, WriteRefused(e) \/ AlreadyExists(e) PROVE TypeOK'
  <2>1. /\ pc' \in [Events -> Labels]
        /\ \A d \in Events : pc'[d] = "namespace" => pc[d] = "namespace"
    BY <1>5 DEF WriteRefused, AlreadyExists, GoTo, TypeOK, Labels
  <2> QED
    BY <1>5, <2>1 DEF WriteRefused, AlreadyExists, TypeOK, kubernetes
<1>6. ASSUME NEW e \in Events, GetAgain(e) PROVE TypeOK'
  <2>1. /\ pc' \in [Events -> Labels]
        /\ \A d \in Events : pc'[d] = "namespace" => pc[d] = "namespace"
    BY <1>6 DEF GetAgain, GoTo, TypeOK, Labels
  <2>2. copy' \in [Events -> Report]
    BY <1>6 DEF GetAgain, TypeOK
  <2> QED
    BY <1>6, <2>1, <2>2 DEF GetAgain, TypeOK, kubernetes
<1>7. ASSUME NEW e \in Events, WriteAgain(e) PROVE TypeOK'
  <2>1. /\ pc' \in [Events -> Labels]
        /\ \A d \in Events : pc'[d] = "namespace" => pc[d] = "namespace"
    BY <1>7 DEF WriteAgain, GoTo, TypeOK, Labels
  <2>2. report' \in [Reports -> Report]
    BY <1>7, TakesType DEF WriteAgain, TypeOK
  <2> QED
    BY <1>7, <2>1, <2>2 DEF WriteAgain, TypeOK
<1>8. CASE UNCHANGED vars
  BY <1>8 DEF vars, kubernetes, TypeOK
<1> QED
  BY <1>1, <1>2, <1>3, <1>4, <1>5, <1>6, <1>7, <1>8 DEF Next

\* The output's state stays within its types: a goroutine works on one of the three
\* reports, and reports and copies hold results of events.
THEOREM ReportTypeCorrect == Spec => []TypeOK
BY InitType, NextType, PTL DEF Spec

-----------------------------------------------------------------------------
(* What a copy is worth. Kubernetes takes a copy of the present version    *)
(* only, and such a copy is the report as it is, with the goroutine's      *)
(* result added or, after the lost race, without.                          *)

Writing == {"write", "get again", "write again"}

CopiesOld ==
  \A e \in Events : pc[e] \in Writing => copy[e].version <= report[place[e]].version

CopiesCurrent ==
  \A e \in Events : copy[e].version = report[place[e]].version =>
    /\ pc[e] = "write" =>
         copy[e].results = LastEvents(Append(report[place[e]].results, e))
    /\ pc[e] = "write again" => copy[e].results = report[place[e]].results

HoldsNewest == \A r \in Reports : report[r].results = Newest(added[r])

Answered ==
  \A e \in Events :
    /\ pc[e] \in {"get again", "write again"} => e \in raced
    /\ pc[e] = "ok" /\ e \notin raced => \E i \in DOMAIN added[place[e]] : added[place[e]][i] = e

ReportInv == CopiesOld /\ CopiesCurrent /\ HoldsNewest /\ Answered

LEMMA InitReport == Init => ReportInv
<1> SUFFICES ASSUME Init PROVE ReportInv
  OBVIOUS
<1>1. <<>> \in Seq(Events) /\ Len(<<>>) = 0
  BY EmptySeq
<1>2. Len(<<>>) <= MaxEvents
  BY <1>1, MaxEventsAssumption
<1>3. Newest(<<>>) = <<>>
  BY <1>1, <1>2, NewestOfShort
<1> QED
  BY <1>3 DEF Init, ReportInv, CopiesOld, CopiesCurrent, HoldsNewest, Answered, Writing

LEMMA NotBeforeItself == \A n \in Nat : ~(n < n)
OBVIOUS

\* A goroutine that moves without writing to Kubernetes disturbs no other.
LEMMA MovesKeepInv ==
  ASSUME TypeOK, ReportInv, NEW e \in Events, UNCHANGED kubernetes,
         \A d \in Events \ {e} :
           pc'[d] = pc[d] /\ place'[d] = place[d] /\ copy'[d] = copy[d],
         raced \subseteq raced' /\ raced' \subseteq raced \cup {e},
         pc'[e] \in Writing => copy'[e].version <= report[place'[e]].version,
         copy'[e].version = report[place'[e]].version =>
           /\ pc'[e] = "write" =>
                copy'[e].results = LastEvents(Append(report[place'[e]].results, e))
           /\ pc'[e] = "write again" => copy'[e].results = report[place'[e]].results,
         pc'[e] \in {"get again", "write again"} => e \in raced',
         pc'[e] # "ok"
  PROVE  ReportInv'
<1>1. report' = report /\ added' = added
  BY DEF kubernetes
<1>2. CopiesOld'
  BY <1>1 DEF ReportInv, CopiesOld
<1>3. CopiesCurrent'
  <2>1. \A d \in Events \ {e} : copy'[d].version = report'[place'[d]].version =>
          /\ pc'[d] = "write" =>
               copy'[d].results = LastEvents(Append(report'[place'[d]].results, d))
          /\ pc'[d] = "write again" => copy'[d].results = report'[place'[d]].results
    BY <1>1 DEF ReportInv, CopiesCurrent
  <2>2. \A s : LastEvents(s)' = LastEvents(s)
    BY DEF LastEvents
  <2> QED
    BY <1>1, <2>1, <2>2 DEF CopiesCurrent
<1>4. HoldsNewest'
  BY <1>1 DEF ReportInv, HoldsNewest, Newest
<1>5. Answered'
  BY <1>1 DEF ReportInv, Answered
<1> QED
  BY <1>2, <1>3, <1>4, <1>5 DEF ReportInv

\* A write takes a copy of the present version, and makes all other copies old.
LEMMA TakesKeepCopies ==
  ASSUME TypeOK, ReportInv, NEW e \in Events, Takes(e), UNCHANGED <<place, copy>>,
         pc'[e] \notin Writing, \A d \in Events \ {e} : pc'[d] = pc[d]
  PROVE  CopiesOld' /\ CopiesCurrent'
<1>1. /\ report'[place[e]].version = report[place[e]].version + 1
      /\ \A r \in Reports \ {place[e]} : report'[r] = report[r]
  BY TakesType
<1>2. /\ \A r \in Reports : report[r].version \in Nat
      /\ \A d \in Events : place[d] \in Reports /\ copy[d].version \in Nat
  BY DEF TypeOK, Report
<1>3. ASSUME NEW d \in Events, pc'[d] \in Writing
      PROVE  \/ /\ place[d] = place[e] /\ copy[d].version < report'[place[d]].version
             \/ /\ place[d] # place[e] /\ report'[place[d]] = report[place[d]]
  <2>1. d # e /\ pc[d] \in Writing
    BY <1>3
  <2>2. copy[d].version <= report[place[d]].version
    BY <2>1 DEF ReportInv, CopiesOld
  <2> QED
    BY <1>1, <1>2, <2>2
<1>4. CopiesOld'
  <2> SUFFICES ASSUME NEW d \in Events, pc'[d] \in Writing
               PROVE  copy[d].version <= report'[place[d]].version
    BY DEF CopiesOld
  <2>1. pc[d] \in Writing
    OBVIOUS
  <2> QED
    BY <1>1, <1>2, <1>3, <2>1 DEF ReportInv, CopiesOld
<1>5. CopiesCurrent'
  <2> SUFFICES ASSUME NEW d \in Events, copy[d].version = report'[place[d]].version,
                      pc'[d] \in {"write", "write again"}
               PROVE  /\ pc'[d] = "write" =>
                           copy[d].results = LastEvents(Append(report'[place[d]].results, d))
                      /\ pc'[d] = "write again" => copy[d].results = report'[place[d]].results
    BY DEF CopiesCurrent, LastEvents
  <2>1. pc'[d] \in Writing /\ d # e /\ pc'[d] = pc[d]
    BY DEF Writing
  <2>2. copy[d].version \in Nat
    BY DEF TypeOK, Report
  <2>3. ~(copy[d].version < report'[place[d]].version)
    BY <2>2, NotBeforeItself
  <2>4. report'[place[d]] = report[place[d]]
    BY <1>3, <2>1, <2>3
  <2> QED
    BY <2>1, <2>4 DEF ReportInv, CopiesCurrent
<1> QED
  BY <1>4, <1>5

LEMMA WriteKeepsInv ==
  ASSUME TypeOK, ReportInv, NEW e \in Events, WriteReport(e)
  PROVE  ReportInv'
<1>1. /\ pc[e] = "write" /\ Takes(e) /\ Adds(e) /\ UNCHANGED <<place, copy, raced>>
      /\ copy[e].version = report[place[e]].version
  BY DEF WriteReport, At, Takes
<1>2. pc'[e] \in {"ok", "error"} /\ \A d \in Events \ {e} : pc'[d] = pc[d]
  BY DEF WriteReport, GoTo, TypeOK
<1>3. CopiesOld' /\ CopiesCurrent'
  BY <1>1, <1>2, TakesKeepCopies DEF Writing
<1>4. /\ place[e] \in Reports /\ added[place[e]] \in Seq(Events)
      /\ added'[place[e]] = Append(added[place[e]], e)
      /\ \A r \in Reports \ {place[e]} : added'[r] = added[r]
  BY <1>1 DEF Adds, TypeOK
<1>5. HoldsNewest'
  <2>1. copy[e].results = LastEvents(Append(Newest(added[place[e]]), e))
    BY <1>1, <1>4 DEF ReportInv, CopiesCurrent, HoldsNewest
  <2>2. report'[place[e]].results = Newest(added'[place[e]])
    BY <1>1, <1>4, <2>1, TakesType, LastEventsAreNewest
  <2>3. \A r \in Reports \ {place[e]} : report'[r].results = Newest(added'[r])
    BY <1>1, <1>4, TakesType DEF ReportInv, HoldsNewest
  <2> QED
    BY <2>2, <2>3 DEF HoldsNewest, Newest
<1>6. Answered'
  <2>1. /\ Len(added[place[e]]) + 1 \in DOMAIN added'[place[e]]
        /\ added'[place[e]][Len(added[place[e]]) + 1] = e
        /\ \A i \in DOMAIN added[place[e]] :
             i \in DOMAIN added'[place[e]] /\ added'[place[e]][i] = added[place[e]][i]
    BY <1>4, AppendProperties, LenProperties
  <2>2. \A r \in Reports : \A i \in DOMAIN added[r] :
          i \in DOMAIN added'[r] /\ added'[r][i] = added[r][i]
    BY <1>4, <2>1
  <2>3. \A d \in Events \ {e} : pc'[d] = "ok" /\ d \notin raced =>
          \E i \in DOMAIN added'[place[d]] : added'[place[d]][i] = d
    BY <1>2, <2>2 DEF ReportInv, Answered, TypeOK
  <2>4. \E i \in DOMAIN added'[place[e]] : added'[place[e]][i] = e
    BY <2>1
  <2> QED
    BY <1>1, <1>2, <2>3, <2>4 DEF ReportInv, Answered
<1> QED
  BY <1>3, <1>5, <1>6 DEF ReportInv

LEMMA WriteAgainKeepsInv ==
  ASSUME TypeOK, ReportInv, NEW e \in Events, WriteAgain(e)
  PROVE  ReportInv'
<1>1. /\ pc[e] = "write again" /\ e \in raced
      /\ UNCHANGED <<place, copy, added, raced>>
      /\ pc'[e] \in {"ok", "error"} /\ \A d \in Events \ {e} : pc'[d] = pc[d]
  BY DEF WriteAgain, At, GoTo, TypeOK, ReportInv, Answered
<1>2. Answered'
  BY <1>1 DEF ReportInv, Answered
<1>3. CASE Takes(e)
  <2>1. CopiesOld' /\ CopiesCurrent'
    BY <1>1, <1>3, TakesKeepCopies DEF Writing
  <2>2. copy[e].results = report[place[e]].results
    BY <1>1, <1>3 DEF Takes, ReportInv, CopiesCurrent
  <2>3. \A r \in Reports : report'[r].results = report[r].results
    BY <1>3, <2>2, TakesType
  <2>4. HoldsNewest'
    BY <1>1, <2>3 DEF ReportInv, HoldsNewest, Newest
  <2> QED
    BY <1>2, <2>1, <2>4 DEF ReportInv
<1>4. CASE UNCHANGED report
  <2>1. CopiesOld'
    BY <1>1, <1>4 DEF ReportInv, CopiesOld, Writing
  <2>2. CopiesCurrent'
    BY <1>1, <1>4 DEF ReportInv, CopiesCurrent, LastEvents
  <2>3. HoldsNewest'
    BY <1>1, <1>4 DEF ReportInv, HoldsNewest, Newest
  <2> QED
    BY <1>2, <2>1, <2>2, <2>3 DEF ReportInv
<1> QED
  BY <1>3, <1>4 DEF WriteAgain

LEMMA NextReport == TypeOK /\ ReportInv /\ [Next]_vars => ReportInv'
<1> SUFFICES ASSUME TypeOK, ReportInv, [Next]_vars PROVE ReportInv'
  OBVIOUS
<1>1. ASSUME NEW e \in Events, Start(e) PROVE ReportInv'
  <2>1. /\ UNCHANGED kubernetes /\ UNCHANGED <<place, copy, raced>>
        /\ pc'[e] \in {"get", "namespace"} /\ \A d \in Events \ {e} : pc'[d] = pc[d]
    BY <1>1 DEF Start, GoTo, TypeOK
  <2> QED
    BY <2>1, MovesKeepInv DEF Writing
<1>2. ASSUME NEW e \in Events, FindNamespace(e) PROVE ReportInv'
  <2>1. /\ UNCHANGED kubernetes /\ UNCHANGED <<copy, raced>>
        /\ pc'[e] \in {"get", "error", "namespace"}
        /\ \A d \in Events \ {e} : pc'[d] = pc[d] /\ place'[d] = place[d]
    BY <1>2 DEF FindNamespace, At, GoTo, TypeOK
  <2> QED
    BY <2>1, MovesKeepInv DEF Writing
<1>3. ASSUME NEW e \in Events, GetReport(e) PROVE ReportInv'
  <2>1. /\ UNCHANGED kubernetes /\ UNCHANGED <<place, raced>>
        /\ \A d \in Events \ {e} : pc'[d] = pc[d] /\ copy'[d] = copy[d]
        /\ \/ pc'[e] = "error"
           \/ /\ pc'[e] = "write"
              /\ copy'[e] = [version |-> report[place[e]].version,
                             results |-> LastEvents(Append(report[place[e]].results, e))]
    BY <1>3 DEF GetReport, GoTo, TypeOK
  <2>2. report[place[e]].version \in Nat
    BY DEF TypeOK, Report
  <2>3. \A n \in Nat : n <= n
    OBVIOUS
  <2>4. CASE pc'[e] = "error"
    BY <2>1, <2>4, MovesKeepInv DEF Writing
  <2>5. CASE pc'[e] = "write"
    <3>1. copy'[e].version = report[place[e]].version
      BY <2>1, <2>5
    <3>2. copy'[e].version <= report[place[e]].version
      BY <3>1, <2>2, <2>3
    <3>3. copy'[e].results = LastEvents(Append(report[place[e]].results, e))
      BY <2>1, <2>5
    <3> QED
      BY <2>1, <2>5, <3>2, <3>3, MovesKeepInv
  <2> QED
    BY <2>1, <2>4, <2>5
<1>4. ASSUME NEW e \in Events, WriteRefused(e) PROVE ReportInv'
  <2>1. /\ UNCHANGED kubernetes /\ UNCHANGED <<place, copy, raced>>
        /\ pc'[e] = "error" /\ \A d \in Events \ {e} : pc'[d] = pc[d]
    BY <1>4 DEF WriteRefused, GoTo, TypeOK
  <2> QED
    BY <2>1, MovesKeepInv DEF Writing
<1>5. ASSUME NEW e \in Events, AlreadyExists(e) PROVE ReportInv'
  <2>1. /\ UNCHANGED kubernetes /\ UNCHANGED <<place, copy>> /\ raced' = raced \union {e}
        /\ pc[e] = "write" /\ pc'[e] = "get again" /\ \A d \in Events \ {e} : pc'[d] = pc[d]
    BY <1>5 DEF AlreadyExists, At, GoTo, TypeOK
  <2>2. copy[e].version <= report[place[e]].version
    BY <2>1 DEF ReportInv, CopiesOld, Writing
  <2> QED
    BY <2>1, <2>2, MovesKeepInv
<1>6. ASSUME NEW e \in Events, GetAgain(e) PROVE ReportInv'
  <2>1. /\ UNCHANGED kubernetes /\ UNCHANGED <<place, raced>> /\ e \in raced
        /\ \A d \in Events \ {e} : pc'[d] = pc[d] /\ copy'[d] = copy[d]
        /\ \/ pc'[e] = "error"
           \/ pc'[e] = "write again" /\ copy'[e] = report[place[e]]
    BY <1>6 DEF GetAgain, At, GoTo, TypeOK, ReportInv, Answered
  <2>2. report[place[e]].version \in Nat
    BY DEF TypeOK, Report
  <2>3. \A n \in Nat : n <= n
    OBVIOUS
  <2>4. CASE pc'[e] = "error"
    BY <2>1, <2>4, MovesKeepInv DEF Writing
  <2>5. CASE pc'[e] = "write again"
    <3>1. copy'[e].version = report[place[e]].version
      BY <2>1, <2>5
    <3>2. copy'[e].version <= report[place[e]].version
      BY <3>1, <2>2, <2>3
    <3> QED
      BY <2>1, <2>5, <3>2, MovesKeepInv
  <2> QED
    BY <2>1, <2>4, <2>5
<1>7. ASSUME NEW e \in Events, WriteReport(e) \/ WriteAgain(e) PROVE ReportInv'
  BY <1>7, WriteKeepsInv, WriteAgainKeepsInv
<1>8. CASE UNCHANGED vars
  BY <1>8 DEF vars, kubernetes, ReportInv, CopiesOld, CopiesCurrent, HoldsNewest, Answered,
              Newest, LastEvents
<1> QED
  BY <1>1, <1>2, <1>3, <1>4, <1>5, <1>6, <1>7, <1>8 DEF Next

LEMMA ReportInvariant == Spec => []ReportInv
BY InitReport, NextReport, ReportTypeCorrect, PTL DEF Spec

\* However the goroutines interleave, a report holds the last MaxEvents of the results that
\* were added to it, in order (updateOrCreate's optimistic update, and its second try).
THEOREM ReportsKeepNewest == Spec => []KeepsNewest
<1>1. ReportInv => KeepsNewest
  BY DEF ReportInv, HoldsNewest, KeepsNewest, Newest
<1> QED
  BY <1>1, ReportInvariant, PTL

\* What is counted as a success was added, but for the goroutines that lost the race for
\* the creation of the report (the answer AlreadyExists).
THEOREM ReportOkMeansAdded == Spec => []OkMeansAdded
<1>1. ReportInv => OkMeansAdded
  BY DEF ReportInv, Answered, OkMeansAdded
<1> QED
  BY <1>1, ReportInvariant, PTL

=============================================================================
