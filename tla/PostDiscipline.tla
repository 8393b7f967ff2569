---------------------------- MODULE PostDiscipline ----------------------------
(***************************************************************************)
(* The discipline the Post functions of version 2 keep, each by itself:    *)
(* what a goroutine of an output may still have to do, and what every step *)
(* leaves it to do. The Post functions are given in full, so TLC decides   *)
(* each of the assumptions below; what they mean for goroutines that run   *)
(* together is proved from them in SidekickProofs.                         *)
(***************************************************************************)
EXTENDS SidekickProperties

-----------------------------------------------------------------------------
\* What is left to do of these sequences after some steps that succeed.
Tails(programs) ==
  UNION {{SubSeq(p, i, Len(p)) : i \in 1..(Len(p) + 1)} : p \in programs}

\* The request is sent and its answer is waited for.
Sent(p) == <<[Head(p) EXCEPT !.op = "answer"]>> \o Tail(p)

\* What is left to do after a failure, and after an answer that is lost.
Fails(p) == IF Head(p).op \in {"require", "prepare", "answer"} THEN Head(p).fails ELSE {}
Lost(p) == IF Head(p).op = "answer" THEN Head(p).lost ELSE {}

\* What is left to do after the next step.
After(p) ==
  IF Head(p).op = "send" THEN {Sent(p)} ELSE {Tail(p)} \union Fails(p) \union Lost(p)

Grow(programs) ==
  LET tails == Tails(programs)
  IN tails \union UNION {After(p) : p \in tails \ {<<>>}}

\* All that a goroutine of output o with this format may have to do at some time.
Programs(o, format) == Grow(Grow(Grow(Grow({Posts(format)[o]}))))

\* It has still to count, to count a success, to send; every success it counts comes after
\* an answer.
Counts(step, results) == step.op = "count" /\ step.result \in results
Owes(p, results) == p = NilClient \/ \E i \in DOMAIN p : Counts(p[i], results)
OwesTotal(p) == Owes(p, {"total"})
OwesResult(p) == Owes(p, {"ok", "error"})
OwesOK(p) == Owes(p, {"ok"})
MaySend(p) == \E i \in DOMAIN p : p[i].op \in {"send", "answer"}
OKAfterAnswer(p) ==
  \A i \in DOMAIN p : Counts(p[i], {"ok"}) =>
    \E j \in DOMAIN p : j < i /\ p[j].op \in {"send", "answer"}

-----------------------------------------------------------------------------
\* Four rounds reach everything: sequences of steps, in which no client is nil.
ASSUME ProgramsAssumption ==
  \A o \in Outputs, format \in Formats :
    /\ Posts(format)[o] \in Programs(o, format)
    /\ \A p \in Programs(o, format) : p # <<>> =>
         /\ After(p) \subseteq Programs(o, format)
         /\ Len(p) \in Nat \ {0} /\ DOMAIN p = 1..Len(p)
         /\ Head(p).op # "nil client"

\* An event is counted once in the total and once as a success or an error, as the output's
\* own, whichever step fails.
CountsOnce(o, p) ==
  /\ Head(p).op = "count" => Head(p).stat = o /\ Head(p).result \in {"total", "ok", "error"}
  /\ Counts(Head(p), {"total"}) => ~OwesTotal(Tail(p)) /\ OwesResult(Tail(p)) = OwesResult(p)
  /\ Counts(Head(p), {"ok", "error"}) =>
       OwesTotal(Tail(p)) = OwesTotal(p) /\ ~OwesResult(Tail(p))
  /\ Head(p).op # "count" => \A q \in After(p) :
       OwesTotal(q) = OwesTotal(p) /\ OwesResult(q) = OwesResult(p)

ASSUME CountsAssumption ==
  \A o \in Outputs \ Miscounting, format \in Formats :
    /\ OwesTotal(Posts(format)[o]) /\ OwesResult(Posts(format)[o])
    /\ \A p \in Programs(o, format) : p # <<>> => CountsOnce(o, p)

\* What has been accepted is not sent again, and what will not be sent never is.
SendsOnce(p) ==
  /\ Head(p).op = "answer" => ~MaySend(Tail(p)) /\ \A q \in Lost(p) : ~MaySend(q)
  /\ ~MaySend(p) => \A q \in After(p) : ~MaySend(q)

ASSUME SendsAssumption ==
  \A o \in Outputs \ {"AzureEventHub"}, format \in Formats :
    \A p \in Programs(o, format) : p # <<>> => SendsOnce(p)

\* A success is counted once, after the answer that accepts the event.
CountsAccepted(p) ==
  /\ Counts(Head(p), {"ok"}) => ~OwesOK(Tail(p))
  /\ \A q \in After(p) : OwesOK(q) => OwesOK(p)
  /\ OKAfterAnswer(p) =>
       \A q \in IF Head(p).op = "answer" THEN Fails(p) ELSE After(p) : OKAfterAnswer(q)

ASSUME SuccessAssumption ==
  \A o \in Outputs, format \in Formats :
    /\ \A p \in Programs(o, format) :
         p # <<>> /\ Counts(Head(p), {"ok"}) => Head(p).stat = CountedFor(o)
    /\ o \notin Optimistic =>
         /\ OKAfterAnswer(Posts(format)[o])
         /\ \A p \in Programs(o, format) : p # <<>> => CountsAccepted(p)

\* Only writers write, only asserting outputs assert, writers look up nothing, and only
\* Fission without a kubeconfig uses metrics its client lacks.
ASSUME PanicsAssumption ==
  \A o \in Outputs, format \in Formats : \A p \in Programs(o, format) : p # <<>> =>
    /\ Head(p).op \in {"begin write", "write"} => o \in Writers
    /\ Head(p).op = "assert" => o \in Asserting
    /\ Head(p).op = "look up" => o \notin Writers
    /\ Head(p).op = "nil metrics" => o = "Fission" /\ format = "default"

\* Every output is forwarded to on account of some key, and an output that cannot be
\* created is one of three kinds.
ASSUME ClientsAssumption ==
  \A o \in Outputs :
    /\ Clients[o].forwards # {}
    /\ Clients[o].onError \in {"none", "cleared", "panics", "exits"}

\* What is sorted stays as it is when it is sorted again.
ASSUME SortAssumption ==
  \A s \in Setups : SortStrings(SortStrings(s.tags)) = SortStrings(s.tags)

=============================================================================
