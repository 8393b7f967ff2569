---------------------------- MODULE SidekickProofs ----------------------------
(***************************************************************************)
(* Proofs about the version 2 program, for every configuration and every   *)
(* number of events: what the Post functions do one by one                 *)
(* (PostDiscipline) they still do when their goroutines run together.      *)
(***************************************************************************)
EXTENDS PostDiscipline, FiniteSetTheorems, TLAPS

-----------------------------------------------------------------------------
(* Bags                                                                      *)

LEMMA CopiesAdd ==
  ASSUME NEW b, IsABag(b), NEW S
  PROVE  /\ IsABag(b (+) SetToBag(S))
         /\ BagToSet(b (+) SetToBag(S)) = BagToSet(b) \union S
         /\ \A y : /\ Copies(y, b) \in Nat
                   /\ Copies(y, b (+) SetToBag(S))
                        = Copies(y, b) + (IF y \in S THEN 1 ELSE 0)
                   /\ y \in BagToSet(b) => Copies(y, b) = b[y] /\ b[y] >= 1
<1> DEFINE c == b (+) SetToBag(S)
<1>1. /\ b \in [DOMAIN b -> {n \in Nat : n > 0}]
      /\ SetToBag(S) = [e \in S |-> 1]
  BY DEF IsABag, SetToBag
<1>2. c = [e \in DOMAIN b \union S |-> (IF e \in DOMAIN b THEN b[e] ELSE 0)
                                         + (IF e \in S THEN 1 ELSE 0)]
  BY <1>1 DEF (+)
<1>3. c \in [DOMAIN b \union S -> {n \in Nat : n > 0}]
  BY <1>1, <1>2
<1> HIDE DEF c
<1>4. IsABag(c) /\ BagToSet(c) = BagToSet(b) \union S
  BY <1>3 DEF IsABag, BagToSet
<1>5. ASSUME NEW y
      PROVE  /\ Copies(y, b) \in Nat
             /\ Copies(y, c) = Copies(y, b) + (IF y \in S THEN 1 ELSE 0)
             /\ y \in BagToSet(b) => Copies(y, b) = b[y] /\ b[y] >= 1
  <2>1. y \in DOMAIN b => b[y] \in Nat /\ b[y] > 0
    BY <1>1
  <2> QED
    BY <1>2, <1>3, <2>1 DEF Copies, BagIn, BagToSet
<1> QED
  BY <1>4, <1>5 DEF c

LEMMA NoCopies == IsABag(EmptyBag) /\ BagToSet(EmptyBag) = {} /\ \A y : Copies(y, EmptyBag) = 0
BY DEF EmptyBag, SetToBag, IsABag, BagToSet, Copies, BagIn

-----------------------------------------------------------------------------
(* The process and its goroutines: each belongs to an event that was         *)
(* received and to an output that is configured, and has still to do what    *)
(* its Post function leaves it at some time.                                 *)

Process ==
  /\ setup \in Setups
  /\ DOMAIN keys = DOMAIN setup.keys
  /\ phase \in {"starting", "serving", "dead"}
  /\ phase = "starting" => rest = <<>>

Goroutines ==
  /\ DOMAIN snapshot = DOMAIN rest
  /\ IsFiniteSet(DOMAIN rest)
  /\ \A g \in DOMAIN rest :
       /\ g = <<g[1], g[2], g[3]>> /\ g[1] \in DOMAIN fields /\ g[2] \in DOMAIN keys
       /\ g[2] # "Alertmanager" => g[3] = 1
       /\ rest[g] \in Programs(g[2], setup.format) \union {NilClient}

Statistics == IsABag(counts) /\ IsABag(requests) /\ IsABag(accepted)

ProcessInv == Process /\ Goroutines /\ Statistics /\ BagToSet(accepted) \subseteq DOMAIN rest

\* Goroutine g takes a step that leaves it q to do.
Continues(g, q) ==
  /\ rest[g] \in Programs(g[2], setup.format) /\ rest[g] # <<>>
  /\ q \in After(rest[g])
  /\ rest' = [rest EXCEPT ![g] = q]
  /\ phase = "serving" /\ UNCHANGED <<config, phase, requests>>
  /\ DOMAIN fields' = DOMAIN fields /\ DOMAIN snapshot' = DOMAIN snapshot

CountsIt(g, q) ==
  \/ /\ Head(rest[g]).op = "count" /\ q = Tail(rest[g])
     /\ counts' = counts (+) SetToBag({<<Head(rest[g]).stat, Head(rest[g]).result>>})
  \/ Head(rest[g]).op # "count" /\ UNCHANGED counts

AcceptsIt(g, q) ==
  \/ /\ Head(rest[g]).op = "answer" /\ q \in {Tail(rest[g])} \union Lost(rest[g])
     /\ accepted' = accepted (+) SetToBag({g})
  \/ /\ Head(rest[g]).op = "answer" => q \in Fails(rest[g])
     /\ UNCHANGED accepted

Moves(g, q) == Continues(g, q) /\ CountsIt(g, q) /\ AcceptsIt(g, q)

LEMMA NilFirst == Head(NilClient).op = "nil client" /\ NilClient # <<>>
<1>1. \A p : Head(p) = p[1]
  OBVIOUS
<1>2. Head(NilClient) = NilClient[1]
  BY <1>1
<1>3. NilClient[1].op = "nil client" /\ NilClient # <<>>
  BY DEF NilClient
<1> QED
  BY <1>2, <1>3

LEMMA GoroutineType ==
  ASSUME Process, Goroutines, NEW g \in DOMAIN rest
  PROVE  /\ g[1] \in DOMAIN fields /\ g[2] \in DOMAIN keys /\ g[2] \in Outputs
         /\ setup.format \in Formats
         /\ rest[g] \in Programs(g[2], setup.format) \union {NilClient}
<1>1. g[2] \in DOMAIN keys
  BY DEF Goroutines
<1>2. DOMAIN keys \subseteq Outputs
  BY SetupsAssumption DEF Process
<1>3. setup.format \in Formats
  BY SetupsAssumption DEF Process
<1> QED
  BY <1>1, <1>2, <1>3 DEF Goroutines

LEMMA RunMoves ==
  ASSUME Process, Goroutines, NEW g \in DOMAIN rest, Run(g), ~Panic(g)
  PROVE  \E q : Moves(g, q)
<1>1. Head(rest[g]).op # "nil client" => rest[g] \in Programs(g[2], setup.format)
  BY GoroutineType, NilFirst
<1>3. /\ Head(rest[g]).op # "send" => Tail(rest[g]) \in After(rest[g])
      /\ Head(rest[g]).op # "send" => Fails(rest[g]) \subseteq After(rest[g])
      /\ Head(rest[g]).op # "send" => Lost(rest[g]) \subseteq After(rest[g])
      /\ Head(rest[g]).op = "send" => Sent(rest[g]) \in After(rest[g])
  BY DEF After
<1> USE DEF config, shared
<1>4. CASE CountMetric(g)
  <2>1. Continues(g, Tail(rest[g]))
    BY <1>1, <1>3, <1>4 DEF Continues, CountMetric, Continue, At
  <2>2. CountsIt(g, Tail(rest[g]))
    BY <1>4 DEF CountsIt, CountMetric, Step, At
  <2>3. AcceptsIt(g, Tail(rest[g]))
    BY <1>4 DEF AcceptsIt, CountMetric, At
  <2> QED
    BY <2>1, <2>2, <2>3 DEF Moves
<1>5. ASSUME NEW q \in After(rest[g]), rest' = [rest EXCEPT ![g] = q],
             phase = "serving", rest[g] # <<>>,
             Head(rest[g]).op \notin {"nil client", "count", "answer"},
             setup' = setup, keys' = keys, clients' = clients, phase' = phase,
             requests' = requests, counts' = counts, accepted' = accepted,
             DOMAIN fields' = DOMAIN fields, DOMAIN snapshot' = DOMAIN snapshot
      PROVE  Moves(g, q)
  <2>1. Continues(g, q)
    BY <1>1, <1>5 DEF Continues
  <2>2. CountsIt(g, q) /\ AcceptsIt(g, q)
    BY <1>5 DEF CountsIt, AcceptsIt
  <2> QED
    BY <2>1, <2>2 DEF Moves
<1>6. CASE ReadFields(g)
  <2>1. ASSUME Continue(g), \E op \in {"iterate", "look up", "assert", "require"} : At(g, op),
               UNCHANGED <<config, phase, requests, shared, snapshot, ready, counts, accepted>>
        PROVE  Moves(g, Tail(rest[g]))
    BY <1>3, <1>5, <2>1 DEF Continue, At
  <2>2. ASSUME Continue(g), At(g, "keys"), snapshot' = [snapshot EXCEPT ![g] = Strings(g)],
               UNCHANGED <<config, phase, requests, shared, ready, counts, accepted>>
        PROVE  Moves(g, Tail(rest[g]))
    BY <1>3, <1>5, <2>2 DEF Continue, At
  <2>3. ASSUME GiveUp(g), At(g, "require"),
               UNCHANGED <<config, phase, requests, shared, snapshot, ready, counts, accepted>>
        PROVE  \E q : Moves(g, q)
    <3>1. PICK q \in Head(rest[g]).fails : rest' = [rest EXCEPT ![g] = q]
      BY <2>3 DEF GiveUp, Step
    <3>2. q \in Fails(rest[g])
      BY <2>3, <3>1 DEF Fails, At
    <3> QED
      BY <1>3, <1>5, <2>3, <3>1, <3>2 DEF At
  <2> QED
    BY <1>6, <2>1, <2>2, <2>3 DEF ReadFields
<1>7. CASE BeginWrite(g)
  BY <1>3, <1>5, <1>7 DEF BeginWrite, Continue, At
<1>8. CASE WriteFields(g)
  BY <1>3, <1>5, <1>8 DEF WriteFields, Continue, At
<1>9. CASE BeginSort(g)
  BY <1>3, <1>5, <1>9 DEF BeginSort, Continue, At
<1>10. CASE EndSort(g)
  BY <1>3, <1>5, <1>10 DEF EndSort, Continue, At
<1>11. CASE TagsRead(g)
  BY <1>3, <1>5, <1>11 DEF TagsRead, Continue, At
<1>12. CASE Prepared(g)
  <2>1. CASE Continue(g)
    BY <1>3, <1>5, <1>12, <2>1 DEF Prepared, Continue, At
  <2>2. CASE GiveUp(g)
    <3>1. PICK q \in Head(rest[g]).fails : rest' = [rest EXCEPT ![g] = q]
      BY <2>2 DEF GiveUp, Step
    <3>2. q \in Fails(rest[g])
      BY <1>12, <3>1 DEF Fails, Prepared, At
    <3> QED
      BY <1>3, <1>5, <1>12, <3>1, <3>2 DEF Prepared, At
  <2> QED
    BY <1>12, <2>1, <2>2 DEF Prepared
<1>13. CASE SendRequest(g)
  <2>1. rest' = [rest EXCEPT ![g] = Sent(rest[g])]
    BY <1>13 DEF SendRequest, Sent, Step
  <2> QED
    BY <1>3, <1>5, <1>13, <2>1 DEF SendRequest, At
<1>14. CASE Answered(g)
  <2>1. /\ rest[g] \in Programs(g[2], setup.format) /\ rest[g] # <<>>
        /\ phase = "serving" /\ Head(rest[g]).op = "answer"
    BY <1>1, <1>14 DEF Answered, At
  <2>2. ASSUME NEW q \in After(rest[g]), rest' = [rest EXCEPT ![g] = q] PROVE Continues(g, q)
    BY <1>14, <2>1, <2>2 DEF Continues, Answered
  <2>3. \A q : CountsIt(g, q)
    BY <1>14, <2>1 DEF CountsIt, Answered
  <2>4. CASE Continue(g) /\ accepted' = accepted (+) SetToBag({g})
    BY <1>3, <2>1, <2>2, <2>3, <2>4 DEF Continue, AcceptsIt, Moves
  <2>5. CASE \E left \in Step(g).lost : /\ rest' = [rest EXCEPT ![g] = left]
                                        /\ accepted' = accepted (+) SetToBag({g})
    <3>1. PICK q \in Head(rest[g]).lost : /\ rest' = [rest EXCEPT ![g] = q]
                                          /\ accepted' = accepted (+) SetToBag({g})
      BY <2>5 DEF Step
    <3>2. q \in Lost(rest[g])
      BY <2>1, <3>1 DEF Lost
    <3> QED
      BY <1>3, <2>1, <2>2, <2>3, <3>1, <3>2 DEF AcceptsIt, Moves
  <2>6. CASE GiveUp(g) /\ UNCHANGED accepted
    <3>1. PICK q \in Head(rest[g]).fails : rest' = [rest EXCEPT ![g] = q]
      BY <2>6 DEF GiveUp, Step
    <3>2. q \in Fails(rest[g])
      BY <2>1, <3>1 DEF Fails
    <3> QED
      BY <1>3, <2>1, <2>2, <2>3, <2>6, <3>1, <3>2 DEF AcceptsIt, Moves
  <2> QED
    BY <1>14, <2>4, <2>5, <2>6 DEF Answered
<1> QED
  BY <1>4, <1>6, <1>7, <1>8, <1>9, <1>10, <1>11, <1>12, <1>13, <1>14 DEF Run

LEMMA StepCases ==
  ASSUME Process, Goroutines, [Next]_vars
  PROVE  \/ StartUp
         \/ \E e : MainHandler(e)
         \/ Die
         \/ \E g \in DOMAIN rest : \E q : Moves(g, q)
         \/ UNCHANGED vars
<1>1. ASSUME NEW g \in DOMAIN rest, Run(g) PROVE Die \/ \E q : Moves(g, q)
  <2>1. CASE Panic(g)
    BY <2>1 DEF Panic
  <2>2. CASE ~Panic(g)
    BY <1>1, <2>2, RunMoves
  <2> QED
    BY <2>1, <2>2
<1> QED
  BY <1>1 DEF Next

\* What forwardEvent starts.
LEMMA HandlerStarts ==
  ASSUME Process, Goroutines, NEW e, MainHandler(e)
  PROVE  /\ DOMAIN rest \subseteq DOMAIN rest' /\ DOMAIN snapshot' = DOMAIN rest'
         /\ IsFiniteSet(DOMAIN rest')
         /\ \A g \in DOMAIN rest : rest'[g] = rest[g] /\ snapshot'[g] = snapshot[g]
         /\ \A g \in DOMAIN rest' \ DOMAIN rest :
              /\ g = <<e, g[2], g[3]>> /\ g[2] \in DOMAIN keys /\ ForwardTo(g[2])
              /\ g[2] # "Alertmanager" => g[3] = 1
              /\ snapshot'[g] = {}
              /\ rest'[g] = IF g[2] \in clients THEN Posts(setup.format)[g[2]] ELSE NilClient
<1> DEFINE os == {o \in DOMAIN keys : ForwardTo(o)}
           of(o) == {<<e, o, c>> : c \in ClientsOf(o)}
           started == UNION {of(o) : o \in os}
<1>1. \A g \in started :
        /\ g = <<e, g[2], g[3]>> /\ g[1] = e /\ g[2] \in DOMAIN keys /\ ForwardTo(g[2])
        /\ g[2] # "Alertmanager" => g[3] = 1
  BY DEF ClientsOf
<1>2. IsFiniteSet(started)
  <2>1. IsFiniteSet(os)
    BY SetupsAssumption, FS_Subset DEF Process
  <2>2. ASSUME NEW o \in os PROVE IsFiniteSet(of(o))
    <3> DEFINE f == [c \in ClientsOf(o) |-> <<e, o, c>>]
    <3>1. IsFiniteSet(ClientsOf(o))
      <4>1. setup.hosts \in Int /\ 1 \in Int
        BY SetupsAssumption DEF Process
      <4> QED
        BY <4>1, FS_Interval, FS_Singleton DEF ClientsOf
    <3>2. f \in Surjection(ClientsOf(o), of(o))
      BY DEF Surjection
    <3> HIDE DEF f, of
    <3> QED
      BY <3>1, <3>2, FS_Surjection
  <2>3. IsFiniteSet({of(o) : o \in os})
    <3> DEFINE f == [o \in os |-> of(o)]
               sets == {of(o) : o \in os}
    <3>1. f \in Surjection(os, sets)
      BY DEF Surjection
    <3> HIDE DEF f, sets
    <3>2. IsFiniteSet(sets)
      BY <2>1, <3>1, FS_Surjection
    <3> QED
      BY <3>2 DEF sets
  <2> HIDE DEF of, os
  <2> QED
    BY <2>2, <2>3, FS_UNION
<1>3. \A g \in started : g \notin DOMAIN rest
  BY <1>1 DEF MainHandler, Goroutines
<1>4. CASE Outcome = "accepted"
  <2>1. /\ rest' = Extended(rest, [g \in started |->
                     IF g[2] \in clients THEN Posts(setup.format)[g[2]] ELSE NilClient])
        /\ snapshot' = Extended(snapshot, [g \in started |-> {}])
    BY <1>4 DEF MainHandler, ForwardEvent
  <2> HIDE DEF started
  <2>2. /\ DOMAIN rest' = DOMAIN rest \union started
        /\ DOMAIN snapshot' = DOMAIN snapshot \union started
    BY <2>1 DEF Extended
  <2>3. ASSUME NEW g \in DOMAIN rest PROVE rest'[g] = rest[g] /\ snapshot'[g] = snapshot[g]
    BY <2>1 DEF Extended, Goroutines
  <2>4. ASSUME NEW g \in DOMAIN rest' \ DOMAIN rest
        PROVE  /\ g \in started /\ snapshot'[g] = {}
               /\ rest'[g] = IF g[2] \in clients THEN Posts(setup.format)[g[2]] ELSE NilClient
    BY <2>1, <2>2 DEF Extended, Goroutines
  <2>5. IsFiniteSet(DOMAIN rest')
    <3>1. IsFiniteSet(DOMAIN rest)
      BY DEF Goroutines
    <3>2. IsFiniteSet(DOMAIN rest \union started)
      BY <1>2, <3>1, FS_Union
    <3> QED
      BY <2>2, <3>2
  <2> QED
    BY <1>1, <2>2, <2>3, <2>4, <2>5 DEF Goroutines
<1>5. CASE Outcome # "accepted"
  BY <1>5 DEF MainHandler, Goroutines
<1> QED
  BY <1>4, <1>5

LEMMA HandlerReceives ==
  ASSUME NEW e, MainHandler(e)
  PROVE  /\ e \notin DOMAIN fields /\ DOMAIN fields' = DOMAIN fields \union {e}
         /\ UNCHANGED <<setup, clients, keys, phase, counts, accepted>> /\ phase = "serving"
         /\ requests' = requests (+) SetToBag({"total"} \union ({Outcome} \ {"panic"}))
BY DEF MainHandler, Extended, config

LEMMA ProcessNext ==
  ASSUME ProcessInv, [Next]_vars
  PROVE  ProcessInv'
<1> USE DEF ProcessInv
<1>1. CASE StartUp
  <2>1. Process'
    BY <1>1 DEF StartUp, Process, shared
  <2>2. Goroutines' /\ Statistics' /\ (BagToSet(accepted) \subseteq DOMAIN rest)'
    BY <1>1 DEF StartUp, shared, Process, Goroutines, Statistics
  <2> QED
    BY <2>1, <2>2
<1>2. ASSUME NEW e, MainHandler(e) PROVE ProcessInv'
  <2>1. Process'
    BY <1>2, HandlerReceives DEF Process
  <2>2. Goroutines'
    <3>1. ASSUME NEW g \in DOMAIN rest'
          PROVE  /\ g = <<g[1], g[2], g[3]>> /\ g[1] \in DOMAIN fields' /\ g[2] \in DOMAIN keys'
                 /\ g[2] # "Alertmanager" => g[3] = 1
                 /\ rest'[g] \in Programs(g[2], setup.format) \union {NilClient}
      <4>1. CASE g \in DOMAIN rest
        BY <1>2, <4>1, HandlerStarts, HandlerReceives DEF Goroutines
      <4>2. CASE g \notin DOMAIN rest
        <5>1. /\ g = <<e, g[2], g[3]>> /\ g[2] \in DOMAIN keys
              /\ g[2] # "Alertmanager" => g[3] = 1
              /\ rest'[g] = IF g[2] \in clients THEN Posts(setup.format)[g[2]] ELSE NilClient
          BY <1>2, <4>2, HandlerStarts
        <5>2. g[2] \in Outputs /\ setup.format \in Formats
          BY <5>1, SetupsAssumption DEF Process
        <5>3. g[1] = e
          BY <5>1
        <5>4. Posts(setup.format)[g[2]] \in Programs(g[2], setup.format)
          BY <5>2, ProgramsAssumption
        <5>5. e \in DOMAIN fields' /\ keys' = keys
          BY <1>2, HandlerReceives
        <5>6. rest'[g] \in Programs(g[2], setup.format) \union {NilClient}
          BY <5>1, <5>4
        <5> QED
          BY <5>1, <5>3, <5>5, <5>6
      <4> QED
        BY <4>1, <4>2
    <3> QED
      BY <1>2, <3>1, HandlerStarts, HandlerReceives DEF Goroutines
  <2>3. Statistics' /\ (BagToSet(accepted) \subseteq DOMAIN rest)'
    <3> DEFINE results == {"total"} \union ({Outcome} \ {"panic"})
    <3>1. requests' = requests (+) SetToBag(results)
      BY <1>2, HandlerReceives
    <3> HIDE DEF results
    <3>2. IsABag(requests')
      BY <3>1, CopiesAdd DEF Statistics
    <3> QED
      BY <1>2, <3>2, HandlerReceives, HandlerStarts DEF Statistics
  <2> QED
    BY <2>1, <2>2, <2>3
<1>3. CASE Die
  BY <1>3 DEF Die, config, shared, Process, Goroutines, Statistics
<1>4. ASSUME NEW g \in DOMAIN rest, NEW q, Moves(g, q) PROVE ProcessInv'
  <2>1. Process'
    BY <1>4 DEF Moves, Continues, config, Process
  <2>2. Goroutines'
    <3>1. q \in Programs(g[2], setup.format)
      BY <1>4, GoroutineType, ProgramsAssumption DEF Moves, Continues
    <3> QED
      BY <1>4, <3>1 DEF Moves, Continues, config, Goroutines
  <2>3. Statistics'
    BY <1>4, CopiesAdd DEF Moves, Continues, CountsIt, AcceptsIt, Statistics
  <2>4. (BagToSet(accepted) \subseteq DOMAIN rest)'
    BY <1>4, CopiesAdd DEF Moves, Continues, AcceptsIt, Statistics
  <2> QED
    BY <2>1, <2>2, <2>3, <2>4
<1>5. CASE UNCHANGED vars
  BY <1>5 DEF vars, config, shared, Process, Goroutines, Statistics
<1> QED
  BY <1>1, <1>2, <1>3, <1>4, <1>5, StepCases

LEMMA ProcessInit == Init => ProcessInv
<1> SUFFICES ASSUME Init PROVE ProcessInv
  OBVIOUS
<1>1. DOMAIN rest = {} /\ DOMAIN snapshot = {}
  BY DEF Init
<1>2. Goroutines
  BY <1>1, FS_EmptySet DEF Goroutines
<1>3. Statistics /\ BagToSet(accepted) = {}
  BY NoCopies DEF Init, Statistics
<1> QED
  BY <1>1, <1>2, <1>3 DEF Init, ProcessInv, Process

\* The goroutines, the counters and what has been accepted belong together.
LEMMA ProcessInvariant == Spec => []ProcessInv
BY ProcessInit, ProcessNext, PTL DEF Spec

-----------------------------------------------------------------------------
(* What a destination accepts                                                *)

LEMMA FirstStep ==
  ASSUME NEW o \in Outputs,
         NEW format \in Formats, NEW p \in Programs(o, format), p # <<>>
  PROVE  Head(p) = p[1] /\ 1 \in DOMAIN p
<1>1. Len(p) \in Nat \ {0} /\ DOMAIN p = 1..Len(p)
  BY ProgramsAssumption
<1>2. 1 \in 1..Len(p)
  BY <1>1
<1>3. \A s : Head(s) = s[1]
  OBVIOUS
<1> QED
  BY <1>1, <1>2, <1>3

\* What has been accepted will not be sent again.
SentOnce ==
  \A g \in BagToSet(accepted) :
    g[2] # "AzureEventHub" => Copies(g, accepted) = 1 /\ ~MaySend(rest[g])

LEMMA AnswerWasSent ==
  ASSUME NEW o \in Outputs, NEW format \in Formats,
         NEW p \in Programs(o, format), p # <<>>, Head(p).op = "answer"
  PROVE  MaySend(p)
<1>1. 1 \in DOMAIN p /\ p[1].op = "answer"
  BY FirstStep
<1> QED
  BY <1>1 DEF MaySend

LEMMA SentOnceNext ==
  ASSUME ProcessInv, SentOnce, [Next]_vars
  PROVE  SentOnce'
<1> USE DEF ProcessInv
<1>1. ASSUME NEW e, MainHandler(e) PROVE SentOnce'
  BY <1>1, HandlerStarts, HandlerReceives DEF SentOnce
<1>2. ASSUME NEW g \in DOMAIN rest, NEW q, Moves(g, q) PROVE SentOnce'
  <2> DEFINE p == rest[g]
  <2>1. /\ p \in Programs(g[2], setup.format) /\ p # <<>> /\ q \in After(p) /\ g[2] \in Outputs
        /\ setup.format \in Formats /\ rest' = [rest EXCEPT ![g] = q]
    BY <1>2, GoroutineType DEF Moves, Continues
  <2>2. ASSUME g[2] # "AzureEventHub" PROVE SendsOnce(p) /\ (Head(p).op = "answer" => MaySend(p))
    BY <2>1, <2>2, SendsAssumption, AnswerWasSent
  <2>3. CASE UNCHANGED accepted
    BY <2>1, <2>2, <2>3 DEF SentOnce, SendsOnce
  <2>4. CASE /\ Head(p).op = "answer" /\ q \in {Tail(p)} \union Lost(p)
             /\ accepted' = accepted (+) SetToBag({g})
    <3>1. /\ BagToSet(accepted') = BagToSet(accepted) \union {g}
          /\ \A h : Copies(h, accepted') = Copies(h, accepted) + (IF h \in {g} THEN 1 ELSE 0)
          /\ \A h : Copies(h, accepted) \in Nat
      BY <2>4, CopiesAdd DEF Statistics
    <3>2. ASSUME NEW h \in BagToSet(accepted), h # g, h[2] # "AzureEventHub"
          PROVE  Copies(h, accepted') = 1 /\ ~MaySend(rest'[h])
      BY <2>1, <3>1, <3>2 DEF SentOnce
    <3>3. ASSUME g[2] # "AzureEventHub"
          PROVE  Copies(g, accepted') = 1 /\ ~MaySend(rest'[g])
      <4>1. g \notin BagToSet(accepted)
        BY <2>2, <2>4, <3>3 DEF SentOnce
      <4>2. Copies(g, accepted) = 0
        BY <4>1 DEF Copies, BagIn
      <4>3. ~MaySend(q) /\ rest'[g] = q
        BY <2>1, <2>2, <2>4, <3>3 DEF SendsOnce
      <4> QED
        BY <3>1, <4>2, <4>3
    <3> QED
      BY <3>1, <3>2, <3>3 DEF SentOnce
  <2> QED
    BY <1>2, <2>3, <2>4 DEF Moves, AcceptsIt
<1>3. CASE StartUp \/ Die \/ UNCHANGED vars
  BY <1>3 DEF StartUp, Die, vars, SentOnce
<1> QED
  BY <1>1, <1>2, <1>3, StepCases

\* No destination accepts an event twice, the retry after Elasticsearch's mapping error
\* included: once an event is accepted no Post function but the Event Hub's has another
\* request to make (client.go, elasticsearch.go, sendRequest's callers).
THEOREM NothingAcceptedTwice == Spec => []AtMostOnce
<1>1. Init => SentOnce
  BY NoCopies DEF Init, SentOnce
<1>2. SentOnce => AtMostOnce
  BY DEF SentOnce, AtMostOnce
<1> QED
  BY <1>1, <1>2, SentOnceNext, ProcessInvariant, PTL DEF Spec

-----------------------------------------------------------------------------
(* What is counted as a success                                              *)

\* An event that has not been accepted has its success, if any, behind an answer.
AnswerFirst ==
  \A g \in DOMAIN rest \ BagToSet(accepted) :
    g[2] \notin Optimistic => OKAfterAnswer(rest[g])

\* The goroutines whose event was accepted and that have no success left to count.
SuccessDone(o) == {g \in BagToSet(accepted) : CountedFor(g[2]) = o /\ ~OwesOK(rest[g])}

SuccessesCovered ==
  \A o \in Outputs \ Optimistic : Counted(o, "ok") <= Cardinality(SuccessDone(o))

SuccessInv == AnswerFirst /\ SuccessesCovered

LEMMA NilOwesNothingEarly == OKAfterAnswer(NilClient)
<1>1. DOMAIN NilClient = {1}
  BY DEF NilClient
<1>2. NilClient[1].op = "nil client"
  BY DEF NilClient
<1> QED
  BY <1>1, <1>2 DEF OKAfterAnswer, Counts

LEMMA OwnStatistics ==
  ASSUME NEW o \in Outputs \ Optimistic, NEW p, CountedFor(p) = o
  PROVE  p \notin Optimistic
BY DEF CountedFor, Optimistic

LEMMA OptimisticCountsItself ==
  ASSUME NEW o \in Optimistic PROVE CountedFor(o) = o
BY DEF CountedFor, Optimistic

\* A success is counted with its answer taken, and is the last of its goroutine.
LEMMA SuccessStep ==
  ASSUME NEW o \in Outputs \ Optimistic,
         NEW format \in Formats, NEW p \in Programs(o, format), p # <<>>
  PROVE  /\ CountsAccepted(p)
         /\ Counts(Head(p), {"ok"}) => OwesOK(p) /\ ~OKAfterAnswer(p)
<1>1. CountsAccepted(p)
  BY SuccessAssumption
<1>2. /\ Head(p) = p[1] /\ 1 \in DOMAIN p
      /\ \A j \in DOMAIN p : ~(j < 1)
  <2>1. DOMAIN p = 1..Len(p) /\ Len(p) \in Nat
    BY ProgramsAssumption
  <2>2. \A j \in 1..Len(p) : ~(j < 1)
    BY <2>1
  <2> QED
    BY <2>1, <2>2, FirstStep
<1> QED
  BY <1>1, <1>2 DEF OwesOK, Owes, OKAfterAnswer

LEMMA SuccessDoneFinite ==
  ASSUME ProcessInv, NEW o
  PROVE  IsFiniteSet(SuccessDone(o)) /\ Cardinality(SuccessDone(o)) \in Nat
<1>1. SuccessDone(o) \subseteq DOMAIN rest
  BY DEF SuccessDone, ProcessInv
<1>2. IsFiniteSet(DOMAIN rest)
  BY DEF ProcessInv, Goroutines
<1> QED
  BY <1>1, <1>2, FS_Subset, FS_CardinalityType

LEMMA SuccessMoves ==
  ASSUME ProcessInv, ProcessInv', SuccessInv, NEW g \in DOMAIN rest, NEW q, Moves(g, q)
  PROVE  SuccessInv'
<1> DEFINE p == rest[g]
           o == g[2]
<1>1. /\ p \in Programs(o, setup.format) /\ p # <<>> /\ q \in After(p) /\ o \in Outputs
      /\ setup.format \in Formats /\ rest' = [rest EXCEPT ![g] = q]
  BY GoroutineType DEF Moves, Continues, ProcessInv
<1>2. /\ BagToSet(accepted) \subseteq BagToSet(accepted')
      /\ BagToSet(accepted') \subseteq BagToSet(accepted) \union {g}
      /\ g \notin BagToSet(accepted') /\ Head(p).op = "answer" => q \in Fails(p)
  BY CopiesAdd DEF Moves, AcceptsIt, ProcessInv, Statistics
<1>3. o \notin Optimistic =>
        /\ CountsAccepted(p)
        /\ Counts(Head(p), {"ok"}) => OwesOK(p) /\ ~OKAfterAnswer(p)
  BY <1>1, SuccessStep
<1>4. AnswerFirst'
  <2> SUFFICES ASSUME NEW h \in DOMAIN rest \ BagToSet(accepted'), h[2] \notin Optimistic
               PROVE  OKAfterAnswer(rest'[h])
    BY <1>1 DEF AnswerFirst
  <2>1. OKAfterAnswer(rest[h])
    BY <1>2 DEF SuccessInv, AnswerFirst
  <2>2. CASE h # g
    BY <1>1, <2>1, <2>2
  <2>3. CASE h = g
    <3>1. CountsAccepted(p) /\ OKAfterAnswer(p) /\ rest'[h] = q
      BY <1>1, <1>3, <2>1, <2>3
    <3>2. q \in IF Head(p).op = "answer" THEN Fails(p) ELSE After(p)
      BY <1>1, <1>2, <2>3
    <3> QED
      BY <3>1, <3>2 DEF CountsAccepted
  <2> QED
    BY <2>2, <2>3
<1>5. ASSUME NEW d \in Outputs \ Optimistic
      PROVE  /\ IsFiniteSet(SuccessDone(d)) /\ Cardinality(SuccessDone(d)) \in Nat
             /\ IsFiniteSet(SuccessDone(d)') /\ Cardinality(SuccessDone(d)') \in Nat
             /\ Counted(d, "ok") \in Nat
             /\ SuccessDone(d) \subseteq SuccessDone(d)'
  <2>1. ASSUME NEW h \in SuccessDone(d) PROVE h \in SuccessDone(d)'
    <3>1. /\ h \in BagToSet(accepted') /\ CountedFor(h[2]) = d /\ ~OwesOK(rest[h])
          /\ h \in DOMAIN rest
      BY <1>2, <2>1 DEF SuccessDone, ProcessInv
    <3>2. h = g => CountsAccepted(p)
      BY <1>3, <3>1, OwnStatistics
    <3>3. ~OwesOK(rest'[h])
      BY <1>1, <3>1, <3>2 DEF CountsAccepted
    <3> QED
      BY <3>1, <3>3 DEF SuccessDone
  <2>2. IsFiniteSet(SuccessDone(d)') /\ Cardinality(SuccessDone(d)') \in Nat
    <3>1. SuccessDone(d)' \subseteq DOMAIN rest'
      BY DEF SuccessDone, ProcessInv
    <3>2. IsFiniteSet(DOMAIN rest')
      BY DEF ProcessInv, Goroutines
    <3> QED
      BY <3>1, <3>2, FS_Subset, FS_CardinalityType
  <2> QED
    BY <2>1, <2>2, SuccessDoneFinite, CopiesAdd DEF Counted, ProcessInv, Statistics
<1>6. ASSUME NEW d \in Outputs \ Optimistic PROVE Counted(d, "ok")' <= Cardinality(SuccessDone(d)')
  <2>1. Counted(d, "ok") <= Cardinality(SuccessDone(d))
    BY DEF SuccessInv, SuccessesCovered
  <2>2. Cardinality(SuccessDone(d)) <= Cardinality(SuccessDone(d)')
    BY <1>5, FS_Subset
  <2>3. CASE Counts(Head(p), {"ok"}) /\ CountedFor(o) = d
    <3>1. OwesOK(p) /\ ~OKAfterAnswer(p) /\ ~OwesOK(Tail(p)) /\ o \notin Optimistic
      BY <1>3, <2>3, OwnStatistics DEF CountsAccepted
    <3>2. /\ Head(p).op = "count" /\ Head(p).result = "ok" /\ Head(p).stat = d
          /\ q = Tail(p) /\ counts' = counts (+) SetToBag({<<d, "ok">>})
      <4>1. Head(p).op = "count" /\ Head(p).result = "ok" /\ Head(p).stat = d
        BY <1>1, <2>3, SuccessAssumption DEF Counts
      <4> QED
        BY <4>1 DEF Moves, CountsIt
    <3>3. Counted(d, "ok")' = Counted(d, "ok") + 1
      BY <3>2, CopiesAdd DEF Counted, ProcessInv, Statistics
    <3>4. g \in BagToSet(accepted)
      BY <3>1 DEF SuccessInv, AnswerFirst
    <3>5. g \notin SuccessDone(d) /\ g \in SuccessDone(d)'
      BY <1>1, <1>2, <2>3, <3>1, <3>2, <3>4 DEF SuccessDone
    <3>6. Cardinality(SuccessDone(d) \union {g}) = Cardinality(SuccessDone(d)) + 1
      BY <1>5, <3>5, FS_AddElement
    <3>7. Cardinality(SuccessDone(d) \union {g}) <= Cardinality(SuccessDone(d)')
      <4>1. SuccessDone(d) \union {g} \subseteq SuccessDone(d)'
        BY <1>5, <3>5
      <4> QED
        BY <1>5, <4>1, FS_Subset
    <3> QED
      BY <1>5, <2>1, <3>3, <3>6, <3>7
  <2>4. CASE ~(Counts(Head(p), {"ok"}) /\ CountedFor(o) = d)
    <3>1. Counted(d, "ok")' = Counted(d, "ok")
      <4>1. CASE UNCHANGED counts
        BY <4>1 DEF Counted
      <4>2. CASE /\ Head(p).op = "count"
                 /\ counts' = counts (+) SetToBag({<<Head(p).stat, Head(p).result>>})
        <5>1. <<Head(p).stat, Head(p).result>> # <<d, "ok">>
          <6> SUFFICES ASSUME Head(p).stat = d, Head(p).result = "ok" PROVE FALSE
            OBVIOUS
          <6>1. Counts(Head(p), {"ok"})
            BY <4>2 DEF Counts
          <6> QED
            BY <1>1, <2>4, <6>1, SuccessAssumption
        <5> QED
          BY <4>2, <5>1, CopiesAdd DEF Counted, ProcessInv, Statistics
      <4> QED
        BY <4>1, <4>2 DEF Moves, CountsIt
    <3> QED
      BY <1>5, <2>1, <2>2, <3>1
  <2> QED
    BY <2>3, <2>4
<1> QED
  BY <1>4, <1>6 DEF SuccessInv, SuccessesCovered

LEMMA SuccessNext ==
  ASSUME ProcessInv, ProcessInv', SuccessInv, [Next]_vars
  PROVE  SuccessInv'
<1>1. ASSUME NEW e, MainHandler(e) PROVE SuccessInv'
  <2>1. AnswerFirst'
    <3> SUFFICES ASSUME NEW h \in DOMAIN rest' \ BagToSet(accepted'), h[2] \notin Optimistic
                 PROVE  OKAfterAnswer(rest'[h])
      BY DEF AnswerFirst
    <3>1. CASE h \in DOMAIN rest
      BY <1>1, <3>1, HandlerStarts, HandlerReceives DEF SuccessInv, AnswerFirst, ProcessInv
    <3>2. CASE h \notin DOMAIN rest
      <4>1. /\ h[2] \in DOMAIN keys
            /\ rest'[h] = IF h[2] \in clients THEN Posts(setup.format)[h[2]] ELSE NilClient
        BY <1>1, <3>2, HandlerStarts DEF ProcessInv
      <4>2. h[2] \in Outputs /\ setup.format \in Formats
        BY <4>1, SetupsAssumption DEF ProcessInv, Process
      <4> QED
        BY <4>1, <4>2, SuccessAssumption, NilOwesNothingEarly
    <3> QED
      BY <3>1, <3>2
  <2>2. ASSUME NEW o PROVE SuccessDone(o)' = SuccessDone(o) /\ Counted(o, "ok")' = Counted(o, "ok")
    <3>1. \A h \in BagToSet(accepted) : rest'[h] = rest[h]
      BY <1>1, HandlerStarts DEF ProcessInv
    <3>2. accepted' = accepted /\ counts' = counts
      BY <1>1, HandlerReceives
    <3> QED
      BY <3>1, <3>2 DEF SuccessDone, Counted
  <2> QED
    BY <2>1, <2>2 DEF SuccessInv, SuccessesCovered
<1>2. CASE StartUp \/ Die \/ UNCHANGED vars
  BY <1>2 DEF StartUp, Die, vars, SuccessInv, AnswerFirst, SuccessesCovered, SuccessDone, Counted
<1> QED
  BY <1>1, <1>2, SuccessMoves, StepCases DEF ProcessInv

LEMMA SuccessInit == Init => SuccessInv
<1> SUFFICES ASSUME Init PROVE SuccessInv
  OBVIOUS
<1>1. AnswerFirst
  BY DEF Init, AnswerFirst
<1>2. ASSUME NEW o PROVE Counted(o, "ok") = 0 /\ Cardinality(SuccessDone(o)) = 0
  <2>1. SuccessDone(o) = {}
    BY NoCopies DEF Init, SuccessDone
  <2> QED
    BY <2>1, NoCopies, FS_EmptySet DEF Init, Counted
<1> QED
  BY <1>1, <1>2 DEF SuccessInv, SuccessesCovered

\* At any moment the successes an output reports are at most the events its destination
\* accepted, whatever was refused or lost: each is counted behind an answer, by a
\* goroutine that has none left to count (the Stats of every output not in Optimistic).
THEOREM SuccessesWereAccepted == Spec => []OkMeansAccepted
<1>1. ProcessInv /\ SuccessInv => OkMeansAccepted
  <2> SUFFICES ASSUME ProcessInv, SuccessInv, NEW o \in DOMAIN keys \ Optimistic
               PROVE  Counted(o, "ok")
                        <= Cardinality({g \in BagToSet(accepted) : CountedFor(g[2]) = o})
    BY DEF OkMeansAccepted
  <2> DEFINE all == {g \in BagToSet(accepted) : CountedFor(g[2]) = o}
  <2>1. o \in Outputs
    BY SetupsAssumption DEF ProcessInv, Process
  <2>2. Counted(o, "ok") <= Cardinality(SuccessDone(o)) /\ Counted(o, "ok") \in Nat
    BY <2>1, CopiesAdd DEF SuccessInv, SuccessesCovered, Counted, ProcessInv, Statistics
  <2>3. IsFiniteSet(all) /\ Cardinality(all) \in Nat
    <3>1. all \subseteq DOMAIN rest /\ IsFiniteSet(DOMAIN rest)
      BY DEF ProcessInv, Goroutines
    <3> QED
      BY <3>1, FS_Subset, FS_CardinalityType
  <2>4. Cardinality(SuccessDone(o)) <= Cardinality(all)
    <3>1. SuccessDone(o) \subseteq all
      BY DEF SuccessDone
    <3> QED
      BY <2>3, <3>1, FS_Subset
  <2> HIDE DEF all
  <2>5. Counted(o, "ok") <= Cardinality(all)
    BY <2>2, <2>3, <2>4, SuccessDoneFinite
  <2> QED
    BY <2>5 DEF all
<1> QED
  BY <1>1, SuccessInit, SuccessNext, ProcessInvariant, PTL DEF Spec

-----------------------------------------------------------------------------
(* The statistics add up                                                     *)

\* The goroutines of output o that have none of these results left to count.
Done(o, results) == {g \in DOMAIN rest : g[2] = o /\ ~Owes(rest[g], results)}

NoMiscounting == DOMAIN keys \intersect Miscounting = {}

\* What has been counted for an output are the goroutines that are done counting it.
DoneCounted ==
  NoMiscounting =>
    \A o \in DOMAIN keys :
      /\ Counted(o, "total") = Cardinality(Done(o, {"total"}))
      /\ Counted(o, "ok") + Counted(o, "error") = Cardinality(Done(o, {"ok", "error"}))

LEMMA DoneFinite ==
  ASSUME ProcessInv, NEW o, NEW results
  PROVE  IsFiniteSet(Done(o, results)) /\ Cardinality(Done(o, results)) \in Nat
<1>1. Done(o, results) \subseteq DOMAIN rest
  BY DEF Done
<1>2. IsFiniteSet(DOMAIN rest)
  BY DEF ProcessInv, Goroutines
<1> QED
  BY <1>1, <1>2, FS_Subset, FS_CardinalityType

\* A goroutine that goes on is done with these results, or not, as before, or it has just
\* counted the last of them.
LEMMA DoneMoves ==
  ASSUME ProcessInv, NEW g \in DOMAIN rest, NEW q, rest' = [rest EXCEPT ![g] = q],
         NEW results
  PROVE  /\ \A o : o # g[2] => Done(o, results)' = Done(o, results)
         /\ (Owes(q, results) <=> Owes(rest[g], results)) =>
              \A o : Done(o, results)' = Done(o, results)
         /\ Owes(rest[g], results) /\ ~Owes(q, results) =>
              Cardinality(Done(g[2], results)') = Cardinality(Done(g[2], results)) + 1
<1>1. /\ DOMAIN rest' = DOMAIN rest /\ rest'[g] = q
      /\ \A h \in DOMAIN rest \ {g} : rest'[h] = rest[h]
  OBVIOUS
<1>2. ASSUME NEW o, o # g[2] \/ (Owes(q, results) <=> Owes(rest[g], results))
      PROVE  Done(o, results)' = Done(o, results)
  BY <1>1, <1>2 DEF Done
<1>3. ASSUME Owes(rest[g], results), ~Owes(q, results)
      PROVE  Cardinality(Done(g[2], results)') = Cardinality(Done(g[2], results)) + 1
  <2>1. Done(g[2], results)' = Done(g[2], results) \union {g} /\ g \notin Done(g[2], results)
    BY <1>1, <1>3 DEF Done
  <2> QED
    BY <2>1, DoneFinite, FS_AddElement
<1> QED
  BY <1>2, <1>3

\* What is left owes the same, except that what is counted is owed no more.
LEMMA CountsStep ==
  ASSUME NEW o \in Outputs \ Miscounting,
         NEW format \in Formats, NEW p \in Programs(o, format), p # <<>>
  PROVE  /\ CountsOnce(o, p)
         /\ Counts(Head(p), {"total"}) => OwesTotal(p)
         /\ Counts(Head(p), {"ok", "error"}) => OwesResult(p)
BY CountsAssumption, FirstStep DEF OwesTotal, OwesResult, Owes

LEMMA DoneCountedMoves ==
  ASSUME ProcessInv, DoneCounted, NEW g \in DOMAIN rest, NEW q, Moves(g, q)
  PROVE  DoneCounted'
<1> DEFINE p == rest[g]
           o == g[2]
<1>1. /\ p \in Programs(o, setup.format) /\ p # <<>> /\ q \in After(p)
      /\ o \in Outputs /\ o \in DOMAIN keys /\ setup.format \in Formats
      /\ rest' = [rest EXCEPT ![g] = q] /\ keys' = keys
  BY GoroutineType DEF Moves, Continues, ProcessInv, config
<1> SUFFICES ASSUME NoMiscounting
             PROVE  \A d \in DOMAIN keys :
                      /\ Counted(d, "total")' = Cardinality(Done(d, {"total"})')
                      /\ Counted(d, "ok")' + Counted(d, "error")'
                           = Cardinality(Done(d, {"ok", "error"})')
  BY <1>1 DEF DoneCounted, NoMiscounting
<1>2. /\ CountsOnce(o, p)
      /\ Counts(Head(p), {"total"}) => OwesTotal(p)
      /\ Counts(Head(p), {"ok", "error"}) => OwesResult(p)
  BY <1>1, CountsStep DEF NoMiscounting
<1>3. \A d \in DOMAIN keys :
        /\ Counted(d, "total") = Cardinality(Done(d, {"total"}))
        /\ Counted(d, "ok") + Counted(d, "error") = Cardinality(Done(d, {"ok", "error"}))
  BY DEF DoneCounted
<1>4. CASE Head(p).op # "count" /\ UNCHANGED counts
  <2>1. (OwesTotal(q) <=> OwesTotal(p)) /\ (OwesResult(q) <=> OwesResult(p))
    BY <1>1, <1>2, <1>4 DEF CountsOnce
  <2>2. \A d : Done(d, {"total"})' = Done(d, {"total"})
    BY <1>1, <2>1, DoneMoves DEF OwesTotal
  <2>3. \A d : Done(d, {"ok", "error"})' = Done(d, {"ok", "error"})
    BY <1>1, <2>1, DoneMoves DEF OwesResult
  <2>4. \A d : \A r : Counted(d, r)' = Counted(d, r)
    BY <1>4 DEF Counted
  <2> QED
    BY <1>3, <2>2, <2>3, <2>4
<1>5. ASSUME NEW r, Head(p).op = "count", Head(p).result = r, q = Tail(p),
             counts' = counts (+) SetToBag({<<Head(p).stat, Head(p).result>>})
      PROVE  /\ r \in {"total", "ok", "error"}
             /\ \A d : \A result : /\ Counted(d, result) \in Nat
                                   /\ d # o \/ result # r => Counted(d, result)' = Counted(d, result)
             /\ Counted(o, r)' = Counted(o, r) + 1
  <2>1. r \in {"total", "ok", "error"} /\ Head(p).stat = o
    BY <1>2, <1>5 DEF CountsOnce
  <2>2. counts' = counts (+) SetToBag({<<o, r>>})
    BY <1>5, <2>1
  <2> HIDE DEF o, p
  <2>3. \A d : \A result :
          /\ Counted(d, result) \in Nat
          /\ Counted(d, result)' = Counted(d, result) + (IF d = o /\ result = r THEN 1 ELSE 0)
    BY <2>2, CopiesAdd DEF Counted, ProcessInv, Statistics
  <2> QED
    BY <2>1, <2>3
<1>6. CASE /\ Head(p).op = "count" /\ Head(p).result = "total" /\ q = Tail(p)
           /\ counts' = counts (+) SetToBag({<<Head(p).stat, Head(p).result>>})
  <2>1. OwesTotal(p) /\ ~OwesTotal(q) /\ (OwesResult(q) <=> OwesResult(p))
    BY <1>2, <1>6 DEF CountsOnce, Counts
  <2>2. /\ \A d : d # o => Done(d, {"total"})' = Done(d, {"total"})
        /\ Cardinality(Done(o, {"total"})') = Cardinality(Done(o, {"total"})) + 1
    BY <1>1, <2>1, DoneMoves DEF OwesTotal
  <2>3. \A d : Done(d, {"ok", "error"})' = Done(d, {"ok", "error"})
    BY <1>1, <2>1, DoneMoves DEF OwesResult
  <2>4. /\ \A d : d # o => Counted(d, "total")' = Counted(d, "total")
        /\ Counted(o, "total")' = Counted(o, "total") + 1
        /\ \A d : Counted(d, "ok")' = Counted(d, "ok") /\ Counted(d, "error")' = Counted(d, "error")
    BY <1>5, <1>6
  <2> QED
    BY <1>3, <2>2, <2>3, <2>4
<1>7. CASE /\ Head(p).op = "count" /\ Head(p).result \in {"ok", "error"} /\ q = Tail(p)
           /\ counts' = counts (+) SetToBag({<<Head(p).stat, Head(p).result>>})
  <2>1. OwesResult(p) /\ ~OwesResult(q) /\ (OwesTotal(q) <=> OwesTotal(p))
    BY <1>2, <1>7 DEF CountsOnce, Counts
  <2>2. /\ \A d : d # o => Done(d, {"ok", "error"})' = Done(d, {"ok", "error"})
        /\ Cardinality(Done(o, {"ok", "error"})') = Cardinality(Done(o, {"ok", "error"})) + 1
    BY <1>1, <2>1, DoneMoves DEF OwesResult
  <2>3. \A d : Done(d, {"total"})' = Done(d, {"total"})
    BY <1>1, <2>1, DoneMoves DEF OwesTotal
  <2>4. \A d : /\ Counted(d, "total")' = Counted(d, "total")
               /\ Counted(d, "ok") \in Nat /\ Counted(d, "error") \in Nat
               /\ d # o => Counted(d, "ok")' = Counted(d, "ok") /\ Counted(d, "error")' = Counted(d, "error")
    BY <1>5, <1>7
  <2>5. Counted(o, "ok")' + Counted(o, "error")' = Counted(o, "ok") + Counted(o, "error") + 1
    <3>1. CASE Head(p).result = "ok"
      <4>1. Counted(o, "ok")' = Counted(o, "ok") + 1 /\ Counted(o, "error")' = Counted(o, "error")
        BY <1>5, <1>7, <3>1
      <4> QED
        BY <2>4, <4>1
    <3>2. CASE Head(p).result = "error"
      <4>1. Counted(o, "error")' = Counted(o, "error") + 1 /\ Counted(o, "ok")' = Counted(o, "ok")
        BY <1>5, <1>7, <3>2
      <4> QED
        BY <2>4, <4>1
    <3> QED
      BY <1>7, <3>1, <3>2
  <2>6. ASSUME NEW d \in DOMAIN keys
        PROVE  Counted(d, "ok")' + Counted(d, "error")' = Cardinality(Done(d, {"ok", "error"})')
    <3>1. CASE d = o
      BY <1>3, <2>2, <2>5, <3>1
    <3>2. CASE d # o
      BY <1>3, <2>2, <2>4, <3>2
    <3> QED
      BY <3>1, <3>2
  <2> QED
    BY <1>3, <2>3, <2>4, <2>6
<1> QED
  BY <1>2, <1>4, <1>6, <1>7 DEF Moves, CountsIt, CountsOnce

LEMMA DoneCountedNext ==
  ASSUME ProcessInv, DoneCounted, [Next]_vars
  PROVE  DoneCounted'
<1>1. ASSUME NEW e, MainHandler(e) PROVE DoneCounted'
  <2>1. keys' = keys /\ counts' = counts
    BY <1>1, HandlerReceives
  <2>2. ASSUME NEW o \in DOMAIN keys, NEW results \in {{"total"}, {"ok", "error"}}, NoMiscounting
        PROVE  Done(o, results)' = Done(o, results)
    <3>1. ASSUME NEW h \in DOMAIN rest' \ DOMAIN rest PROVE h \notin Done(o, results)'
      <4>1. /\ h[2] \in DOMAIN keys
            /\ rest'[h] = IF h[2] \in clients THEN Posts(setup.format)[h[2]] ELSE NilClient
        BY <1>1, HandlerStarts DEF ProcessInv
      <4>2. h[2] \in Outputs \ Miscounting /\ setup.format \in Formats
        BY <2>2, <4>1, SetupsAssumption DEF ProcessInv, Process, NoMiscounting
      <4>3. Owes(Posts(setup.format)[h[2]], results)
        BY <4>2, CountsAssumption DEF OwesTotal, OwesResult
      <4>4. Owes(NilClient, results)
        BY DEF Owes
      <4> QED
        BY <4>1, <4>3, <4>4 DEF Done
    <3>2. ASSUME NEW h \in DOMAIN rest PROVE h \in Done(o, results)' <=> h \in Done(o, results)
      BY <1>1, HandlerStarts DEF Done, ProcessInv
    <3> QED
      BY <3>1, <3>2 DEF Done
  <2> QED
    BY <2>1, <2>2 DEF DoneCounted, NoMiscounting, Counted
<1>2. CASE StartUp
  <2>1. DOMAIN keys' = DOMAIN keys /\ rest' = rest /\ counts' = counts
    BY <1>2 DEF StartUp
  <2> QED
    BY <2>1 DEF DoneCounted, NoMiscounting, Done, Counted
<1>3. CASE Die \/ UNCHANGED vars
  BY <1>3 DEF Die, vars, config, DoneCounted, NoMiscounting, Done, Counted
<1> QED
  BY <1>1, <1>2, <1>3, DoneCountedMoves, StepCases DEF ProcessInv

LEMMA DoneCountedInit == Init => DoneCounted
<1> SUFFICES ASSUME Init PROVE DoneCounted
  OBVIOUS
<1>1. ASSUME NEW o, NEW results PROVE Cardinality(Done(o, results)) = 0
  <2>1. Done(o, results) = {}
    BY DEF Init, Done
  <2> QED
    BY <2>1, FS_EmptySet
<1>2. \A o : \A r : Counted(o, r) = 0
  BY NoCopies DEF Init, Counted
<1> QED
  BY <1>1, <1>2 DEF DoneCounted

LEMMA IdleIsDone ==
  ASSUME ProcessInv, DoneCounted
  PROVE  OutputsAddUp
<1> SUFFICES ASSUME Idle, NoMiscounting, NEW o \in DOMAIN keys
             PROVE  /\ Counted(o, "total") = Cardinality(Started(o))
                    /\ Counted(o, "ok") + Counted(o, "error") = Counted(o, "total")
  BY DEF OutputsAddUp, NoMiscounting
<1>1. \A results : ~Owes(<<>>, results)
  <2>1. <<>> # NilClient /\ DOMAIN <<>> = {}
    BY DEF NilClient
  <2> QED
    BY <2>1 DEF Owes
<1>2. \A results : Done(o, results) = Started(o)
  BY <1>1 DEF Done, Started, Idle
<1> QED
  BY <1>2 DEF DoneCounted

\* Every request is counted once as accepted or as rejected, if its enrichment cannot panic.
LEMMA LabelsAgree ==
  ASSUME NEW c, NEW fields0, \A f \in K8sNames : fields0[f] # "number",
         (c.custom \union c.templated) \intersect DottedFields = {}, BadName \notin c.extra
  PROVE  ~EnrichmentPanics(c, fields0)
<1>1. \A f \in K8sNames : AddStrings(fields0, c.custom)[f] # "number"
  <2>1. K8sNames \subseteq Fields
    BY DEF K8sNames, Fields, DottedFields
  <2> QED
    BY <2>1 DEF AddStrings
<1>2. \A f : f \notin DottedFields => AsItIs(f) = Undotted(f)
  <2> SUFFICES ASSUME NEW f, f \notin DottedFields
               PROVE  [name |-> f, dots |-> f \in DottedFields] = [name |-> f, dots |-> FALSE]
    BY DEF AsItIs, Undotted
  <2>1. (f \in DottedFields) = FALSE
    OBVIOUS
  <2> QED
    BY <2>1, Zenon
<1>3. \A f : MatchesLabel(Undotted(f)) <=> f # BadName
  BY DEF Undotted, MatchesLabel
<1>4. {AsItIs(f) : f \in {f \in c.custom : MatchesLabel(AsItIs(f))}}
        = {Undotted(f) : f \in ValidNames(c.custom)}
  BY <1>2 DEF ValidNames
<1>5. {AsItIs(f) : f \in ValidNames(c.templated)} = {Undotted(f) : f \in ValidNames(c.templated)}
  BY <1>2 DEF ValidNames
<1>6. c.extra = ValidNames(c.extra)
  BY <1>3 DEF ValidNames
<1>7. ValidNames(c.custom \union c.templated \union c.extra)
        = ValidNames(c.custom) \union ValidNames(c.templated) \union ValidNames(c.extra)
  BY DEF ValidNames
<1>8. PromLabels(c) = LabelNames(c)
  BY <1>4, <1>5, <1>6, <1>7 DEF PromLabels, LabelNames
<1> QED
  BY <1>1, <1>8 DEF EnrichmentPanics

LEMMA RequestsNext ==
  ASSUME ProcessInv, RequestsAddUp, [Next]_vars
  PROVE  RequestsAddUp'
<1>1. ASSUME NEW e, MainHandler(e) PROVE RequestsAddUp'
  <2> SUFFICES ASSUME \A f \in K8sNames : setup.fields[f] # "number",
                      (setup.custom \union setup.templated) \intersect DottedFields = {},
                      BadName \notin setup.extra
               PROVE  RequestsCounted("total")'
                        = RequestsCounted("accepted")' + RequestsCounted("rejected")'
    BY <1>1, HandlerReceives DEF RequestsAddUp
  <2>1. RequestsCounted("total") = RequestsCounted("accepted") + RequestsCounted("rejected")
    BY DEF RequestsAddUp
  <2>2. Outcome \in {"accepted", "rejected"}
    BY LabelsAgree DEF Outcome
  <2> DEFINE results == {"total"} \union ({Outcome} \ {"panic"})
  <2>3. requests' = requests (+) SetToBag(results)
    BY <1>1, HandlerReceives
  <2>4. "total" \in results /\ ("accepted" \in results <=> "rejected" \notin results)
    BY <2>2
  <2> HIDE DEF results
  <2>5. \A r : /\ RequestsCounted(r) \in Nat
               /\ RequestsCounted(r)' = RequestsCounted(r) + (IF r \in results THEN 1 ELSE 0)
    BY <2>3, CopiesAdd DEF RequestsCounted, ProcessInv, Statistics
  <2> QED
    BY <2>1, <2>4, <2>5
<1>2. CASE setup' = setup /\ requests' = requests
  BY <1>2 DEF RequestsAddUp, RequestsCounted
<1>3. StartUp \/ Die \/ UNCHANGED vars => setup' = setup /\ requests' = requests
  BY DEF StartUp, Die, vars, config
<1>4. \A g \in DOMAIN rest : \A q : Moves(g, q) => setup' = setup /\ requests' = requests
  BY DEF Moves, Continues, config
<1> QED
  BY <1>1, <1>2, <1>3, <1>4, StepCases DEF ProcessInv

\* The statistics add up: every request is an accepted or a rejected one, and once the
\* Post functions have returned, every event an output was given is counted once in its
\* total and once as a success or an error. Meanwhile each count stands for the goroutines
\* that are done counting it, whatever the others do (stats.go, mainHandler, forwardEvent
\* and the Stats of every output that counts as the others do).
THEOREM StatisticsAddUp == Spec => []CountsAddUp
<1>1. Init => RequestsAddUp
  BY NoCopies DEF Init, RequestsAddUp, RequestsCounted
<1>2. ProcessInv /\ DoneCounted /\ RequestsAddUp => CountsAddUp
  BY IdleIsDone DEF CountsAddUp
<1> QED
  BY <1>1, <1>2, DoneCountedInit, DoneCountedNext, RequestsNext, ProcessInvariant, PTL DEF Spec

-----------------------------------------------------------------------------
(* The tags                                                                  *)

\* The tags of every event are sorted, so that no goroutine ever moves them.
TagsSorted ==
  /\ DOMAIN tags = DOMAIN fields
  /\ \A e \in DOMAIN tags : tags[e] = SortStrings(setup.tags)
  /\ moving = {} /\ garbled = {}

LEMMA SortedAgain ==
  ASSUME ProcessInv, TagsSorted, NEW g \in DOMAIN rest
  PROVE  g[1] \in DOMAIN tags /\ SortStrings(tags[g[1]]) = tags[g[1]]
<1>1. g[1] \in DOMAIN tags /\ setup \in Setups
  BY DEF ProcessInv, Process, Goroutines, TagsSorted
<1> QED
  BY <1>1, SortAssumption DEF TagsSorted

LEMMA TagsNext ==
  ASSUME ProcessInv, TagsSorted, [Next]_vars
  PROVE  TagsSorted'
<1>1. ASSUME UNCHANGED <<setup, tags, moving, garbled>>, DOMAIN fields' = DOMAIN fields
      PROVE  TagsSorted'
  BY <1>1 DEF TagsSorted
<1>2. CASE StartUp \/ UNCHANGED vars
  BY <1>1, <1>2 DEF StartUp, vars, config, shared
<1>3. ASSUME NEW e, MainHandler(e) PROVE TagsSorted'
  <2>1. /\ tags' = Extended(tags, [new \in {e} |-> SortStrings(setup.tags)])
        /\ setup' = setup /\ moving' = moving /\ garbled' = garbled
    BY <1>3 DEF MainHandler, TagsOf, config
  <2>2. DOMAIN tags' = DOMAIN fields'
    BY <1>3, <2>1, HandlerReceives DEF Extended, TagsSorted
  <2>3. \A d \in DOMAIN tags' : tags'[d] = SortStrings(setup.tags)
    BY <2>1 DEF Extended, TagsSorted
  <2> QED
    BY <2>1, <2>2, <2>3 DEF TagsSorted
<1>4. ASSUME NEW g \in DOMAIN rest, Run(g) PROVE TagsSorted'
  <2> USE DEF config, shared
  <2>1. CASE BeginSort(g)
    <3>1. moving' = {} /\ garbled' = {}
      BY <2>1, SortedAgain DEF BeginSort, TagsSorted, Others
    <3> QED
      BY <2>1, <3>1 DEF BeginSort, TagsSorted
  <2>2. CASE EndSort(g)
    <3>1. tags' = [tags EXCEPT ![g[1]] = SortStrings(tags[g[1]])]
      BY <2>2 DEF EndSort
    <3>2. DOMAIN tags' = DOMAIN tags /\ \A e \in DOMAIN tags : tags'[e] = tags[e]
      BY <3>1, SortedAgain
    <3> QED
      BY <2>2, <3>2 DEF EndSort, TagsSorted
  <2>3. CASE TagsRead(g)
    BY <2>3 DEF TagsRead, TagsSorted, Others
  <2>4. CASE CountMetric(g) \/ Prepared(g) \/ SendRequest(g) \/ Answered(g)
    BY <1>1, <2>4 DEF CountMetric, Prepared, SendRequest, Answered
  <2>5. CASE ReadFields(g)
    BY <1>1, <2>5 DEF ReadFields
  <2>6. CASE Panic(g) \/ BeginWrite(g)
    BY <1>1, <2>6 DEF Panic, Die, BeginWrite
  <2>7. CASE WriteFields(g)
    BY <1>1, <2>7 DEF WriteFields
  <2> QED
    BY <1>4, <2>1, <2>2, <2>3, <2>4, <2>5, <2>6, <2>7 DEF Run
<1> QED
  BY <1>2, <1>3, <1>4 DEF Next

\* No goroutine reads the tags of an event while another moves them, although twelve
\* outputs sort the shared array in place: newFalcoPayload has sorted it, and a sorted
\* array is left alone (handlers.go, sort.Strings in the outputs).
THEOREM TagsNeverMoved == Spec => []TagsIntact
<1>1. Init => TagsSorted
  BY DEF Init, TagsSorted
<1>2. TagsSorted => TagsIntact
  BY DEF TagsSorted, TagsIntact
<1> QED
  BY <1>1, <1>2, TagsNext, ProcessInvariant, PTL DEF Spec

-----------------------------------------------------------------------------
(* What ends the process                                                     *)

LEMMA NamesFinite == IsFiniteSet(Names)
<1>1. \A S : \A x : IsFiniteSet(S) => IsFiniteSet(S \union {x})
  BY FS_AddElement
<1> DEFINE few == {"container.id"} \union {"span.id"} \union {"evt.time"} \union {"proc.pid"}
           more == few \union {"proc.cmdline"} \union {"k8s.ns.name"} \union {"k8s.pod.name"}
                     \union {"n_drops"}
<1>2. IsFiniteSet({"container.id"})
  BY FS_Singleton
<1>3. IsFiniteSet(few)
  BY <1>1, <1>2
<1>4. IsFiniteSet(more)
  <2> HIDE DEF few
  <2> QED
    BY <1>1, <1>3
<1>5. IsFiniteSet(more \union {"hostname"} \union {BadName})
  <2> HIDE DEF more
  <2> QED
    BY <1>1, <1>4
<1>6. Names = more \union {"hostname"} \union {BadName}
  BY DEF Names, Fields, DottedFields
<1> QED
  BY <1>5, <1>6

\* As many labels as names.
LEMMA UndottedCardinality ==
  ASSUME NEW S, IsFiniteSet(S)
  PROVE  Cardinality({Undotted(f) : f \in S}) = Cardinality(S)
<1> DEFINE labels == {Undotted(f) : f \in S}
           label == [f \in S |-> Undotted(f)]
<1>1. label \in Surjection(S, labels)
  BY DEF Surjection
<1>2. \A f : Undotted(f).name = f
  BY DEF Undotted
<1>3. label \in Injection(S, labels)
  <2>1. \A f, g \in S : label[f] = label[g] => f = g
    <3> HIDE DEF Undotted
    <3> QED
      BY <1>2
  <2>2. label \in [S -> labels]
    BY DEF Undotted
  <2> HIDE DEF label, labels
  <2> QED
    BY <2>1, <2>2 DEF Injection, IsInjective
<1> HIDE DEF label, labels
<1>4. Cardinality(labels) = Cardinality(S)
  BY <1>1, <1>3, FS_Surjection
<1> QED
  BY <1>4 DEF labels

LEMMA DisjointUnion ==
  ASSUME NEW S, NEW T, IsFiniteSet(S), IsFiniteSet(T), S \intersect T = {}
  PROVE  /\ IsFiniteSet(S \union T)
         /\ Cardinality(S \union T) = Cardinality(S) + Cardinality(T)
<1>1. /\ IsFiniteSet(S \union T)
      /\ Cardinality(S \union T) = Cardinality(S) + Cardinality(T) - Cardinality(S \intersect T)
  BY FS_Union
<1>2. Cardinality(S) \in Nat /\ Cardinality(T) \in Nat /\ Cardinality(S \intersect T) = 0
  BY FS_CardinalityType, FS_EmptySet
<1> QED
  BY <1>1, <1>2

\* The names of a configuration that meet: only then is a label named twice.
NamesMeet(c) ==
  \E f \in Names :
    \/ f \in {"hostname"} \union K8sNames /\ f \in c.custom \union c.templated \union c.extra
    \/ f \in c.custom \intersect c.templated
    \/ f \in (c.custom \union c.templated) \intersect c.extra

LEMMA NamedTwiceMeets ==
  ASSUME NEW c, c.custom \union c.templated \union c.extra \subseteq Names, NamedTwice(c)
  PROVE  NamesMeet(c)
<1> SUFFICES ASSUME ~NamesMeet(c) PROVE FALSE
  OBVIOUS
<1>1. PICK B, C, T, X : /\ B = {"hostname"} \union K8sNames
                       /\ C = ValidNames(c.custom) /\ T = ValidNames(c.templated)
                       /\ X = ValidNames(c.extra)
  OBVIOUS
<1>2. /\ IsFiniteSet(C) /\ IsFiniteSet(T) /\ IsFiniteSet(X)
      /\ C \intersect T = {} /\ (C \union T) \intersect X = {}
      /\ B \intersect (C \union T \union X) = {}
  <2>1. C \subseteq c.custom /\ T \subseteq c.templated /\ X \subseteq c.extra
    BY <1>1 DEF ValidNames
  <2>2. C \subseteq Names /\ T \subseteq Names /\ X \subseteq Names
    BY <2>1
  <2> QED
    BY <1>1, <2>1, <2>2, NamesFinite, FS_Subset DEF NamesMeet
<1>3. /\ IsFiniteSet(C \union T \union X)
      /\ Cardinality(C \union T \union X) = Cardinality(C) + Cardinality(T) + Cardinality(X)
  <2>1. IsFiniteSet(C \union T) /\ Cardinality(C \union T) = Cardinality(C) + Cardinality(T)
    BY <1>2, DisjointUnion
  <2>2. /\ IsFiniteSet((C \union T) \union X)
        /\ Cardinality((C \union T) \union X) = Cardinality(C \union T) + Cardinality(X)
    BY <1>2, <2>1, DisjointUnion
  <2> QED
    BY <2>1, <2>2
<1>4. IsFiniteSet(B) /\ Cardinality(B) \in Nat
  <2>1. \A S : \A x : IsFiniteSet(S) => IsFiniteSet(S \union {x})
    BY FS_AddElement
  <2>2. IsFiniteSet({"hostname"} \union {"k8s.ns.name"} \union {"k8s.pod.name"})
    BY <2>1, FS_Singleton
  <2>3. B = {"hostname"} \union {"k8s.ns.name"} \union {"k8s.pod.name"}
    BY <1>1 DEF K8sNames
  <2>4. IsFiniteSet(B)
    BY <2>2, <2>3
  <2> QED
    BY <2>4, FS_CardinalityType
<1>5. /\ IsFiniteSet(B \union (C \union T \union X))
      /\ Cardinality(B \union (C \union T \union X))
           = Cardinality(B) + Cardinality(C \union T \union X)
  BY <1>2, <1>3, <1>4, DisjointUnion
<1>6. LabelNames(c) = {Undotted(f) : f \in B \union (C \union T \union X)}
  <2>1. ValidNames(c.custom \union c.templated \union c.extra) = C \union T \union X
    BY <1>1 DEF ValidNames
  <2>2. LabelNames(c) = {Undotted(f) : f \in B} \union {Undotted(f) : f \in C \union T \union X}
    BY <1>1, <2>1 DEF LabelNames, BuiltIn
  <2> QED
    BY <2>2
<1>7. Cardinality(LabelNames(c)) = Cardinality(B) + Cardinality(C \union T \union X)
  BY <1>5, <1>6, UndottedCardinality
<1>8. Cardinality(BuiltIn) = Cardinality(B)
  BY <1>1, <1>4, UndottedCardinality DEF BuiltIn
<1>9. Cardinality(C) \in Nat /\ Cardinality(T) \in Nat /\ Cardinality(X) \in Nat
  BY <1>2, FS_CardinalityType
<1>10. Cardinality(LabelNames(c))
         < Cardinality(BuiltIn) + Cardinality(C) + Cardinality(T) + Cardinality(X)
  BY <1>1 DEF NamedTwice
<1> QED
  BY <1>3, <1>4, <1>7, <1>8, <1>9, <1>10

\* An output that writes to the map of fields, and another one that may read it.
Disturbed ==
  DOMAIN setup.keys \intersect Writers # {} /\ Cardinality(DOMAIN setup.keys) > 1

\* What ends the process, as ProcessSurvives has it.
Reasons ==
  \/ \E o \in DOMAIN setup.keys : ~(Clients[o].needs \subseteq setup.keys[o])
  \/ \E o \in DOMAIN setup.keys : Clients[o].onError \in {"panics", "exits"} /\ rest = <<>>
  \/ rest = <<>> /\ NamesMeet(setup)
  \/ DOMAIN setup.keys \intersect Asserting # {}
  \/ "Fission" \in DOMAIN setup.keys /\ setup.format = "default"
  \/ Disturbed

\* An output that has no client keeps its keys only if some it needs are not given, and
\* only such an output has goroutines with a nil client.
NoClient ==
  /\ phase = "starting" => keys = setup.keys
  /\ phase = "serving" => \A o \in DOMAIN keys \ clients :
       keys[o] = {} \/ ~(Clients[o].needs \subseteq setup.keys[o])
  /\ \A g \in DOMAIN rest :
       rest[g] = NilClient => ~(Clients[g[2]].needs \subseteq setup.keys[g[2]])

\* Only writers are in the middle of a write.
OnlyWriters == \A g \in writing : g \in DOMAIN rest /\ g[2] \in Writers

\* The keys a goroutine has collected still hold strings, unless it writes itself.
KeysHold ==
  ~Disturbed => \A g \in DOMAIN rest : g[2] \notin Writers => snapshot[g] \subseteq Strings(g)

SurvivalInv ==
  /\ NoClient
  /\ OnlyWriters
  /\ KeysHold
  /\ phase = "dead" => Reasons

\* A writer and another goroutine of the same event belong to two outputs: no writer has
\* more than one client.
LEMMA WriterDisturbs ==
  ASSUME ProcessInv, NEW g \in DOMAIN rest, NEW h \in DOMAIN rest,
         g # h, g[1] = h[1], h[2] \in Writers
  PROVE  Disturbed
<1>1. /\ g[2] \in DOMAIN setup.keys /\ h[2] \in DOMAIN setup.keys /\ g[2] # h[2]
      /\ IsFiniteSet(DOMAIN setup.keys)
  <2>1. /\ g = <<g[1], g[2], g[3]>> /\ h = <<h[1], h[2], h[3]>>
        /\ h[2] # "Alertmanager" /\ h[3] = 1
        /\ g[2] # "Alertmanager" => g[3] = 1
    BY DEF ProcessInv, Goroutines, Writers
  <2>2. g[2] # h[2]
    BY <2>1
  <2> QED
    BY <2>2, SetupsAssumption DEF ProcessInv, Process, Goroutines
<1>2. PICK D : D = DOMAIN setup.keys
  OBVIOUS
<1>3. /\ IsFiniteSet(D \ {g[2]}) /\ Cardinality(D \ {g[2]}) = Cardinality(D) - 1
      /\ h[2] \in D \ {g[2]}
  BY <1>1, <1>2, FS_RemoveElement
<1>4. Cardinality(D) \in Nat /\ Cardinality(D \ {g[2]}) \in Nat /\ Cardinality(D \ {g[2]}) # 0
  BY <1>1, <1>2, <1>3, FS_CardinalityType, FS_EmptySet
<1>5. Cardinality(D) > 1
  BY <1>3, <1>4
<1> QED
  BY <1>1, <1>2, <1>5 DEF Disturbed

LEMMA StartUpSurvival ==
  ASSUME ProcessInv, SurvivalInv, StartUp
  PROVE  SurvivalInv'
<1> DEFINE wanted == {o \in DOMAIN keys : Clients[o].needs \subseteq keys[o]}
<1>1. PICK failing \in SUBSET {o \in wanted : Clients[o].onError # "none"} :
        /\ clients' = wanted \ failing
        /\ keys' = [o \in DOMAIN keys |-> IF o \in failing THEN {} ELSE keys[o]]
        /\ phase' = IF \/ NamedTwice(setup)
                       \/ \E o \in failing : Clients[o].onError # "cleared"
                    THEN "dead" ELSE "serving"
  BY DEF StartUp
<1>2. /\ phase = "starting" /\ rest = <<>> /\ keys = setup.keys /\ setup \in Setups
      /\ UNCHANGED <<setup, rest, writing, snapshot, fields>>
  BY DEF StartUp, shared, ProcessInv, Process, SurvivalInv, NoClient
<1>3. NoClient'
  <2>1. ASSUME NEW o \in DOMAIN keys' \ clients'
        PROVE  keys'[o] = {} \/ ~(Clients[o].needs \subseteq setup.keys[o])
    BY <1>1, <1>2, <2>1
  <2> QED
    BY <1>1, <1>2, <2>1 DEF NoClient
<1>4. OnlyWriters' /\ KeysHold'
  BY <1>2 DEF SurvivalInv, OnlyWriters, KeysHold, Disturbed, Strings
<1>5. ASSUME phase' = "dead" PROVE Reasons'
  <2>1. CASE NamedTwice(setup)
    <3>1. NamesMeet(setup)
      BY <1>2, <2>1, SetupsAssumption, NamedTwiceMeets
    <3> QED
      BY <1>2, <3>1 DEF Reasons, NamesMeet
  <2>2. CASE \E o \in failing : Clients[o].onError # "cleared"
    <3>1. PICK o \in failing : Clients[o].onError # "cleared"
      BY <2>2
    <3>2. o \in DOMAIN setup.keys /\ o \in Outputs /\ Clients[o].onError # "none"
      BY <1>2, SetupsAssumption
    <3>3. Clients[o].onError \in {"panics", "exits"}
      BY <3>1, <3>2, ClientsAssumption
    <3> QED
      BY <1>2, <3>2, <3>3 DEF Reasons
  <2> QED
    BY <1>1, <1>5, <2>1, <2>2
<1> QED
  BY <1>3, <1>4, <1>5 DEF SurvivalInv

LEMMA HandlerSurvival ==
  ASSUME ProcessInv, SurvivalInv, NEW e, MainHandler(e)
  PROVE  SurvivalInv'
<1>1. /\ setup' = setup /\ keys' = keys /\ clients' = clients /\ phase' = phase
      /\ phase = "serving" /\ writing' = writing
      /\ \A d \in DOMAIN fields : d \in DOMAIN fields' /\ fields'[d] = fields[d]
  BY DEF MainHandler, config, Extended
<1>2. NoClient'
  <2>1. ASSUME NEW g \in DOMAIN rest', rest'[g] = NilClient
        PROVE  ~(Clients[g[2]].needs \subseteq setup.keys[g[2]])
    <3>1. CASE g \in DOMAIN rest
      BY <2>1, <3>1, HandlerStarts DEF ProcessInv, SurvivalInv, NoClient
    <3>2. CASE g \notin DOMAIN rest
      <4>1. /\ g[2] \in DOMAIN keys /\ Clients[g[2]].forwards \subseteq keys[g[2]]
            /\ rest'[g] = IF g[2] \in clients THEN Posts(setup.format)[g[2]] ELSE NilClient
        BY <3>2, HandlerStarts DEF ProcessInv, ForwardTo
      <4>2. g[2] \in Outputs /\ setup.format \in Formats
        BY <4>1, SetupsAssumption DEF ProcessInv, Process
      <4>3. Posts(setup.format)[g[2]] # NilClient
        BY <4>2, ProgramsAssumption, NilFirst
      <4>4. g[2] \notin clients /\ keys[g[2]] # {}
        BY <2>1, <4>1, <4>2, <4>3, ClientsAssumption
      <4> QED
        BY <1>1, <4>1, <4>4 DEF SurvivalInv, NoClient
    <3> QED
      BY <3>1, <3>2
  <2> QED
    BY <1>1, <2>1 DEF SurvivalInv, NoClient
<1>3. OnlyWriters'
  BY <1>1, HandlerStarts DEF ProcessInv, SurvivalInv, OnlyWriters
<1>4. KeysHold'
  <2> SUFFICES ASSUME ~Disturbed, NEW g \in DOMAIN rest', g[2] \notin Writers
               PROVE  snapshot'[g] \subseteq Strings(g)'
    BY <1>1 DEF KeysHold, Disturbed
  <2>1. CASE g \in DOMAIN rest
    <3>1. snapshot'[g] = snapshot[g] /\ g[1] \in DOMAIN fields
      BY <2>1, HandlerStarts, GoroutineType DEF ProcessInv
    <3>2. snapshot[g] \subseteq Strings(g)
      BY <2>1 DEF SurvivalInv, KeysHold
    <3> QED
      BY <1>1, <3>1, <3>2 DEF Strings
  <2>2. CASE g \notin DOMAIN rest
    BY <2>2, HandlerStarts DEF ProcessInv
  <2> QED
    BY <2>1, <2>2
<1> QED
  BY <1>1, <1>2, <1>3, <1>4 DEF SurvivalInv

\* Every panic has one of the reasons.
LEMMA PanicHasReason ==
  ASSUME ProcessInv, SurvivalInv, NEW g \in DOMAIN rest, Panic(g)
  PROVE  Reasons
<1>1. /\ g[2] \in Outputs /\ g[2] \in DOMAIN setup.keys /\ setup.format \in Formats
      /\ rest[g] \in Programs(g[2], setup.format) \union {NilClient}
  BY GoroutineType DEF ProcessInv, Process
<1>2. CASE At(g, "nil client")
  <2>1. rest[g] = NilClient
    BY <1>1, <1>2, ProgramsAssumption DEF At
  <2> QED
    BY <1>1, <2>1 DEF Reasons, SurvivalInv, NoClient
<1>3. CASE At(g, "assert")
  <2>1. rest[g] \in Programs(g[2], setup.format) /\ rest[g] # <<>> /\ Head(rest[g]).op = "assert"
    BY <1>1, <1>3, NilFirst DEF At
  <2>2. g[2] \in Asserting
    BY <1>1, <2>1, PanicsAssumption
  <2> QED
    BY <1>1, <2>2 DEF Reasons
<1>4. CASE At(g, "look up") /\ ~(snapshot[g] \subseteq Strings(g))
  <2>1. rest[g] \in Programs(g[2], setup.format) /\ rest[g] # <<>> /\ Head(rest[g]).op = "look up"
    BY <1>1, <1>4, NilFirst DEF At
  <2>2. g[2] \notin Writers
    BY <1>1, <2>1, PanicsAssumption
  <2> QED
    BY <1>4, <2>2 DEF Reasons, SurvivalInv, KeysHold
<1>5. CASE Others(g, writing) # {}
  <2>1. PICK h \in writing : h[1] = g[1] /\ h # g
    BY <1>5 DEF Others
  <2>2. h \in DOMAIN rest /\ h[2] \in Writers
    BY DEF SurvivalInv, OnlyWriters
  <2> QED
    BY <2>1, <2>2, WriterDisturbs DEF Reasons
<1>6. CASE At(g, "nil metrics")
  <2>1. /\ rest[g] \in Programs(g[2], setup.format) /\ rest[g] # <<>>
        /\ Head(rest[g]).op = "nil metrics"
    BY <1>1, <1>6, NilFirst DEF At
  <2>2. g[2] = "Fission" /\ setup.format = "default"
    BY <1>1, <2>1, PanicsAssumption
  <2> QED
    BY <1>1, <2>2 DEF Reasons
<1> QED
  BY <1>2, <1>3, <1>4, <1>5, <1>6 DEF Panic

\* A goroutine that goes on without touching the map of fields.
LEMMA StepSurvival ==
  ASSUME ProcessInv, SurvivalInv, NEW g \in DOMAIN rest, NEW q, Moves(g, q)
  PROVE  /\ NoClient'
         /\ phase' = "serving" /\ setup' = setup /\ DOMAIN rest' = DOMAIN rest
         /\ writing' = writing => OnlyWriters'
         /\ fields' = fields /\ snapshot' = snapshot => KeysHold'
<1>1. /\ phase' = "serving" /\ phase = "serving" /\ setup' = setup /\ keys' = keys
      /\ clients' = clients /\ rest' = [rest EXCEPT ![g] = q] /\ DOMAIN rest' = DOMAIN rest
  BY DEF Moves, Continues, config
<1>2. q # NilClient
  <2>1. q \in Programs(g[2], setup.format) /\ g[2] \in Outputs /\ setup.format \in Formats
    BY GoroutineType, ProgramsAssumption DEF Moves, Continues, ProcessInv
  <2> QED
    BY <2>1, ProgramsAssumption, NilFirst
<1>3. NoClient'
  BY <1>1, <1>2 DEF SurvivalInv, NoClient
<1>4. writing' = writing => OnlyWriters'
  BY <1>1 DEF SurvivalInv, OnlyWriters
<1>5. fields' = fields /\ snapshot' = snapshot => KeysHold'
  BY <1>1 DEF SurvivalInv, KeysHold, Disturbed, Strings
<1> QED
  BY <1>1, <1>3, <1>4, <1>5

LEMMA RunSurvival ==
  ASSUME ProcessInv, SurvivalInv, NEW g \in DOMAIN rest, Run(g)
  PROVE  SurvivalInv'
<1> USE DEF config, shared
<1>1. CASE Panic(g)
  <2>1. Reasons
    BY <1>1, PanicHasReason
  <2>2. phase' = "dead" /\ UNCHANGED <<setup, keys, clients, fields, writing, rest, snapshot>>
    BY <1>1 DEF Panic, Die
  <2>3. Reasons'
    BY <2>1, <2>2 DEF Reasons, Disturbed
  <2>4. NoClient' /\ OnlyWriters' /\ KeysHold'
    BY <2>2 DEF SurvivalInv, NoClient, OnlyWriters, KeysHold, Disturbed, Strings
  <2> QED
    BY <2>3, <2>4 DEF SurvivalInv
<1>2. ASSUME ~Panic(g) PROVE SurvivalInv'
  <2>1. PICK q : Moves(g, q)
    BY <1>2, RunMoves DEF ProcessInv
  <2>2. /\ NoClient'
        /\ phase' = "serving" /\ setup' = setup /\ DOMAIN rest' = DOMAIN rest
        /\ writing' = writing => OnlyWriters'
        /\ fields' = fields /\ snapshot' = snapshot => KeysHold'
    BY <2>1, StepSurvival
  <2>3. OnlyWriters /\ (~Disturbed => \A h \in DOMAIN rest :
                          h[2] \notin Writers => snapshot[h] \subseteq Strings(h))
    BY DEF SurvivalInv, KeysHold
  <2>4. ASSUME At(g, "begin write") \/ At(g, "write") PROVE g[2] \in Writers
    <3>1. /\ g[2] \in Outputs /\ setup.format \in Formats
          /\ rest[g] \in Programs(g[2], setup.format) /\ rest[g] # <<>>
      BY <2>1, GoroutineType DEF Moves, Continues, ProcessInv
    <3> QED
      BY <2>4, <3>1, PanicsAssumption DEF At
  <2>5. OnlyWriters'
    <3>1. CASE BeginWrite(g)
      BY <2>2, <2>3, <2>4, <3>1 DEF BeginWrite, OnlyWriters
    <3>2. CASE WriteFields(g)
      BY <2>2, <2>3, <3>2 DEF WriteFields, OnlyWriters
    <3>3. ASSUME ~BeginWrite(g), ~WriteFields(g) PROVE writing' = writing
      BY <1>2, <3>3 DEF Run, CountMetric, ReadFields, BeginSort, EndSort, TagsRead, Prepared,
                        SendRequest, Answered
    <3> QED
      BY <2>2, <3>1, <3>2, <3>3
  <2>6. KeysHold'
    <3>1. CASE WriteFields(g)
      <4>1. /\ g[2] \in Writers /\ snapshot' = snapshot
            /\ \A e \in DOMAIN fields \ {g[1]} : fields'[e] = fields[e]
        BY <2>4, <3>1 DEF WriteFields
      <4>2. ASSUME ~Disturbed, NEW h \in DOMAIN rest, h[2] \notin Writers
            PROVE  snapshot'[h] \subseteq Strings(h)'
        <5>1. h # g /\ h[1] # g[1] /\ h[1] \in DOMAIN fields
          BY <4>1, <4>2, WriterDisturbs, GoroutineType DEF ProcessInv
        <5>2. fields'[h[1]] = fields[h[1]]
          BY <4>1, <5>1
        <5> QED
          BY <2>3, <4>1, <4>2, <5>2 DEF Strings
      <4> QED
        BY <2>2, <4>2 DEF KeysHold, Disturbed
    <3>2. CASE At(g, "keys") /\ snapshot' = [snapshot EXCEPT ![g] = Strings(g)] /\ fields' = fields
      <4>1. ASSUME ~Disturbed, NEW h \in DOMAIN rest, h[2] \notin Writers
            PROVE  snapshot'[h] \subseteq Strings(h)'
        <5>1. h \in DOMAIN snapshot /\ g \in DOMAIN snapshot
          BY DEF ProcessInv, Goroutines
        <5> QED
          BY <2>3, <3>2, <4>1, <5>1 DEF Strings
      <4> QED
        BY <2>2, <4>1 DEF KeysHold, Disturbed
    <3>3. ASSUME ~WriteFields(g), ~ReadFields(g) PROVE fields' = fields /\ snapshot' = snapshot
      BY <1>2, <3>3 DEF Run, CountMetric, BeginWrite, BeginSort, EndSort, TagsRead, Prepared,
                        SendRequest, Answered
    <3>4. CASE ReadFields(g)
      BY <2>2, <3>2, <3>4 DEF ReadFields
    <3> QED
      BY <2>2, <3>1, <3>3, <3>4
  <2> QED
    BY <2>2, <2>5, <2>6 DEF SurvivalInv
<1> QED
  BY <1>1, <1>2

LEMMA SurvivalNext ==
  ASSUME ProcessInv, SurvivalInv, [Next]_vars
  PROVE  SurvivalInv'
<1>1. CASE UNCHANGED vars
  BY <1>1 DEF vars, config, shared, SurvivalInv, NoClient, OnlyWriters, KeysHold, Disturbed,
              Strings, Reasons
<1> QED
  BY <1>1, StartUpSurvival, HandlerSurvival, RunSurvival DEF Next

LEMMA SurvivalInit == Init => SurvivalInv
BY DEF Init, SurvivalInv, NoClient, OnlyWriters, KeysHold

\* The process ends for the reasons named and no other: keys that are not all given, a
\* client whose failure is fatal or a label named twice at the start, an asserted type,
\* Fission without a kubeconfig, or a writer of the shared map beside another output
\* (main.go, handlers.go, stats_prometheus.go and the Post functions). No failure of a
\* request and no other interleaving ends it.
THEOREM ProcessEndsForReason == Spec => []ProcessSurvives
<1>1. SurvivalInv => ProcessSurvives
  BY DEF SurvivalInv, ProcessSurvives, Reasons, NamesMeet, Disturbed
<1> QED
  BY <1>1, SurvivalInit, SurvivalNext, ProcessInvariant, PTL DEF Spec

=============================================================================
