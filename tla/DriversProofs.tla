---------------------------- MODULE DriversProofs ----------------------------
(***************************************************************************)
(* Proofs about the enricher and the drivers of the new pipeline, for      *)
(* every set of fields and configuration, every batch, any hosts and any   *)
(* number of attempts: in which order the maps are iterated does not       *)
(* matter, what is counted as sent was taken, and nothing is taken twice   *)
(* that was answered for.                                                  *)
(***************************************************************************)
EXTENDS Drivers, TLAPS

-----------------------------------------------------------------------------
(* The enricher. What the fields are at each step does not depend on the   *)
(* order of the steps before.                                              *)

Stages == {"custom", "templated", "brackets", "truncate", "enriched"}

EnricherTypeOK ==
  /\ cfg \in EnricherSetups
  /\ stage \in Stages
  /\ todo \subseteq DOMAIN cfg.templated
  /\ stage = "custom" => fields = cfg.given /\ todo = DOMAIN cfg.templated
  /\ stage # "custom" => DOMAIN fields = FieldNames

\* While templates are evaluated, those that are done have seen no value but the one the
\* field had before.
EvaluatesAlike ==
  ~RefersToTemplated =>
    /\ stage = "templated" =>
         \A f \in FieldNames : fields[f] = IF f \in todo THEN Base(f) ELSE Templated(f)
    /\ stage = "brackets" => \A f \in FieldNames : fields[f] = Templated(f)

\* The fields under their new names.
RenamesAlike ==
  stage = "truncate" /\ ~RefersToTemplated /\ ~FallTogether =>
    IF cfg.brackets
    THEN /\ \A f \in FieldNames : Templated(f) # Absent => fields[Replaced[f]] = Templated(f)
         /\ \A f \in FieldNames : Replaced[f] # f => fields[f] = Absent
    ELSE \A f \in FieldNames : fields[f] = Templated(f)

EnricherInv == EnricherTypeOK /\ EvaluatesAlike /\ RenamesAlike /\ EnrichedAlike

LEMMA EnricherInitInv == EnricherInit => EnricherInv
BY DEF EnricherInit, EnricherInv, EnricherTypeOK, EvaluatesAlike, RenamesAlike,
       EnrichedAlike, Stages

\* What an event should become depends on the configuration only.
LEMMA ConfigurationDecides ==
  ASSUME cfg' = cfg
  PROVE  /\ RefersToTemplated' <=> RefersToTemplated
         /\ FallTogether' <=> FallTogether
         /\ \A f \in FieldNames : Base(f)' = Base(f) /\ Templated(f)' = Templated(f)
BY DEF RefersToTemplated, FallTogether, Base, FailsOnBase, Templated

LEMMA CustomKeepsInv ==
  ASSUME EnricherInv, InjectCustomFields
  PROVE  EnricherInv'
<1>1. /\ stage = "custom" /\ stage' = "templated" /\ cfg' = cfg /\ todo' = todo
      /\ fields = cfg.given /\ todo = DOMAIN cfg.templated
      /\ fields' = [f \in FieldNames |-> IF f \in cfg.custom THEN Custom ELSE fields[f]]
  BY DEF InjectCustomFields, EnricherInv, EnricherTypeOK
<1>2. EnricherTypeOK'
  BY <1>1 DEF EnricherInv, EnricherTypeOK, Stages
<1>3. \A f \in FieldNames : fields'[f] = Base(f)
  BY <1>1 DEF Base
<1>4. \A f \in FieldNames : f \notin todo => Base(f) = Templated(f)
  BY <1>1 DEF Templated
<1>5. EvaluatesAlike'
  BY <1>1, <1>3, <1>4, ConfigurationDecides DEF EvaluatesAlike
<1> QED
  BY <1>1, <1>2, <1>5 DEF EnricherInv, RenamesAlike, EnrichedAlike

LEMMA EvaluateKeepsInv ==
  ASSUME EnricherInv, NEW t \in todo, EvaluateTemplatedField(t)
  PROVE  EnricherInv'
<1> DEFINE u == cfg.templated[t]
<1>1. /\ stage = "templated" /\ stage' = stage /\ cfg' = cfg /\ todo' = todo \ {t}
      /\ fields' = [fields EXCEPT ![t] = Evaluated(t, fields[t], fields[u])]
      /\ DOMAIN fields = FieldNames /\ todo \subseteq DOMAIN cfg.templated
      /\ t \in DOMAIN cfg.templated /\ t \in FieldNames /\ u \in FieldNames
  BY SetupsAssumption DEF EvaluateTemplatedField, EnricherInv, EnricherTypeOK
<1>2. EnricherTypeOK'
  BY <1>1 DEF EnricherInv, EnricherTypeOK
<1>3. ASSUME ~RefersToTemplated, NEW f \in FieldNames
      PROVE  fields'[f] = IF f \in todo' THEN Base(f) ELSE Templated(f)
  <2>1. \A g \in FieldNames : fields[g] = IF g \in todo THEN Base(g) ELSE Templated(g)
    BY <1>1, <1>3 DEF EnricherInv, EvaluatesAlike
  <2>2. u \notin DOMAIN cfg.templated \ {t}
    BY <1>1, <1>3 DEF RefersToTemplated
  <2>3. fields[u] = Base(u)
    BY <1>1, <2>1, <2>2 DEF Templated
  <2>4. Evaluated(t, fields[t], fields[u]) = Templated(t)
    BY <1>1, <2>1, <2>3 DEF Evaluated, FailsOnBase, Templated
  <2> QED
    BY <1>1, <2>1, <2>4
<1>4. EvaluatesAlike'
  BY <1>1, <1>3, ConfigurationDecides DEF EvaluatesAlike
<1> QED
  BY <1>1, <1>2, <1>4 DEF EnricherInv, RenamesAlike, EnrichedAlike

LEMMA EvaluatedKeepsInv ==
  ASSUME EnricherInv, TemplatedFieldsDone
  PROVE  EnricherInv'
<1>1. /\ stage = "templated" /\ todo = {} /\ stage' = "brackets"
      /\ UNCHANGED <<cfg, fields, todo>>
  BY DEF TemplatedFieldsDone
<1>2. EnricherTypeOK'
  BY <1>1 DEF EnricherInv, EnricherTypeOK, Stages
<1>3. EvaluatesAlike'
  BY <1>1, ConfigurationDecides DEF EnricherInv, EvaluatesAlike
<1> QED
  BY <1>1, <1>2, <1>3 DEF EnricherInv, RenamesAlike, EnrichedAlike

LEMMA BracketsKeepInv ==
  ASSUME EnricherInv, ReplaceBrackets
  PROVE  EnricherInv'
<1>1. /\ stage = "brackets" /\ stage' = "truncate" /\ cfg' = cfg /\ todo' = todo
      /\ DOMAIN fields = FieldNames /\ cfg.brackets \in BOOLEAN
  BY SetupsAssumption DEF ReplaceBrackets, EnricherInv, EnricherTypeOK
<1>2. DOMAIN fields' = FieldNames
  BY <1>1 DEF ReplaceBrackets
<1>3. EnricherTypeOK'
  BY <1>1, <1>2 DEF EnricherInv, EnricherTypeOK, Stages
<1>4. ASSUME ~RefersToTemplated, ~FallTogether, cfg.brackets
      PROVE  /\ \A f \in FieldNames : Templated(f) # Absent => fields'[Replaced[f]] = Templated(f)
             /\ \A f \in FieldNames : Replaced[f] # f => fields'[f] = Absent
  <2>1. \A f \in FieldNames : fields[f] = Templated(f)
    BY <1>1, <1>4 DEF EnricherInv, EvaluatesAlike
  <2>2. PICK last \in [{f \in FieldNames : Named(f) # {}} -> Present] :
          /\ \A f \in DOMAIN last : last[f] \in Named(f)
          /\ fields' = [f \in FieldNames |->
                          IF f \in DOMAIN last THEN fields[last[f]] ELSE Absent]
    BY <1>4 DEF ReplaceBrackets
  <2>3. ASSUME NEW f \in FieldNames, Templated(f) # Absent
        PROVE  fields'[Replaced[f]] = Templated(f)
    <3>1. Replaced[f] \in FieldNames
      BY ReplacedAssumption
    <3>2. f \in Named(Replaced[f])
      BY <2>1, <2>3 DEF Named, Present
    <3>3. \A g \in Named(Replaced[f]) : g = f
      BY <1>4, <2>1, <2>3 DEF Named, Present, FallTogether
    <3>4. Replaced[f] \in DOMAIN last /\ last[Replaced[f]] = f
      BY <2>2, <3>1, <3>2, <3>3
    <3> QED
      BY <2>1, <2>2, <3>1, <3>4
  <2>4. ASSUME NEW f \in FieldNames, Replaced[f] # f
        PROVE  fields'[f] = Absent
    <3>1. Named(f) = {}
      BY <2>4, ReplacedAssumption DEF Named, Present
    <3>2. f \notin DOMAIN last
      BY <3>1
    <3> QED
      BY <2>2, <3>2
  <2> QED
    BY <2>3, <2>4
<1>5. ASSUME ~RefersToTemplated, ~cfg.brackets
      PROVE  \A f \in FieldNames : fields'[f] = Templated(f)
  BY <1>1, <1>5 DEF ReplaceBrackets, EnricherInv, EvaluatesAlike
<1>6. RenamesAlike'
  BY <1>1, <1>4, <1>5, ConfigurationDecides DEF RenamesAlike
<1> QED
  BY <1>1, <1>3, <1>6 DEF EnricherInv, EvaluatesAlike, EnrichedAlike

LEMMA TruncateKeepsInv ==
  ASSUME EnricherInv, TruncateIfNeeded
  PROVE  EnricherInv'
<1>1. /\ stage = "truncate" /\ stage' = "enriched" /\ cfg' = cfg /\ todo' = todo
      /\ fields' = [f \in FieldNames |-> Shortened(fields[f])]
      /\ \A v : Shortened(v)' = Shortened(v)
  BY DEF TruncateIfNeeded, Shortened
<1>2. Shortened(Absent) = Absent
  BY DEF Shortened, IsLong
<1>3. EnricherTypeOK'
  BY <1>1 DEF EnricherInv, EnricherTypeOK, Stages
<1>4. ASSUME ~RefersToTemplated, ~FallTogether
      PROVE  IF cfg.brackets
             THEN /\ \A f \in FieldNames : Templated(f) # Absent =>
                       fields'[Replaced[f]] = Shortened(Templated(f))
                  /\ \A f \in FieldNames : Replaced[f] # f => fields'[f] = Absent
             ELSE \A f \in FieldNames : fields'[f] = Shortened(Templated(f))
  <2>1. /\ IF cfg.brackets
           THEN /\ \A f \in FieldNames : Templated(f) # Absent => fields[Replaced[f]] = Templated(f)
                /\ \A f \in FieldNames : Replaced[f] # f => fields[f] = Absent
           ELSE \A f \in FieldNames : fields[f] = Templated(f)
        /\ \A f \in FieldNames : Replaced[f] \in FieldNames
    BY <1>1, <1>4, ReplacedAssumption DEF EnricherInv, RenamesAlike
  <2>2. \A f \in FieldNames : fields'[f] = Shortened(fields[f])
    BY <1>1
  <2> QED
    BY <1>2, <2>1, <2>2
<1>5. EnrichedAlike'
  BY <1>1, <1>4, ConfigurationDecides DEF EnrichedAlike
<1> QED
  BY <1>1, <1>3, <1>5 DEF EnricherInv, EvaluatesAlike, RenamesAlike

LEMMA EnricherNextInv == EnricherInv /\ [Next]_vars => EnricherInv'
<1> SUFFICES ASSUME EnricherInv, [Next]_vars PROVE EnricherInv'
  OBVIOUS
<1>1. CASE Enrich
  BY <1>1, CustomKeepsInv, EvaluateKeepsInv, EvaluatedKeepsInv, BracketsKeepInv,
     TruncateKeepsInv DEF Enrich
<1>2. CASE UNCHANGED enricherVars
  <2>1. /\ UNCHANGED <<cfg, fields, todo, stage>>
        /\ \A v : Shortened(v)' = Shortened(v)
    BY <1>2 DEF enricherVars, Shortened
  <2>2. EnricherTypeOK'
    BY <2>1 DEF EnricherInv, EnricherTypeOK
  <2>3. EvaluatesAlike' /\ RenamesAlike'
    BY <2>1, ConfigurationDecides DEF EnricherInv, EvaluatesAlike, RenamesAlike
  <2>4. EnrichedAlike'
    BY <2>1, ConfigurationDecides DEF EnricherInv, EnrichedAlike
  <2> QED
    BY <2>2, <2>3, <2>4 DEF EnricherInv
<1> QED
  BY <1>1, <1>2 DEF Next, vars

\* In whatever order the maps are iterated, the same event becomes the same event, unless
\* a template refers to another templated field or two names fall together
\* (Enricher.evaluateTemplatedFields, replaceBrackets).
THEOREM EnricherIsDeterministic == Spec => []EnrichedAlike
<1>1. Init => EnricherInv
  BY EnricherInitInv DEF Init
<1> QED
  BY <1>1, EnricherNextInv, PTL DEF Spec, EnricherInv

-----------------------------------------------------------------------------
(* The drivers *)

PCs == {"send", "wait", "sent", "failed"}

DriverTypeOK ==
  /\ driver \in SingleSenders \union BatchSenders
  /\ pc \in PCs
  /\ asked \subseteq HostsOf(driver) /\ succeeded \subseteq HostsOf(driver)
  /\ buffered \subseteq events
  /\ copies \in [HostsOf(driver) -> [events -> Nat]]
  /\ unanswered \in [HostsOf(driver) -> Nat]

\* What executeWithRetry's progress says of the hosts.
AttemptInv ==
  /\ asked # {} => pc = "wait"
  /\ asked \cap succeeded = {}
  /\ pc = "send" => succeeded = {}
  /\ pc = "sent" /\ driver # "kafka async" => succeeded # {}
  /\ driver = "kafka async" => pc \in {"send", "sent"}
  /\ buffered # {} => driver = "kafka async" /\ pc = "sent"

\* A host that answered to the driver's satisfaction has taken the batch.
SucceededTook ==
  driver \notin {"elasticsearch bulk", "kafka async"} =>
    \A h \in succeeded : \A e \in events : copies[h][e] > 0

\* A host has one copy more than it left requests unanswered only when it succeeded, or
\* when Kafka's client has sent it the record.
CopiesBounded ==
  driver \notin {"kafka", "loki"} =>
    \A h \in HostsOf(driver) : \A e \in events :
      /\ copies[h][e] <= 1 + unanswered[h]
      /\ h \notin succeeded /\ driver # "kafka async" => copies[h][e] <= unanswered[h]
      /\ driver = "kafka async" /\ (pc = "send" \/ e \in buffered) => copies[h][e] = 0

DriverInv == DriverTypeOK /\ AttemptInv /\ SucceededTook /\ CopiesBounded

LEMMA DriverInitInv == Init => DriverInv
BY DEF Init, DriverInv, DriverTypeOK, AttemptInv, SucceededTook, CopiesBounded, PCs

\* An answer the driver is satisfied with stands for the whole batch, but for
\* Elasticsearch's bulk requests; one it is not satisfied with for none of it, but for
\* Kafka's and Loki's batches.
LEMMA AnswersMean ==
  ASSUME DriverTypeOK, NEW answer \in Answers
  PROVE  /\ answer.taken \subseteq events
         /\ driver # "elasticsearch bulk" /\ Succeeds(answer) => answer.taken = events
         /\ driver \notin {"kafka", "loki"} /\ ~Succeeds(answer) => answer.taken = {}
<1>1. driver \in {"alertmanager", "slack", "webhook", "elasticsearch",
                  "elasticsearch bulk", "kafka", "kafka async", "loki"}
  BY DEF DriverTypeOK, SingleSenders, BatchSenders
<1>2. CASE answer = Answer(events, "2xx", FALSE)
  BY <1>1, <1>2 DEF Answer, Succeeds, Do, CheckSlackResponse, ParseBulkResponse, FilterPath,
                    FirstErr
<1>3. CASE answer \in {Answer(t, "error", FALSE) :
                         t \in IF driver = "loki" THEN SUBSET events ELSE {{}}}
  <2>1. PICK t \in IF driver = "loki" THEN SUBSET events ELSE {{}} :
               answer = Answer(t, "error", FALSE)
    BY <1>3
  <2>2. answer.taken = t /\ answer.status = "error" /\ ~Do(answer)
    BY <2>1 DEF Answer, Do
  <2>3. ~Succeeds(answer)
    BY <1>1, <2>2 DEF Succeeds, CheckSlackResponse, FirstErr
  <2> QED
    BY <1>1, <2>1, <2>2, <2>3
<1>4. CASE answer \in {Answer(t, "2xx", t # events) :
                         t \in CASE driver = "slack" -> {{}}
                                 [] driver \in {"elasticsearch bulk", "kafka"} -> SUBSET events
                                 [] OTHER -> {}}
  <2>1. PICK t \in CASE driver = "slack" -> {{}}
                     [] driver \in {"elasticsearch bulk", "kafka"} -> SUBSET events
                     [] OTHER -> {} :
               answer = Answer(t, "2xx", t # events)
    BY <1>4
  <2>2. /\ answer.taken = t /\ answer.status = "2xx" /\ answer.complains = (t # events)
        /\ Do(answer)
    BY <2>1 DEF Answer, Do
  <2>3. driver \in {"slack", "elasticsearch bulk", "kafka"}
    BY <1>1, <2>1
  <2>4. CASE driver = "slack"
    BY <2>1, <2>2, <2>4 DEF Succeeds, CheckSlackResponse
  <2>5. CASE driver = "elasticsearch bulk"
    BY <2>1, <2>2, <2>5 DEF Succeeds, ParseBulkResponse, FilterPath
  <2>6. CASE driver = "kafka"
    BY <2>1, <2>2, <2>6 DEF Succeeds, FirstErr
  <2> QED
    BY <2>3, <2>4, <2>5, <2>6
<1> QED
  BY <1>2, <1>3, <1>4 DEF Answers

\* What a host takes.
LEMMA TakesCounts ==
  ASSUME DriverTypeOK, NEW h \in HostsOf(driver), NEW taken \in SUBSET events, Takes(h, taken)
  PROVE  /\ copies' \in [HostsOf(driver) -> [events -> Nat]]
         /\ \A g \in HostsOf(driver) \ {h} : copies'[g] = copies[g]
         /\ \A e \in events :
              copies'[h][e] = IF e \in taken THEN copies[h][e] + 1 ELSE copies[h][e]
<1>1. copies \in [HostsOf(driver) -> [events -> Nat]] /\ copies[h] \in [events -> Nat]
  BY DEF DriverTypeOK
<1>2. [e \in events |-> IF e \in taken THEN copies[h][e] + 1 ELSE copies[h][e]]
        \in [events -> Nat]
  BY <1>1
<1>3. copies' = [copies EXCEPT ![h] =
                   [e \in events |-> IF e \in taken THEN copies[h][e] + 1 ELSE copies[h][e]]]
  BY DEF Takes
<1> QED
  BY <1>1, <1>2, <1>3

\* A copy more is a copy.
LEMMA OneMore == \A n \in Nat : n + 1 > 0
OBVIOUS

LEMMA SendKeepsInv == DriverInv /\ Send => DriverInv'
BY DEF Send, DriverInv, DriverTypeOK, AttemptInv, SucceededTook, CopiesBounded, PCs

LEMMA ProduceKeepsInv == DriverInv /\ Produce => DriverInv'
BY DEF Produce, DriverInv, DriverTypeOK, AttemptInv, SucceededTook, CopiesBounded, PCs

LEMMA ReturnKeepsInv == DriverInv /\ Return => DriverInv'
BY DEF Return, FanOut, DriverInv, DriverTypeOK, AttemptInv, SucceededTook, CopiesBounded, PCs

LEMMA HostAnswersKeepsInv ==
  ASSUME DriverInv, NEW h \in HostsOf(driver), HostAnswers(h)
  PROVE  DriverInv'
<1>1. PICK answer \in Answers :
        /\ Takes(h, answer.taken)
        /\ succeeded' = IF Succeeds(answer) THEN succeeded \union {h} ELSE succeeded
  BY DEF HostAnswers
<1>2. /\ h \in asked /\ h \notin succeeded /\ pc = "wait" /\ driver # "kafka async"
      /\ asked' = asked \ {h}
      /\ UNCHANGED <<driver, events, pc, attempt, buffered, unanswered>>
  BY DEF HostAnswers, DriverInv, AttemptInv
<1>3. /\ answer.taken \subseteq events
      /\ driver # "elasticsearch bulk" /\ Succeeds(answer) => answer.taken = events
      /\ driver \notin {"kafka", "loki"} /\ ~Succeeds(answer) => answer.taken = {}
  BY AnswersMean DEF DriverInv
<1>4. /\ copies' \in [HostsOf(driver) -> [events -> Nat]]
      /\ \A g \in HostsOf(driver) \ {h} : copies'[g] = copies[g]
      /\ \A e \in events :
           copies'[h][e] = IF e \in answer.taken THEN copies[h][e] + 1 ELSE copies[h][e]
  BY <1>1, <1>3, TakesCounts DEF DriverInv
<1>5. \A g \in HostsOf(driver) : \A e \in events : copies[g][e] \in Nat /\ unanswered[g] \in Nat
  BY DEF DriverInv, DriverTypeOK
<1>6. DriverTypeOK'
  BY <1>1, <1>2, <1>4 DEF DriverInv, DriverTypeOK, HostsOf
<1>7. AttemptInv'
  BY <1>1, <1>2 DEF DriverInv, AttemptInv
<1>8. SucceededTook'
  <2> SUFFICES ASSUME driver \notin {"elasticsearch bulk", "kafka async"},
                      NEW g \in succeeded', NEW e \in events
               PROVE  copies'[g][e] > 0
    BY <1>2 DEF SucceededTook
  <2>1. g \in HostsOf(driver)
    BY <1>1 DEF DriverInv, DriverTypeOK
  <2>2. CASE g = h
    <3>1. e \in answer.taken
      BY <1>1, <1>2, <1>3, <2>2
    <3>2. copies[h][e] \in Nat /\ copies'[h][e] = copies[h][e] + 1
      BY <1>4, <1>5, <3>1
    <3> QED
      BY <2>2, <3>2, OneMore
  <2>3. CASE g # h
    BY <1>1, <1>4, <2>1, <2>3 DEF DriverInv, SucceededTook
  <2> QED
    BY <2>2, <2>3
<1>9. CopiesBounded'
  <2> SUFFICES ASSUME driver \notin {"kafka", "loki"},
                      NEW g \in HostsOf(driver), NEW e \in events
               PROVE  /\ copies'[g][e] <= 1 + unanswered[g]
                      /\ g \notin succeeded' => copies'[g][e] <= unanswered[g]
    BY <1>2 DEF CopiesBounded, HostsOf
  <2>1. /\ copies[g][e] <= 1 + unanswered[g]
        /\ g \notin succeeded => copies[g][e] <= unanswered[g]
    BY <1>2 DEF DriverInv, CopiesBounded
  <2>2. CASE g = h
    <3>1. /\ copies[h][e] \in Nat /\ unanswered[h] \in Nat /\ copies[h][e] <= unanswered[h]
          /\ copies'[h][e] = IF e \in answer.taken THEN copies[h][e] + 1 ELSE copies[h][e]
      BY <1>2, <1>4, <1>5, <2>1, <2>2
    <3>2. h \notin succeeded' => e \notin answer.taken
      BY <1>1, <1>3
    <3> QED
      BY <2>2, <3>1, <3>2
  <2>3. CASE g # h
    BY <1>1, <1>4, <2>1, <2>3
  <2> QED
    BY <2>2, <2>3
<1> QED
  BY <1>6, <1>7, <1>8, <1>9 DEF DriverInv

LEMMA NoAnswerKeepsInv ==
  ASSUME DriverInv, NEW h \in HostsOf(driver), NoAnswer(h)
  PROVE  DriverInv'
<1>1. PICK taken \in SUBSET events : Takes(h, taken)
  BY DEF NoAnswer
<1>2. /\ h \in asked /\ h \notin succeeded /\ pc = "wait" /\ driver # "kafka async"
      /\ asked' = asked \ {h} /\ unanswered' = [unanswered EXCEPT ![h] = @ + 1]
      /\ UNCHANGED <<driver, events, pc, attempt, succeeded, buffered>>
  BY DEF NoAnswer, DriverInv, AttemptInv
<1>3. /\ copies' \in [HostsOf(driver) -> [events -> Nat]]
      /\ \A g \in HostsOf(driver) \ {h} : copies'[g] = copies[g]
      /\ \A e \in events :
           copies'[h][e] = IF e \in taken THEN copies[h][e] + 1 ELSE copies[h][e]
  BY <1>1, TakesCounts DEF DriverInv
<1>4. /\ unanswered \in [HostsOf(driver) -> Nat]
      /\ \A g \in HostsOf(driver) : \A e \in events : copies[g][e] \in Nat
  BY DEF DriverInv, DriverTypeOK
<1>5. /\ unanswered' \in [HostsOf(driver) -> Nat]
      /\ \A g \in HostsOf(driver) :
           unanswered'[g] = IF g = h THEN unanswered[g] + 1 ELSE unanswered[g]
  <2>1. unanswered \in [HostsOf(driver) -> Nat] /\ unanswered[h] + 1 \in Nat
    BY <1>4
  <2>2. unanswered' = [unanswered EXCEPT ![h] = unanswered[h] + 1]
    BY <1>2
  <2> QED
    BY <2>1, <2>2
<1>6. DriverTypeOK'
  BY <1>2, <1>3, <1>5 DEF DriverInv, DriverTypeOK, HostsOf
<1>7. AttemptInv'
  BY <1>2 DEF DriverInv, AttemptInv
<1>8. SucceededTook'
  <2> SUFFICES ASSUME driver \notin {"elasticsearch bulk", "kafka async"},
                      NEW g \in succeeded, NEW e \in events
               PROVE  copies'[g][e] > 0
    BY <1>2 DEF SucceededTook
  <2>1. g \in HostsOf(driver) /\ g # h
    BY <1>2 DEF DriverInv, DriverTypeOK
  <2> QED
    BY <1>3, <2>1 DEF DriverInv, SucceededTook
<1>9. CopiesBounded'
  <2> SUFFICES ASSUME driver \notin {"kafka", "loki"},
                      NEW g \in HostsOf(driver), NEW e \in events
               PROVE  /\ copies'[g][e] <= 1 + unanswered'[g]
                      /\ g \notin succeeded => copies'[g][e] <= unanswered'[g]
    BY <1>2 DEF CopiesBounded, HostsOf
  <2>1. /\ copies[g][e] <= 1 + unanswered[g]
        /\ g \notin succeeded => copies[g][e] <= unanswered[g]
    BY <1>2 DEF DriverInv, CopiesBounded
  <2>2. CASE g = h
    <3>1. /\ copies[h][e] \in Nat /\ unanswered[h] \in Nat /\ copies[h][e] <= unanswered[h]
          /\ unanswered'[h] = unanswered[h] + 1
          /\ copies'[h][e] = IF e \in taken THEN copies[h][e] + 1 ELSE copies[h][e]
      BY <1>2, <1>3, <1>4, <1>5, <2>1, <2>2
    <3> QED
      BY <2>2, <3>1
  <2>3. CASE g # h
    BY <1>3, <1>5, <2>1, <2>3
  <2> QED
    BY <2>2, <2>3
<1> QED
  BY <1>6, <1>7, <1>8, <1>9 DEF DriverInv

LEMMA AsyncCallbackKeepsInv ==
  ASSUME DriverInv, NEW e \in events, AsyncCallback(e)
  PROVE  DriverInv'
<1>1. /\ e \in buffered /\ driver = "kafka async" /\ pc = "sent"
      /\ asked = {} /\ buffered' = buffered \ {e} /\ HostsOf(driver) = {"host"}
      /\ UNCHANGED <<driver, events, pc, attempt, asked, succeeded, unanswered>>
  BY DEF AsyncCallback, DriverInv, AttemptInv, HostsOf
<1>2. \A d \in events : /\ copies["host"][d] \in Nat /\ unanswered["host"] \in Nat
                        /\ copies["host"][d] <= 1 + unanswered["host"]
                        /\ d \in buffered => copies["host"][d] = 0
  BY <1>1 DEF DriverInv, DriverTypeOK, CopiesBounded
<1>3. /\ copies' \in [HostsOf(driver) -> [events -> Nat]]
      /\ \A d \in events : \/ copies'["host"][d] = copies["host"][d]
                           \/ d = e /\ copies'["host"][d] = copies["host"][d] + 1
  <2>1. CASE Takes("host", {e})
    <3>1. "host" \in HostsOf(driver) /\ {e} \in SUBSET events /\ DriverTypeOK
      BY <1>1 DEF DriverInv
    <3>2. /\ copies' \in [HostsOf(driver) -> [events -> Nat]]
          /\ \A d \in events : copies'["host"][d] = IF d \in {e} THEN copies["host"][d] + 1
                                                    ELSE copies["host"][d]
      BY <2>1, <3>1, TakesCounts
    <3> QED
      BY <3>2
  <2>2. CASE UNCHANGED copies
    BY <2>2 DEF DriverInv, DriverTypeOK
  <2> QED
    BY <2>1, <2>2 DEF AsyncCallback
<1>4. DriverTypeOK' /\ AttemptInv' /\ SucceededTook'
  BY <1>1, <1>3 DEF DriverInv, DriverTypeOK, AttemptInv, SucceededTook
<1>5. CopiesBounded'
  <2>1. ASSUME NEW d \in events
        PROVE  /\ copies'["host"][d] <= 1 + unanswered["host"]
               /\ d \in buffered' => copies'["host"][d] = 0
    <3>1. /\ copies["host"][d] \in Nat /\ unanswered["host"] \in Nat
          /\ copies["host"][d] <= 1 + unanswered["host"]
          /\ d \in buffered => copies["host"][d] = 0
          /\ e \in buffered => copies["host"][e] = 0
      BY <1>2
    <3>2. CASE copies'["host"][d] = copies["host"][d]
      BY <1>1, <3>1, <3>2
    <3>3. CASE d = e /\ copies'["host"][d] = copies["host"][d] + 1
      <4>1. copies["host"][d] = 0 /\ d \notin buffered'
        BY <1>1, <3>1, <3>3
      <4>2. copies'["host"][d] = 1
        BY <3>3, <4>1
      <4> QED
        BY <3>1, <4>1, <4>2
    <3> QED
      BY <1>3, <3>2, <3>3
  <2> QED
    BY <1>1, <2>1 DEF CopiesBounded
<1> QED
  BY <1>4, <1>5 DEF DriverInv

LEMMA DriverNextInv == DriverInv /\ [Next]_vars => DriverInv'
<1> SUFFICES ASSUME DriverInv, [Next]_vars PROVE DriverInv'
  OBVIOUS
<1>1. CASE DriverStep
  BY <1>1, SendKeepsInv, ProduceKeepsInv, ReturnKeepsInv, HostAnswersKeepsInv,
     NoAnswerKeepsInv, AsyncCallbackKeepsInv DEF DriverStep
<1>2. CASE UNCHANGED driverVars
  BY <1>2 DEF driverVars, DriverInv, DriverTypeOK, AttemptInv, SucceededTook, CopiesBounded,
              HostsOf
<1> QED
  BY <1>1, <1>2 DEF Next, vars

LEMMA DriverInvariant == Spec => []DriverInv
BY DriverInitInv, DriverNextInv, PTL DEF Spec

\* A host has at most one copy of an event more than it left requests unanswered: neither a
\* second host's failure nor a batch's retry sends again what was answered for, but with
\* Kafka and Loki, of whose batches a part may be taken (output.fanOut, executeWithRetry).
THEOREM DriversDuplicateForLostAnswers == Spec => []DuplicatesNeedLostAnswer
<1>1. DriverInv => DuplicatesNeedLostAnswer
  BY DEF DriverInv, CopiesBounded, DuplicatesNeedLostAnswer
<1> QED
  BY <1>1, DriverInvariant, PTL

\* What the pipeline counts as sent was taken by a host, all of it, but for the two drivers
\* whose answer does not say so (Sender.Do, checkSlackResponse, ProduceSync's first error).
THEOREM DriversSendWhatIsTaken == Spec => []SentIsTaken
<1>1. DriverInv => SentIsTaken
  BY DEF DriverInv, DriverTypeOK, AttemptInv, SucceededTook, SentIsTaken
<1> QED
  BY <1>1, DriverInvariant, PTL

=============================================================================
