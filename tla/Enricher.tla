------------------------------ MODULE Enricher ------------------------------
(***************************************************************************)
(* The enricher of the pipeline (src/internal/pipeline/enricher.go): what  *)
(* it does to the map OutputFields of an event. Go's iteration over a map  *)
(* takes the keys in any order. UUID, tags and host name, which depend on  *)
(* nothing else, are left out.                                             *)
(***************************************************************************)
EXTENDS Integers, Sequences, FiniteSets

CONSTANTS
  FieldNames,
  Replaced,      \* Replaced[f]: the name f with its brackets replaced
  EnricherSetups \* configurations, each with the event's fields: see MCDrivers

ASSUME ReplacedAssumption ==
  Replaced \in [FieldNames -> FieldNames]
    /\ \A f \in FieldNames : Replaced[Replaced[f]] = Replaced[f]

\* A template is made for each templated field; it reads one field, and there are values
\* over which its execution fails.
ASSUME SetupsAssumption ==
  \A s \in EnricherSetups :
    /\ DOMAIN s.templated \subseteq FieldNames
    /\ \A t \in DOMAIN s.templated : s.templated[t] \in FieldNames
    /\ DOMAIN s.fails = DOMAIN s.templated
    /\ s.brackets \in BOOLEAN /\ s.truncates \in BOOLEAN

VARIABLES
  cfg,      \* EnricherConfig, and the fields of the event that is posted
  fields,   \* OutputFields: for each name what its value was made from; <<>>: not there
  todo,     \* the templated fields that are still to be evaluated
  stage     \* the step of Enrich that comes next

enricherVars == <<cfg, fields, todo, stage>>

\* A value of the event's own, of any length; the values of custom fields are short.
Given(long) == IF long THEN <<"given", "long">> ELSE <<"given">>
Custom == <<"custom">>
Absent == <<>>

\* A template executed over the value of a field. One that is not there has "no value".
Executed(value) == <<"template">> \o value
IsLong(value) == value # Absent /\ value[Len(value)] = "long"
Cut(value) == <<"cut">> \o value

EnricherInit ==
  /\ cfg \in EnricherSetups
  /\ fields = cfg.given
  /\ todo = DOMAIN cfg.templated
  /\ stage = "custom"

InjectCustomFields ==
  /\ stage = "custom"
  /\ stage' = "templated"
  /\ fields' = [f \in FieldNames |-> IF f \in cfg.custom THEN Custom ELSE fields[f]]
  /\ UNCHANGED <<cfg, todo>>

\* The value of field t, whose template reads this value: what it was if Execute fails.
Evaluated(t, old, value) == IF value \in cfg.fails[t] THEN old ELSE Executed(value)

\* One round of evaluateTemplatedFields: a template reads the map its value is put into.
EvaluateTemplatedField(t) ==
  /\ stage = "templated"
  /\ t \in todo
  /\ todo' = todo \ {t}
  /\ fields' = [fields EXCEPT ![t] = Evaluated(t, fields[t], fields[cfg.templated[t]])]
  /\ UNCHANGED <<cfg, stage>>

TemplatedFieldsDone ==
  /\ stage = "templated" /\ todo = {}
  /\ stage' = "brackets"
  /\ UNCHANGED <<cfg, fields, todo>>

Present == {f \in FieldNames : fields[f] # Absent}
Named(name) == {f \in Present : Replaced[f] = name}

\* Mutant: the names are replaced in the map itself, and the old ones are kept.
ReplaceBracketsInPlace ==
  /\ stage = "brackets"
  /\ stage' = "truncate"
  /\ fields' = [f \in FieldNames |->
                  IF Named(f) = {} THEN fields[f] ELSE fields[CHOOSE g \in Named(f) : TRUE]]
  /\ UNCHANGED <<cfg, todo>>

\* The fields go into a new map under their new names. Of those that get the same name the
\* one that comes last in the iteration is kept.
ReplaceBrackets ==
  /\ stage = "brackets"
  /\ stage' = "truncate"
  /\ IF ~cfg.brackets THEN UNCHANGED fields
     ELSE \E last \in [{f \in FieldNames : Named(f) # {}} -> Present] :
            /\ \A f \in DOMAIN last : last[f] \in Named(f)
            /\ fields' = [f \in FieldNames |-> IF f \in DOMAIN last THEN fields[last[f]] ELSE Absent]
  /\ UNCHANGED <<cfg, todo>>

\* An event that is too long has its long fields cut.
TruncateIfNeeded ==
  /\ stage = "truncate"
  /\ stage' = "enriched"
  /\ fields' = [f \in FieldNames |-> IF cfg.truncates /\ IsLong(fields[f]) THEN Cut(fields[f])
                                     ELSE fields[f]]
  /\ UNCHANGED <<cfg, todo>>

Enrich ==
  \/ InjectCustomFields
  \/ \E t \in todo : EvaluateTemplatedField(t)
  \/ TemplatedFieldsDone
  \/ ReplaceBrackets
  \/ TruncateIfNeeded

-----------------------------------------------------------------------------
\* What an event should become: a template sees the fields that were given or are custom,
\* and a field whose template fails stays as it is.
Base(f) == IF f \in cfg.custom THEN Custom ELSE cfg.given[f]
FailsOnBase(t) == Base(cfg.templated[t]) \in cfg.fails[t]
Templated(f) ==
  IF f \in DOMAIN cfg.templated /\ ~FailsOnBase(f) THEN Executed(Base(cfg.templated[f]))
  ELSE Base(f)
Shortened(value) == IF cfg.truncates /\ IsLong(value) THEN Cut(value) ELSE value

\* A template refers to another templated field, or two fields have the same name once
\* their brackets are replaced: the result depends on the iteration's order.
RefersToTemplated ==
  \E t \in DOMAIN cfg.templated : cfg.templated[t] \in DOMAIN cfg.templated \ {t}
FallTogether ==
  cfg.brackets /\ \E f, g \in FieldNames :
    f # g /\ Replaced[f] = Replaced[g] /\ Templated(f) # Absent /\ Templated(g) # Absent

\* Whatever order the maps are iterated in, the same event becomes the same event, with
\* every field under its new name and none under its old one, and with the templates that
\* fail changing nothing, unless two of its fields depend on each other through a template
\* or their names.
EnrichedAlike ==
  stage = "enriched" /\ ~RefersToTemplated /\ ~FallTogether =>
    IF cfg.brackets
    THEN /\ \A f \in FieldNames : Templated(f) # Absent =>
              fields[Replaced[f]] = Shortened(Templated(f))
         /\ \A f \in FieldNames : Replaced[f] # f => fields[f] = Absent
    ELSE \A f \in FieldNames : fields[f] = Shortened(Templated(f))

=============================================================================
