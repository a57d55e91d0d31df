--------------------------- MODULE TemplateVariables ---------------------------
(***************************************************************************)
(* How the variables of a notification become the parameters of a WhatsApp *)
(* template (src/utils/whatsapp-template.js). A broadcast maps the         *)
(* variables of its recipients in one batch and refuses those with missing *)
(* ones, the notify handler it calls maps them once more and refuses too;  *)
(* the scheduler maps them once and sends whatever came out. Mapping and   *)
(* sending have each their own order of precedence between the list        *)
(* "whatsapp", the list "params", numeric keys and named values.           *)
(*                                                                         *)
(* Names are written as normalizeVariableKey leaves them; of the names a   *)
(* button's value may be given under one stands for all.                   *)
(***************************************************************************)
EXTENDS Naturals, Sequences, SequencesExt, FiniteSetsExt

CONSTANTS Forms,   \* templates [texts : [indexes, names], buttons]: the header and body
                   \* texts with their placeholders and examples, and the buttons
          Inputs,  \* variables [whatsapp, params, numeric, named]
          Values   \* what a variable may be

Blank == ""
DefaultLink == "?ref=whatsapp"
NoList == <<"no list">>

\* Meta numbers placeholders from 1.
ASSUME VariablesAssumption ==
    /\ Blank \in Values /\ DefaultLink \in Values /\ "no list" \notin Values
    /\ \A f \in Forms :
          /\ IsFiniteSet(DOMAIN f.texts)
          /\ \A i \in DOMAIN f.texts : f.texts[i].indexes \in Seq(Nat \ {0})
          /\ IsFiniteSet(DOMAIN f.buttons) /\ DOMAIN f.buttons \subseteq Nat
    /\ \A v \in Inputs :
          /\ v = [whatsapp |-> v.whatsapp, params |-> v.params,
                  numeric |-> v.numeric, named |-> v.named]
          /\ v.whatsapp \in Seq(Values) \cup {NoList} /\ v.params \in Seq(Values) \cup {NoList}
          /\ v.numeric \in [DOMAIN v.numeric -> Values]
          /\ IsFiniteSet(DOMAIN v.numeric) /\ DOMAIN v.numeric \subseteq Nat
          /\ v.named \in [DOMAIN v.named -> Values]

VARIABLES form,      \* components of the cached template
          variables, \* the variables as they are now
          given,     \* the variables of the request
          mappings,  \* what each mapping so far returned: [whatsapp, missing]
          stage,     \* "asked", "mapped", "accepted", "refused" or "sent"
          sent       \* the parameters sent, by index

formVars == <<form, variables, given, mappings, stage, sent>>

-----------------------------------------------------------------------------

TextIndexes(f) == UNION {ToSet(f.texts[i].indexes) : i \in DOMAIN f.texts}

\* The members of a set of naturals, the least first.
InOrder(S) == [i \in 1..Cardinality(S) |-> CHOOSE k \in S : Cardinality({j \in S : j < k}) = i - 1]

\* dynamicButtonSlots: the buttons that need a value continue the numbering of
\* the texts.
NeedsValue(button) == button \in {"URL", "COPY_CODE"}
Slots(f) == LET top == Max(TextIndexes(f) \cup {0})
                dynamic == InOrder({k \in DOMAIN f.buttons : NeedsValue(f.buttons[k])})
            IN  [index \in {top + k : k \in DOMAIN dynamic} |-> f.buttons[dynamic[index - top]]]

Indexes(f) == TextIndexes(f) \cup DOMAIN Slots(f)

\* exampleVariableMappings: a text names its placeholders by its examples, in
\* order of appearance; a later text overrides an earlier one.
Naming(f, index) == {p \in (DOMAIN f.texts) \X (1..Max(Indexes(f) \cup {0})) :
                      LET text == f.texts[p[1]]
                      IN  /\ p[2] \in DOMAIN text.indexes \cap DOMAIN text.names
                          /\ text.indexes[p[2]] = index}

MappedName(f, index) ==
    IF Naming(f, index) # {}
    THEN LET last == CHOOSE p \in Naming(f, index) : \A q \in Naming(f, index) : q[1] <= p[1]
         IN  f.texts[last[1]].names[last[2]]
    ELSE IF index \in DOMAIN Slots(f)
         THEN IF Slots(f)[index] = "COPY_CODE" THEN "couponcode" ELSE "buttonvar"
         ELSE "none"

\* Numeric keys are taken in their order, whatever the numbers are.
SortedValues(numeric) ==
    LET keys == InOrder(DOMAIN numeric) IN [i \in DOMAIN keys |-> numeric[keys[i]]]

PositionalNumericFirst(v) ==
    IF DOMAIN v.numeric # {} THEN SortedValues(v.numeric)
    ELSE IF v.whatsapp # NoList THEN v.whatsapp
    ELSE IF v.params # NoList THEN v.params ELSE <<>>

\* positionalValues
Positional(v) == IF v.whatsapp # NoList THEN v.whatsapp
                 ELSE IF v.params # NoList THEN v.params ELSE SortedValues(v.numeric)

\* resolveSlotValue: the named value, then the other names of a button, then a
\* default for links.
Lookup(v, name) == IF name \in DOMAIN v.named THEN v.named[name] ELSE Blank

SlotValue(f, v, index) ==
    LET button == IF index \in DOMAIN Slots(f) THEN Slots(f)[index] ELSE "none"
        value == Lookup(v, MappedName(f, index))
        other == Lookup(v, IF button = "URL" THEN "url" ELSE "code")
    IN  IF value # Blank \/ button = "none" THEN value
        ELSE IF other # Blank \/ button = "COPY_CODE" THEN other ELSE DefaultLink

\* normalizeWhatsAppVariables, and createVariableMapper, which batches it.
MapVariables(f, v) ==
    LET highest == Max(Indexes(f) \cup {0, Len(Positional(v))})
        list == [i \in 1..highest |-> IF i <= Len(Positional(v)) THEN Positional(v)[i]
                                      ELSE SlotValue(f, v, i)]
    IN  IF highest = 0 THEN [whatsapp |-> v.whatsapp, missing |-> {}]
        ELSE [whatsapp |-> list, missing |-> {i \in Indexes(f) : list[i] = Blank}]

\* buildTemplateSendComponents: here numeric keys go before the list.
Parameters(f, v) ==
    [i \in Indexes(f) |-> IF i \in DOMAIN v.numeric THEN v.numeric[i]
                          ELSE IF i <= Len(Positional(v)) THEN Positional(v)[i] ELSE Blank]

-----------------------------------------------------------------------------

FormInit == /\ form \in Forms
            /\ given \in Inputs
            /\ variables = given
            /\ mappings = <<>>
            /\ stage = "asked"
            /\ sent = <<>>

Mapping ==
    LET m == MapVariables(form, variables)
    IN  /\ variables' = [variables EXCEPT !.whatsapp = m.whatsapp]
        /\ mappings' = Append(mappings, m)
        /\ UNCHANGED <<form, given, sent>>

\* The batch of a broadcast: one with missing variables is skipped.
MapBatch ==
    /\ stage = "asked"
    /\ Mapping
    /\ stage' = IF mappings'[1].missing = {} THEN "mapped" ELSE "refused"

\* prepareTemplates of the notify handler, on variables given by the client or by
\* a broadcast: the parameters are built, and refused if some are missing.
BuildForNotify ==
    /\ stage \in {"asked", "mapped"}
    /\ Mapping
    /\ stage' = IF Last(mappings').missing = {} THEN "built" ELSE "refused"

\* prepareTemplates of the scheduler does not look at what is missing.
BuildForSchedule ==
    /\ stage = "asked"
    /\ Mapping
    /\ stage' = "built"

Send ==
    /\ stage = "built"
    /\ sent' = Parameters(form, variables)
    /\ stage' = "sent"
    /\ UNCHANGED <<form, variables, given, mappings>>

FormNext == MapBatch \/ BuildForNotify \/ BuildForSchedule \/ Send

FormSpec == FormInit /\ [][FormNext]_formVars

-----------------------------------------------------------------------------

\* Variables given in one way only, numeric keys counting from 1.
Unmixed(v) == \/ DOMAIN v.numeric = {}
              \/ /\ v.whatsapp = NoList /\ v.params = NoList
                 /\ DOMAIN v.numeric = 1..Len(SortedValues(v.numeric))

\* The second mapping of a broadcast changes nothing, and, for variables that are
\* not given in two ways at once, the parameters sent are those that were mapped
\* and the blank ones are exactly those that were reported missing: the precedence
\* of positionalValues, of the mapping and of buildTemplateSendComponents agree
\* (src/utils/whatsapp-template.js:195-211, 337-389, 446-578).
SentAsMapped ==
    /\ Len(mappings) = 2 => mappings[2] = mappings[1]
    /\ stage = "sent" /\ Unmixed(given) =>
         \A i \in DOMAIN sent : /\ sent[i] = mappings[1].whatsapp[i]
                                /\ sent[i] = Blank <=> i \in mappings[1].missing
=============================================================================
