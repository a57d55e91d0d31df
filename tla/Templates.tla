------------------------------ MODULE Templates ------------------------------
(***************************************************************************)
(* The message templates of one application (src/api/routes/templates.js)  *)
(* and the choice of one for a notification (src/api/routes/notify.js).    *)
(*                                                                         *)
(* Every statement is atomic; a request is a sequence of them, so requests *)
(* interleave between any two. Texts stand for the contents of a template  *)
(* and are numbered by the clock, which is also what now() returns.        *)
(***************************************************************************)
EXTENDS Naturals, Sequences, FiniteSets

CONSTANTS Editors,       \* concurrent requests
          Types,         \* template types
          Conditions,    \* records [key, value]
          Lower,         \* function: the lower-case form of each condition value
          MaxTemplates,  \* bound: template rows ever inserted
          MaxClock       \* bound: writes

ASSUME TemplatesAssumption ==
    /\ Conditions \subseteq [key : STRING, value : DOMAIN Lower]
    /\ MaxTemplates \in Nat
    /\ MaxClock \in Nat

Unconditional == [key |-> "none", value |-> "none"]
Gone == [channel |-> "none"]

VARIABLES templates,  \* rows by id; Gone where there is none
          made,       \* rows inserted so far
          editing,    \* what each request is at, with what it read
          clock

templateVars == <<templates, made, editing, clock>>

TemplateIds == 1..MaxTemplates
Existing == {i \in TemplateIds : templates[i] # Gone}
NoEdit == [at |-> "idle"]

-----------------------------------------------------------------------------

\* buildVariantKey: the key is the condition with its value in lower case.
VariantKey(c) == IF c = Unconditional THEN <<"default", "">> ELSE <<c.key, Lower[c.value]>>

\* templateMatchesCondition compares in lower case too.
MatchesCondition(row, variables) ==
    \/ row.cond = Unconditional
    \/ /\ row.cond.key \in DOMAIN variables
       /\ Lower[variables[row.cond.key]] = Lower[row.cond.value]

\* getTemplateChannelCandidates
ChannelCandidates(channel) == IF channel = "in_app" THEN {"in_app", "inapp"} ELSE {channel}

Of(type, channel, variant) ==
    {i \in Existing : /\ templates[i].type = type
                  /\ templates[i].channel = channel
                  /\ templates[i].variant = variant}

\* The unique constraint of the table, for a row that is to be at (type, channel,
\* variant) and is not one of "except".
Taken(type, channel, variant, except) == Of(type, channel, variant) \ except # {}

StepOf(e, record) == editing' = [editing EXCEPT ![e] = record]
Tick == clock < MaxClock /\ clock' = clock + 1

-----------------------------------------------------------------------------

\* What earlier requests left: a row of a type, possibly one written under the
\* channel inapp before the schema was normalised, and its in_app twin.
TemplateInit ==
    /\ made \in 0..2 /\ made <= MaxTemplates
    /\ clock = 2
    /\ \E type \in Types, first \in 1..2, old \in IF made = 2 THEN {"inapp"}
                                               ELSE {"inapp", "push"} :
         templates = [i \in TemplateIds |->
            IF i > made THEN Gone
            ELSE [type |-> type, channel |-> IF i = 1 THEN old ELSE "in_app",
                  variant |-> VariantKey(Unconditional), cond |-> Unconditional,
                  text |-> IF i = 1 THEN first ELSE 3 - first, active |-> TRUE,
                  updated |-> IF i = 1 THEN first ELSE 3 - first]]
    /\ editing = [e \in Editors |-> NoEdit]

\* POST /templates, once the body is found valid. The legacy rows of an in_app
\* template are merged first.
StartCreate(e, type, channel, cond) ==
    /\ editing[e].at = "idle"
    /\ StepOf(e, [at |-> IF channel = "in_app" THEN "merge" ELSE "insert", type |-> type,
                  channel |-> channel, cond |-> cond])
    /\ UNCHANGED <<templates, made, clock>>

Legacy(r) == Of(r.type, "inapp", VariantKey(r.cond))
Canonical(r) == Of(r.type, "in_app", VariantKey(r.cond))

\* A newer legacy row overwrites the canonical one.
Newer(r, i) == {j \in Legacy(r) : templates[j].updated > templates[i].updated}

Merge(e) ==
    LET r == editing[e] IN
    /\ r.at = "merge"
    /\ templates' = [i \in TemplateIds |->
          IF i \in Canonical(r) /\ Newer(r, i) # {}
          THEN LET j == CHOOSE j \in Newer(r, i) : TRUE
               IN  [templates[i] EXCEPT !.text = templates[j].text,
                                        !.cond = templates[j].cond,
                                        !.active = templates[j].active,
                                        !.updated = templates[j].updated]
          ELSE templates[i]]
    /\ StepOf(e, [r EXCEPT !.at = "drop"])
    /\ UNCHANGED <<made, clock>>

\* The legacy row goes where there is a canonical one.
DropLegacy(e) ==
    LET r == editing[e] IN
    /\ r.at = "drop"
    /\ templates' = [i \in TemplateIds |-> IF i \in Legacy(r) /\ Canonical(r) # {}
                                   THEN Gone ELSE templates[i]]
    /\ StepOf(e, [r EXCEPT !.at = "rename"])
    /\ UNCHANGED <<made, clock>>

\* What is left of the legacy rows is renamed, or violates the constraint.
Rename(e) ==
    LET r == editing[e] IN
    /\ r.at = "rename"
    /\ IF Legacy(r) # {} /\ Canonical(r) # {}
       THEN /\ StepOf(e, NoEdit)
            /\ UNCHANGED <<templates, clock>>
       ELSE /\ Tick
            /\ templates' = [i \in TemplateIds |->
                  IF i \in Legacy(r)
                  THEN [templates[i] EXCEPT !.channel = "in_app", !.updated = clock']
                  ELSE templates[i]]
            /\ StepOf(e, [r EXCEPT !.at = "insert"])
    /\ UNCHANGED made

\* The row itself; a row that is there already makes the request fail.
InsertTemplate(e) ==
    LET r == editing[e] IN
    /\ r.at = "insert"
    /\ StepOf(e, NoEdit)
    /\ IF Taken(r.type, r.channel, VariantKey(r.cond), {})
       THEN UNCHANGED <<templates, made, clock>>
       ELSE /\ Tick
            /\ made < MaxTemplates
            /\ made' = made + 1
            /\ templates' = [templates EXCEPT ![made + 1] =
                  [type |-> r.type, channel |-> r.channel, variant |-> VariantKey(r.cond),
                   cond |-> r.cond, text |-> clock', active |-> TRUE, updated |-> clock']]

\* PUT /templates/:id reads the row ...
ReadTemplate(e, i, change) ==
    /\ editing[e].at = "idle"
    /\ i \in Existing
    /\ StepOf(e, [at |-> "update", id |-> i, read |-> templates[i], change |-> change])
    /\ UNCHANGED <<templates, made, clock>>

WrittenUnderOldVariant(read, change, now) ==
    [read EXCEPT !.cond = IF "cond" \in DOMAIN change THEN change.cond ELSE read.cond,
                 !.active = IF "active" \in DOMAIN change THEN change.active ELSE @,
                 !.text = IF "text" \in DOMAIN change THEN now ELSE @,
                 !.updated = now]

\* ... and writes all its columns: the changed ones and, as they were read, the
\* others. The variant key is built anew from the condition written with it.
Written(read, change, now) ==
    LET cond == IF "cond" \in DOMAIN change THEN change.cond ELSE read.cond
    IN  [read EXCEPT !.cond = cond,
                     !.variant = VariantKey(cond),
                     !.active = IF "active" \in DOMAIN change THEN change.active ELSE @,
                     !.text = IF "text" \in DOMAIN change THEN now ELSE @,
                     !.updated = now]

UpdateTemplate(e) ==
    LET r == editing[e]
        row == Written(r.read, r.change, clock + 1)
    IN  /\ r.at = "update"
        /\ StepOf(e, NoEdit)
        /\ IF r.id \notin Existing
              \/ Taken(templates[r.id].type, templates[r.id].channel, row.variant, {r.id})
           THEN UNCHANGED <<templates, clock>>
           ELSE /\ Tick
                /\ templates' = [templates EXCEPT ![r.id] =
                      [row EXCEPT !.channel = templates[r.id].channel]]
        /\ UNCHANGED made

\* DELETE /templates/:id
DeleteTemplate(e, i) ==
    /\ editing[e].at = "idle"
    /\ i \in Existing
    /\ Tick
    /\ templates' = [templates EXCEPT ![i] = Gone]
    /\ StepOf(e, NoEdit)
    /\ UNCHANGED made

Edits == [text : {TRUE}] \cup [active : BOOLEAN]
           \cup [cond : Conditions \cup {Unconditional}]

TemplateNext ==
    \E e \in Editors :
       \/ \E type \in Types, channel \in {"in_app", "push"},
             cond \in Conditions \cup {Unconditional} : StartCreate(e, type, channel, cond)
       \/ Merge(e)
       \/ DropLegacy(e)
       \/ Rename(e)
       \/ InsertTemplate(e)
       \/ \E i \in TemplateIds, change \in Edits : ReadTemplate(e, i, change)
       \/ UpdateTemplate(e)
       \/ \E i \in TemplateIds : DeleteTemplate(e, i)

TemplateSpec == TemplateInit /\ [][TemplateNext]_templateVars

-----------------------------------------------------------------------------

\* prepareTemplates and pickBestTemplate: among the active rows of the type (an
\* alias may have chosen it) a conditional one that matches goes before the
\* default one.
Offered(type, channel) ==
    {i \in Existing : /\ templates[i].type = type
                  /\ templates[i].channel \in ChannelCandidates(channel)
                  /\ templates[i].active}

BestMatch(type, channel, variables) ==
    LET matching == {i \in Offered(type, channel) : MatchesCondition(templates[i], variables)}
        special == {i \in matching : templates[i].cond # Unconditional}
    IN  IF special # {} THEN special ELSE matching

\* Which template a user gets is decided by its condition: no two rows of a type
\* and channel match the same value of the same variable, however requests that
\* change conditions interleave and whatever the case the values are written in
\* (buildVariantKey, the unique constraint, templateMatchesCondition).  It is about
\* one channel without synonyms and one variable: in_app and inapp rows are both
\* offered, and conditions on two variables tie, which updated_at then decides.
ConditionsDecideAlone ==
    \A type \in Types, c \in Conditions :
        Cardinality(BestMatch(type, "push", [k \in {c.key} |-> c.value])) <= 1

=============================================================================
