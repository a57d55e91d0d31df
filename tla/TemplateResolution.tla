-------------------------- MODULE TemplateResolution --------------------------
(*************************************************************************)
(* From the type of a notification to the WhatsApp template that is      *)
(* sent: an alias of the type (utils/template-alias.js), a template      *)
(* mapped to it, and the row of that name (utils/whatsapp-template.js).  *)
(* Each is looked for at the entity, its parent and the fallback of the  *)
(* app, in statements of their own, while aliases, templates and the     *)
(* fallback change. Rows have one language here. WhatsAppTemplates has   *)
(* the last step with the owner's session, and shows where the rows come *)
(* from.                                                                 *)
(*************************************************************************)
EXTENDS Naturals, Sequences, FiniteSets

CONSTANTS
    Scopes,         \* entities
    TemplateNames,  \* types of notifications and names of templates are one kind of name
    MappedFor,      \* [TemplateNames -> the type and condition its rows are mapped to, or neither]
    AliasIds,       \* rows template_alias ever has
    AliasStarts,    \* the rows it may have at first
    AliasWrites,    \* what POST (id 0) and PUT ask for: records [id, row]
    Questions,      \* what notifications ask: records [entity, parent, type, cond]
    RowStarts,      \* what whatsapp_meta_templates may hold at first
    Lookups,        \* notifications prepared at once
    AliasWriters,   \* POST and PUT /template-aliases at once
    MaxChanges      \* bound: writes of aliases, rows and the fallback, and failed statements

Nowhere == "nowhere"
Nameless == "nameless"
Status == {"none", "APPROVED", "REJECTED"}

ASSUME ResolutionAssumption ==
    /\ Nowhere \notin Scopes /\ Nameless \notin TemplateNames /\ MaxChanges \in Nat
    /\ RowStarts \subseteq [Scopes -> [TemplateNames -> Status]]
    /\ \A q \in Questions : {q.entity, q.parent} \subseteq Scopes \cup {Nowhere} /\ q.type \in TemplateNames

VARIABLES
    batch,      \* config.performance.enableBatchTemplateQueries
    aliases,    \* [AliasIds -> row of template_alias]
    metaRows,   \* [Scopes -> [TemplateNames -> status, of the row in whatsapp_meta_templates]]
    fallbackAt, \* the entity of the active fallback session
    cachedAt,   \* what Redis holds of it
    lookup,     \* [Lookups -> where a notification's preparation is]
    writing,    \* [AliasWriters -> the alias between its check and its INSERT or UPDATE]
    disturbed,  \* history: the lookups that anything changed, failed or was stale for
    changes

resolutionVars == <<batch, aliases, metaRows, fallbackAt, cachedAt, lookup, writing, disturbed, changes>>

NoAlias == [scope |-> Nowhere, type |-> Nameless, to |-> Nameless]
NoLookup == [pc |-> "idle", q |-> <<>>, name |-> Nameless, at |-> <<>>, chosen |-> <<Nowhere, Nameless>>]
NotWriting == [busy |-> FALSE, id |-> 0, row |-> NoAlias]

ResolutionInit ==
    /\ batch \in BOOLEAN
    /\ \E rows \in AliasStarts :
          aliases = [i \in AliasIds |-> IF i \in DOMAIN rows THEN rows[i] ELSE NoAlias]
    /\ metaRows \in RowStarts
    /\ fallbackAt \in Scopes \cup {Nowhere} /\ cachedAt = Nowhere
    /\ lookup = [k \in Lookups |-> NoLookup]
    /\ writing = [w \in AliasWriters |-> NotWriting]
    /\ disturbed = {} /\ changes = 0

resolutionTables == <<aliases, metaRows, fallbackAt>>
UnchangedTables == UNCHANGED <<batch, resolutionTables, writing, changes>>

-----------------------------------------------------------------------------
(* Searching scope after scope *)

Distinct(s) == SelectSeq(s, LAMBDA x : x # Nowhere)
OwnScopes(q) == Distinct(IF q.entity = q.parent THEN <<q.entity>> ELSE <<q.entity, q.parent>>)

\* Entity, parent, fallback: without repetition, and without those there are not.
CandidatesWith(q, f) ==
    IF f = Nowhere \/ f \in {q.entity, q.parent} THEN OwnScopes(q) ELSE Append(OwnScopes(q), f)

\* The first scope that has what is looked for.
Nearest(scopes, having) ==
    LET hits == {i \in DOMAIN scopes : scopes[i] \in having}
    IN  IF hits = {} THEN Nowhere ELSE scopes[CHOOSE i \in hits : \A j \in hits : i <= j]

AliasAt(scope, type) == {i \in AliasIds : aliases[i].scope = scope /\ aliases[i].type = type}
AliasTarget(scope, type) == aliases[CHOOSE i \in AliasAt(scope, type) : TRUE].to

Aliased(scopes, type) ==
    LET s == Nearest(scopes, {x \in Scopes : AliasAt(x, type) # {}})
    IN  IF s = Nowhere THEN type ELSE AliasTarget(s, type)

\* Templates of a scope that are approved and mapped to a type under a condition.
MappedAt(scope, type, cond) ==
    {n \in TemplateNames : metaRows[scope][n] = "APPROVED" /\ MappedFor[n] = [type |-> type, cond |-> cond]}

MappedNames(scopes, type, cond) ==
    LET s == Nearest(scopes, {x \in Scopes : MappedAt(x, type, cond) # {}})
    IN  IF s = Nowhere THEN {} ELSE MappedAt(s, type, cond)

RowAt(scopes, name, statuses) ==
    LET s == Nearest(scopes, {x \in Scopes : metaRows[x][name] \in statuses})
    IN  <<s, IF s = Nowhere THEN Nameless ELSE name>>

-----------------------------------------------------------------------------
(* Preparing a notification *)

To(k, pc) == lookup' = [lookup EXCEPT ![k].pc = pc]

StartLookup(k, q) ==
    /\ lookup[k] = NoLookup
    /\ lookup' = [lookup EXCEPT ![k] = [NoLookup EXCEPT !.pc = "scopes", !.q = q, !.name = q.type]]
    /\ UnchangedTables /\ UNCHANGED <<cachedAt, disturbed>>

\* resolveTemplateAlias reads the fallback from the table ..
AliasScopes(k) ==
    /\ lookup[k].pc = "scopes"
    /\ lookup' = [lookup EXCEPT ![k].pc = "alias", ![k].at = CandidatesWith(lookup[k].q, fallbackAt)]
    /\ UnchangedTables /\ UNCHANGED <<cachedAt, disturbed>>

\* One statement asks all scopes, or one after the other.
Asked(k) == IF batch \/ lookup[k].at = <<>> THEN lookup[k].at ELSE <<Head(lookup[k].at)>>
Rest(k) == IF batch \/ lookup[k].at = <<>> THEN <<>> ELSE Tail(lookup[k].at)

\* An alias of an alias is not followed.
AskAlias(k) ==
    LET name == Aliased(Asked(k), lookup[k].q.type)
    IN  /\ lookup[k].pc = "alias"
        /\ lookup' = IF name # lookup[k].q.type \/ Rest(k) = <<>>
                     THEN [lookup EXCEPT ![k].pc = "candidates", ![k].name = name]
                     ELSE [lookup EXCEPT ![k].at = Rest(k)]
        /\ UnchangedTables /\ UNCHANGED <<cachedAt, disturbed>>

\* .. and resolveTemplateEntityCandidates from the cache, which it fills after a
\* miss (WhatsAppSessions has the steps of that); a cached entity may have run out.
\* It is asked once for the mapping and once for the template.
With(k, at) ==
    LET pc == CASE lookup[k].pc = "candidates" /\ at = <<>> -> "again"
                [] lookup[k].pc = "candidates" /\ at # <<>> -> IF lookup[k].q.cond # "none" THEN "conditional" ELSE "plain"
                [] OTHER -> IF at = <<>> THEN "done" ELSE "find"
    IN  lookup' = [lookup EXCEPT ![k].pc = pc, ![k].at = at]

ReadCandidates(k) ==
    \E f \in {fallbackAt} \cup ({cachedAt} \ {Nowhere}) :
        /\ lookup[k].pc \in {"candidates", "again"}
        /\ With(k, CandidatesWith(lookup[k].q, f)) /\ cachedAt' = f
        /\ disturbed' = IF f = fallbackAt THEN disturbed ELSE disturbed \cup {k}
        /\ UnchangedTables

\* resolveNotificationTypeToWhatsAppTemplate: a template mapped to the type under
\* its condition, then one mapped without any; the first row of a scope is any.
AskMapping(k) ==
    LET cond == IF lookup[k].pc = "plain" THEN "none" ELSE lookup[k].q.cond
        names == MappedNames(lookup[k].at, lookup[k].name, cond)
    IN  /\ lookup[k].pc \in {"conditional", "plain"}
        /\ IF names # {} THEN \E n \in names : lookup' = [lookup EXCEPT ![k].pc = "again", ![k].name = n]
           ELSE To(k, IF lookup[k].pc = "plain" THEN "again" ELSE "plain")
        /\ UnchangedTables /\ UNCHANGED <<cachedAt, disturbed>>

SendWith(k, row) == lookup' = [lookup EXCEPT ![k].pc = "done", ![k].chosen = row]

\* findCachedSendableTemplate in one statement: a row that is approved, and if
\* there is none, another statement for any row ..
AskApprovedAnyStatus(k) ==
    /\ batch /\ lookup[k].pc = "find"
    /\ SendWith(k, RowAt(lookup[k].at, lookup[k].name, Status \ {"none"}))
    /\ UnchangedTables /\ UNCHANGED <<cachedAt, disturbed>>

AskApproved(k) ==
    LET row == RowAt(lookup[k].at, lookup[k].name, {"APPROVED"})
    IN  /\ batch /\ lookup[k].pc = "find"
        /\ IF row[1] # Nowhere THEN SendWith(k, row) ELSE To(k, "any")
        /\ UnchangedTables /\ UNCHANGED <<cachedAt, disturbed>>

AskAny(k) ==
    /\ lookup[k].pc = "any"
    /\ SendWith(k, RowAt(lookup[k].at, lookup[k].name, Status \ {"none"}))
    /\ UnchangedTables /\ UNCHANGED <<cachedAt, disturbed>>

\* .. or scope after scope, where the first row ends the search, approved or not.
AskScope(k) ==
    LET row == RowAt(Asked(k), lookup[k].name, Status \ {"none"})
    IN  /\ ~batch /\ lookup[k].pc = "find"
        /\ IF row[1] # Nowhere \/ Rest(k) = <<>> THEN SendWith(k, row)
           ELSE lookup' = [lookup EXCEPT ![k].at = Rest(k)]
        /\ UnchangedTables /\ UNCHANGED <<cachedAt, disturbed>>

-----------------------------------------------------------------------------
(* What changes meanwhile *)

Underway == {k \in Lookups : lookup[k].pc \notin {"idle", "done", "failed"}}
Disturbance ==
    /\ changes < MaxChanges /\ changes' = changes + 1
    /\ disturbed' = disturbed \cup {k \in Lookups : lookup[k] # NoLookup}

\* A statement fails.  Without its aliases the request fails; without the fallback
\* it goes on with its own entities, without a mapping by the name it has, and
\* without a row it sends none.
StatementFails(k) ==
    /\ k \in Underway /\ Disturbance
    /\ CASE lookup[k].pc \in {"scopes", "alias"} -> To(k, "failed")
         [] lookup[k].pc \in {"candidates", "again"} -> With(k, OwnScopes(lookup[k].q))
         [] lookup[k].pc \in {"conditional", "plain"} -> To(k, "again")
         [] OTHER -> To(k, "done")
    /\ UNCHANGED <<batch, resolutionTables, cachedAt, writing>>

\* POST and PUT /template-aliases: the template must be at the scope ..
CheckTarget(w, id, row) ==
    /\ ~writing[w].busy /\ row.type # row.to
    /\ metaRows[row.scope][row.to] # "none"
    /\ writing' = [writing EXCEPT ![w] = [busy |-> TRUE, id |-> id, row |-> row]]
    /\ UNCHANGED <<batch, resolutionTables, cachedAt, lookup, disturbed, changes>>

\* .. when it was asked.  POST replaces the alias of the same scope and type; PUT
\* moves the one of its id, unless it is gone or another is where it goes.
\* DELETE reads a table that is not there and always fails.
SaveAlias(w) ==
    LET row == writing[w].row
        there == AliasAt(row.scope, row.type)
        free == {i \in AliasIds : aliases[i] = NoAlias}
        id == CASE writing[w].id # 0 -> writing[w].id
                [] writing[w].id = 0 /\ there # {} -> CHOOSE i \in there : TRUE
                [] OTHER -> CHOOSE i \in free : TRUE
        stored == IF writing[w].id = 0 THEN there # {} \/ free # {}
                  ELSE aliases[id] # NoAlias /\ there \subseteq {id}
    IN  /\ writing[w].busy /\ Disturbance
        /\ writing' = [writing EXCEPT ![w] = NotWriting]
        /\ aliases' = IF stored THEN [aliases EXCEPT ![id] = row] ELSE aliases
        /\ UNCHANGED <<batch, metaRows, fallbackAt, cachedAt, lookup>>

\* A sync, or a refused send (WhatsAppTemplates).
TemplateChanges(s, n, status) ==
    /\ metaRows[s][n] # status /\ Disturbance
    /\ metaRows' = [metaRows EXCEPT ![s][n] = status]
    /\ UNCHANGED <<batch, aliases, fallbackAt, cachedAt, lookup, writing>>

\* Another session becomes the fallback (WhatsAppSessions); only some routes
\* drop the cached one.
FallbackMoves(f) ==
    /\ fallbackAt # f /\ Disturbance /\ fallbackAt' = f
    /\ cachedAt' \in {cachedAt, Nowhere}
    /\ UNCHANGED <<batch, aliases, metaRows, lookup, writing>>

ResolutionNext ==
    \/ \E k \in Lookups : \/ \E q \in Questions : StartLookup(k, q)
                          \/ AliasScopes(k) \/ AskAlias(k) \/ ReadCandidates(k) \/ AskMapping(k)
                          \/ AskApproved(k) \/ AskAny(k) \/ AskScope(k) \/ StatementFails(k)
    \/ \E w \in AliasWriters :
          \/ \E ask \in AliasWrites : CheckTarget(w, ask.id, ask.row)
          \/ SaveAlias(w)
    \/ \E s \in Scopes, n \in TemplateNames, status \in Status : TemplateChanges(s, n, status)
    \/ \E f \in Scopes \cup {Nowhere} : FallbackMoves(f)

ResolutionSpec == ResolutionInit /\ [][ResolutionNext]_resolutionVars

-----------------------------------------------------------------------------

ResolutionTypeOK ==
    /\ batch \in BOOLEAN
    /\ \A i \in AliasIds : aliases[i].scope \in Scopes \cup {Nowhere}
    /\ metaRows \in [Scopes -> [TemplateNames -> Status]]
    /\ {fallbackAt, cachedAt} \subseteq Scopes \cup {Nowhere}
    /\ \A k \in Lookups : lookup[k].name \in TemplateNames \cup {Nameless}
    /\ disturbed \subseteq Lookups /\ changes \in 0..MaxChanges

\* What template a notification of a type is to be sent with: the name is that of
\* the nearest alias, or what is mapped to it; the row is the nearest approved
\* one of that name, and an unapproved one only if there is none approved.
BestTemplates(q, f) ==
    LET at == CandidatesWith(q, f)
        name == Aliased(at, q.type)
        conditional == IF q.cond = "none" THEN {} ELSE MappedNames(at, name, q.cond)
        names == IF conditional # {} THEN conditional
                 ELSE IF MappedNames(at, name, "none") # {} THEN MappedNames(at, name, "none") ELSE {name}
        Best(n) == LET approved == RowAt(at, n, {"APPROVED"})
                   IN  IF approved[1] # Nowhere THEN approved ELSE RowAt(at, n, Status \ {"none"})
    IN  {Best(n) : n \in names}

\* The eight statements of a preparation, asked in batches, find what one look at
\* all tables would find, as long as nothing changes among them and they do not
\* read a stale fallback from the cache: the alias of one entity and the template
\* of another fit together.
PreparedAsOneLook ==
    \A k \in Lookups :
        lookup[k].pc = "done" /\ batch /\ k \notin disturbed
          => lookup[k].chosen \in BestTemplates(lookup[k].q, fallbackAt)

\* Contradicted: config/index.js:115 has the batch replace the sequential queries,
\* "legacy behavior"; but those stop at an unapproved row of a near entity, where
\* the batch prefers an approved one of a farther.
SequentialFindsTheSame ==
    \A k \in Lookups :
        lookup[k].pc = "done" /\ ~batch /\ k \notin disturbed
          => lookup[k].chosen \in BestTemplates(lookup[k].q, fallbackAt)
=============================================================================
