-------------------------------- MODULE MCRuntime --------------------------------
(***************************************************************************)
(* The components that share no state with each other: the database pool,  *)
(* the live push, the audiences, the inbox, the next run, the template     *)
(* variables, the credentials, the dispatch to providers, and the requests *)
(* that change or trigger schedules. Every behaviour exercises one of them, *)
(* so a run explores the sum of their state spaces, not the product.       *)
(***************************************************************************)
EXTENDS DbPool, LivePush, Audiences, Inbox, NextRun, TemplateVariables, Credentials, Dispatch,
        SchedulePatches, ManualTrigger, TemplateResolution, TLC

NoSummer(o) == [std |-> o, dst |-> o, from |-> 0, until |-> 0]
MCZones == {NoSummer(-8), NoSummer(0), NoSummer(5),
            [std |-> 1, dst |-> 2, from |-> 24 * 31, until |-> 24 * 44 + 1],
            [std |-> 11, dst |-> 12, from |-> 24 * 31 + 1, until |-> 24 * 44 + 1]}
MCRecurrences == [frequency : {"daily"}, day : {0}, hours : {0, 2, 9, 23}]
               \cup [frequency : {"weekly"}, day : {0, 3}, hours : {0, 9, 23}]
               \cup [frequency : {"monthly"}, day : {1, 30}, hours : {0, 23}]
MCInstants == {24 * d + h : d \in {26, 28, 29, 30, 31, 32, 36, 43, 44, 45}, h \in 0..23}
MCMonthStart == <<0, 31, 59, 90>>

Text(indexes, names) == [indexes |-> indexes, names |-> names]
MCForms == [texts : {<<>>, <<Text(<<1>>, <<"name">>)>>, <<Text(<<2, 1>>, <<"name">>)>>,
                     <<Text(<<1>>, <<"title">>), Text(<<1, 2>>, <<"name", "time">>)>>},
            buttons : {<<>>, <<"QUICK_REPLY", "COPY_CODE">>, <<"URL", "URL">>}]
Partial(D, R) == UNION {[d -> R] : d \in SUBSET D}
MCValues == {"", "?ref=whatsapp", "a", "b", "c", "d", "e", "f", "g"}
MCInputs == [whatsapp : {NoList, <<>>, <<"a">>, <<"", "b", "c">>},
             params : {NoList, <<"d", "e">>},
             numeric : Partial({1, 2}, {"", "f"}),
             named : Partial({"name", "url"}, {"", "g"})]

MCAllowed == [c \in Channels |-> {"firebase", "onesignal"}]
Change(choice, filled, emptied) == [choice |-> choice, filled |-> filled, emptied |-> emptied]
MCChanges == {Change([c \in {"push"} |-> "firebase"], {"firebase"}, {}),
              Change([c \in {"push"} |-> "onesignal"], {"onesignal"}, {}),
              Change([c \in {} |-> Default], {}, {"firebase"}),
              Change([c \in {"push"} |-> "firebase"], {}, {})}

Address(n, spelling, valid) == [number |-> n, spelling |-> spelling, valid |-> valid]
MCUsers == {{}, {Address("a", 1, TRUE)}, {Address("a", 1, TRUE), Address("a", 2, TRUE)},
            {Address("a", 1, TRUE), Address("b", 1, TRUE)},
            {Address("a", 1, TRUE), Address("b", 1, FALSE)}}
\* Channel, the app's choice, and the server's adapter.
MCRoutes == {<<"push", "none", "firebase">>, <<"push", "firebase", "onesignal">>,
             <<"push", "onesignal", "firebase">>, <<"email", "none", "msg91">>,
             <<"email", "resend", "onesignal">>, <<"email", "none", "resend">>,
             <<"sms", "onesignal", "twilio">>, <<"sms", "msg91", "onesignal">>,
             <<"call", "none", "msg91">>, <<"whatsapp", "none", "meta">>,
             <<"whatsapp", "msg91", "meta">>, <<"inapp", "none", "inapp">>}
MCSetups == {[channel |-> r[1], own |-> r[2], server |-> r[3], user |-> u, configured |-> c] :
                r \in MCRoutes, u \in MCUsers, c \in BOOLEAN}

\* A weekly schedule needs a day, the others none.
MCTiming(f, d) == [frequency |-> f, day |-> d]
MCComputable == {MCTiming("daily", "none"), MCTiming("daily", "1"), MCTiming("weekly", "1")}
MCAnyChanges == Partial({"frequency"}, {"daily", "weekly"}) \cup Partial({"day"}, {"none", "1"})
                   \cup [{"frequency", "day"} -> {"weekly", "1"}]
MCTimingChanges == {c \in MCAnyChanges :
                              /\ "frequency" \in DOMAIN c => c["frequency"] # "1"
                              /\ "day" \in DOMAIN c => c["day"] # "weekly"}

Item(n, valid, owned, quota) == [id |-> n, valid |-> valid, owned |-> owned, quota |-> quota]
MCItems == {Item(1, FALSE, FALSE, "sms" :> "unlimited"),
            Item(2, TRUE, FALSE, "sms" :> "unlimited" @@ "push" :> "unlimited"),
            Item(3, TRUE, TRUE, "sms" :> "exhausted" @@ "push" :> "free"),
            Item(4, TRUE, TRUE, "sms" :> "exhausted"),
            Item(5, TRUE, TRUE, "sms" :> "exhausted" @@ "push" :> "unlimited")}

\* A type that is the name of a template too, one that others are mapped to.
MCMappedFor == ("otp" :> [type |-> "", cond |-> "none"])
               @@ ("login" :> [type |-> "otp", cond |-> "vip"])
               @@ ("plain" :> [type |-> "otp", cond |-> "none"])
Ask(e, p, t, c) == [entity |-> e, parent |-> p, type |-> t, cond |-> c]
MCQuestions == {Ask("e", "p", "otp", "vip"), Ask("e", "e", "otp", "none"), Ask("nowhere", "p", "login", "none"),
                Ask("nowhere", "nowhere", "otp", "none")}
Alias(s, t, n) == [scope |-> s, type |-> t, to |-> n]
MCAliasStarts == {<<>>, <<Alias("p", "otp", "login")>>, <<Alias("e", "login", "plain"), Alias("f", "otp", "plain")>>}
MCAliasWrites == {[id |-> 0, row |-> Alias("e", "otp", "login")], [id |-> 1, row |-> Alias("f", "otp", "plain")]}
Rows(e, p, f) == ("e" :> e) @@ ("p" :> p) @@ ("f" :> f)
Row(o, l, n) == ("otp" :> o) @@ ("login" :> l) @@ ("plain" :> n)
NoRows == Row("none", "none", "none")
MCRowStarts == {Rows(Row("REJECTED", "none", "none"), Row("APPROVED", "none", "none"), Row("APPROVED", "APPROVED", "none")),
                Rows(Row("none", "APPROVED", "none"), NoRows, Row("REJECTED", "none", "APPROVED")),
                Rows(Row("none", "REJECTED", "none"), Row("none", "none", "REJECTED"), Row("APPROVED", "none", "none"))}

-----------------------------------------------------------------------------

VARIABLE part

Parts == {"pool", "push", "audiences", "inbox", "next run", "variables",
          "credentials", "dispatch", "patches", "trigger", "resolution"}

\* The components a behaviour does not exercise start in one fixed state.
Fixed ==
    /\ IF part = "audiences" THEN TRUE ELSE members = {}
    /\ IF part = "next run" THEN TRUE
       ELSE /\ zone = CHOOSE z \in Zones : TRUE
            /\ schedule = CHOOSE s \in Recurrences : TRUE
            /\ after = CHOOSE t \in Instants : TRUE
    /\ IF part = "variables" THEN TRUE
       ELSE /\ form = CHOOSE f \in Forms : TRUE
            /\ given = CHOOSE v \in Inputs : TRUE
    /\ IF part = "dispatch" THEN TRUE ELSE setup = CHOOSE s \in Setups : TRUE
    /\ IF part = "patches" THEN TRUE ELSE timing = CHOOSE t \in Computable : TRUE
    /\ IF part = "resolution" THEN TRUE
       ELSE /\ batch = TRUE /\ fallbackAt = Nowhere /\ metaRows = CHOOSE r \in RowStarts : TRUE
            /\ aliases = [i \in AliasIds |-> NoAlias]

RuntimeInit ==
    /\ part \in Parts
    /\ Fixed
    /\ PoolInit /\ PushInit /\ AudienceInit /\ InboxInit /\ NextRunInit
    /\ FormInit /\ CredentialsInit
    /\ DispatchInit /\ PatchInit /\ TriggerInit /\ ResolutionInit

RuntimeNext ==
    \/ /\ part = "pool" /\ PoolNext
       /\ UNCHANGED <<part, pushVars, audienceVars, inboxVars, nextRunVars, formVars,
                      credentialsVars, dispatchVars, patchVars, triggerVars, resolutionVars>>
    \/ /\ part = "push" /\ PushNext
       /\ UNCHANGED <<part, poolVars, audienceVars, inboxVars, nextRunVars, formVars,
                      credentialsVars, dispatchVars, patchVars, triggerVars, resolutionVars>>
    \/ /\ part = "audiences" /\ AudienceNext
       /\ UNCHANGED <<part, poolVars, pushVars, inboxVars, nextRunVars, formVars,
                      credentialsVars, dispatchVars, patchVars, triggerVars, resolutionVars>>
    \/ /\ part = "inbox" /\ InboxNext
       /\ UNCHANGED <<part, poolVars, pushVars, audienceVars, nextRunVars, formVars,
                      credentialsVars, dispatchVars, patchVars, triggerVars, resolutionVars>>
    \/ /\ part = "next run" /\ NextRunNext
       /\ UNCHANGED <<part, poolVars, pushVars, audienceVars, inboxVars, formVars,
                      credentialsVars, dispatchVars, patchVars, triggerVars, resolutionVars>>
    \/ /\ part = "variables" /\ FormNext
       /\ UNCHANGED <<part, poolVars, pushVars, audienceVars, inboxVars, nextRunVars,
                      credentialsVars, dispatchVars, patchVars, triggerVars, resolutionVars>>
    \/ /\ part = "credentials" /\ CredentialsNext
       /\ UNCHANGED <<part, poolVars, pushVars, audienceVars, inboxVars, nextRunVars,
                      formVars, dispatchVars, patchVars, triggerVars, resolutionVars>>
    \/ /\ part = "dispatch" /\ DispatchNext
       /\ UNCHANGED <<part, poolVars, pushVars, audienceVars, inboxVars, nextRunVars,
                      formVars, credentialsVars, patchVars, triggerVars, resolutionVars>>
    \/ /\ part = "patches" /\ PatchNext
       /\ UNCHANGED <<part, poolVars, pushVars, audienceVars, inboxVars, nextRunVars,
                      formVars, credentialsVars, dispatchVars, triggerVars, resolutionVars>>
    \/ /\ part = "trigger" /\ TriggerNext
       /\ UNCHANGED <<part, poolVars, pushVars, audienceVars, inboxVars, nextRunVars,
                      formVars, credentialsVars, dispatchVars, patchVars, resolutionVars>>
    \/ /\ part = "resolution" /\ ResolutionNext
       /\ UNCHANGED <<part, poolVars, pushVars, audienceVars, inboxVars, nextRunVars,
                      formVars, credentialsVars, dispatchVars, patchVars, triggerVars>>

RuntimeSpec == RuntimeInit /\ [][RuntimeNext]_<<part, poolVars, pushVars, audienceVars, inboxVars, nextRunVars,
                   formVars, credentialsVars, dispatchVars, patchVars, triggerVars, resolutionVars>>
=============================================================================
