---------------------------- MODULE MCSubmission ----------------------------
(***************************************************************************)
(* Two requests while the template is edited, or three while it is not: with  *)
(* the same key for two tenants or two events, with keys that become the same *)
(* by their colons, with two parents of one entity, and without a key, with   *)
(* and without a payload, on two channels of which the quota takes some.      *)
(***************************************************************************)
EXTENDS Submission, TLC

CONSTANTS r1, r2, r3, e1, p1, p2, k, x, y, plain, rich, other, push, email

Key1 == <<k>>
Key2 == <<k, y>>
MCKeys == {Key1, Key2}
MCEventOf == plain :> <<>> @@ rich :> <<x>> @@ other :> <<y>>

\* Key1 contains the event id of one payload, and with it Key2 is too long.
MCMentions == {<<Key1, rich>>}
MCTooLong == {<<Key2, rich>>}

MCFirst == [left \in SUBSET Channels \ {{}} |-> IF push \in left THEN push ELSE email]
MCWording == [c \in Channels |-> c]

MCBodies ==
    [entity : {e1}, parent : {p1}, key : {Key1}, data : {plain}]
    \cup [entity : {e1}, parent : {p2}, key : {Nobody}, data : {plain, rich}]
    \cup [entity : {Nobody}, parent : {Nobody}, key : {Key1}, data : {rich}]
    \cup [entity : {e1}, parent : {Nobody}, key : {Key1}, data : {rich, other}]
    \cup [entity : {e1}, parent : {Nobody}, key : {Key2}, data : {rich}]

MCInit ==
    /\ row = [r \in Requests |-> NoRow]
    /\ parentOf = [e \in Entities |-> Nobody]
    /\ jobs = [r \in Requests |-> {}]
    /\ \/ /\ text = MaxTexts
          /\ req = [r \in Requests |-> NoRequest]
       \/ /\ text = 0
          /\ \E over \in Requests :
                req = [r \in Requests |->
                         IF r # over THEN NoRequest
                         ELSE [pc |-> "refused", text |-> 0, named |-> Nobody, seen |-> {},
                               content |-> [entity |-> e1, parent |-> Nobody,
                                            key |-> Nobody, data |-> plain]]]

\* Three requests have bodies that meet in their keys alone.
MCFew == {c \in Bodies : c.key # Nobody /\ c.parent = Nobody /\ <<c.key, c.data>> \notin MCMentions}
MCConstraint ==
    \/ \E r \in Requests : Begun(r) /\ req[r].content \notin Bodies
    \/ \A r \in Requests : Begun(r) => req[r].content \in MCFew

MCSpec == MCInit /\ [][SubmissionNext]_submissionVars

MCSymmetry == Permutations(Requests)
=============================================================================
