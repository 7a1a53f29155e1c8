--------------------------- MODULE PreviewLifecycle ---------------------------
(***************************************************************************)
(* The preview lifecycle controller (scripts/preview-lifecycle-controller), *)
(* a CronJob of which one pass runs at a time.  A pass reads namespaces,    *)
(* pull requests and digests one request after the other, decides, and      *)
(* applies the decisions by pull request number, again one request after    *)
(* the other; it may fail at every one of them, and keeps nothing: the next *)
(* pass starts from what GitHub and Kubernetes say.  Argo CD deploys what   *)
(* carries the preview label.                                               *)
(***************************************************************************)
EXTENDS PreviewAdmission

CONSTANTS
    Numbers,     \* pull request numbers
    Capacity,    \* the configured capacity
    MaxChanges,  \* bound: changes of pull requests and digest files
    MaxErrors    \* bound: requests that fail, passes that are killed

PreviewAssumption ==
    /\ Numbers \subseteq Nat \ {0}
    /\ IsCapacity(Capacity)
    /\ MaxChanges \in Nat /\ MaxErrors \in Nat

VARIABLES
    pull,       \* GitHub: the pull requests
    digests,    \* GitOps, protected branch: the pull requests with a digest file
    label,      \* GitHub: the pull requests with the preview label
    namespace,  \* Kubernetes: "none", "active" or "terminating"
    parts,      \* what a namespace has of "secret" and "account"
    pass,       \* the pass of the controller
    doomed,     \* history: labelled at last while the namespace was on its way out
    changes,
    errors

github  == <<pull, digests>>
cluster == <<namespace, parts>>
vars    == <<github, label, cluster, pass, doomed, changes, errors>>

Pull == [state : {"none", "open", "closed"}, draft : BOOLEAN]

\* Between two passes.
Idle == [at |-> "idle", existing |-> {}, records |-> <<>>, checked |-> {}, verdicts |-> <<>>, left |-> {}]

TypeOK ==
    /\ pull \in [Numbers -> Pull]
    /\ digests \subseteq Numbers /\ label \subseteq Numbers /\ doomed \subseteq Numbers
    /\ namespace \in [Numbers -> {"none", "active", "terminating"}]
    /\ parts \in [Numbers -> SUBSET {"secret", "account"}]
    /\ pass.at \in {"idle", "pulls", "reading", "turn", "delete", "secret", "account", "mark", "show"}
    /\ pass.existing \cup pass.checked \cup pass.left \subseteq Numbers
    /\ DOMAIN pass.records \subseteq Numbers /\ DOMAIN pass.verdicts \subseteq Numbers
    /\ changes \in 0..MaxChanges /\ errors \in 0..MaxErrors

\* The controller is installed when there are pull requests already, and
\* namespaces that carry its lifecycle label, some of no pull request.
Init ==
    /\ pull \in [Numbers -> {p \in Pull : p.state # "open" => ~p.draft}]
    /\ digests \in SUBSET Numbers
    /\ label = {} /\ doomed = {}
    /\ namespace \in [Numbers -> {"none", "active"}]
    /\ parts = [n \in Numbers |-> {}]
    /\ pass = Idle
    /\ changes = 0 /\ errors = 0

-----------------------------------------------------------------------------
(* A pass reads.                                                            *)

\* listPreviewNamespaces, those that are being deleted among them.
StartPass ==
    /\ pass.at = "idle"
    /\ pass' = [pass EXCEPT !.at = "pulls", !.existing = {n \in Numbers : namespace[n] # "none"}]
    /\ UNCHANGED <<github, label, cluster, doomed, changes, errors>>

RecordOf(n) == [state |-> IF pull[n].state = "none" THEN "closed" ELSE pull[n].state,
                draft |-> pull[n].draft, trusted |-> FALSE]

\* listOpenPullRequests.
ListPulls ==
    /\ pass.at = "pulls"
    /\ pass' = [pass EXCEPT !.at = "reading",
                            !.records = [n \in {m \in Numbers : pull[m].state = "open"} |-> RecordOf(n)]]
    /\ UNCHANGED <<github, label, cluster, doomed, changes, errors>>

\* Mutant: a namespace without an open pull request is not looked after.
NothingUnlisted == {}

\* Namespaces of pull requests that are not open.
Unlisted == pass.existing \ DOMAIN pass.records

First(numbers) == CHOOSE n \in numbers : \A m \in numbers : n <= m

\* getPullRequest.
LookUp ==
    /\ pass.at = "reading" /\ Unlisted # {}
    /\ LET n == First(Unlisted)
       IN  pass' = [pass EXCEPT !.records = [m \in DOMAIN @ \cup {n} |-> IF m = n THEN RecordOf(n) ELSE @[m]]]
    /\ UNCHANGED <<github, label, cluster, doomed, changes, errors>>

Unchecked ==
    {n \in DOMAIN pass.records \ pass.checked : pass.records[n].state = "open" /\ ~pass.records[n].draft}

\* hasTrustedDigest.
CheckDigest ==
    /\ pass.at = "reading" /\ Unlisted = {} /\ Unchecked # {}
    /\ LET n == First(Unchecked)
       IN  pass' = [pass EXCEPT !.records[n].trusted = n \in digests, !.checked = @ \cup {n}]
    /\ UNCHANGED <<github, label, cluster, doomed, changes, errors>>

Over(p) == IF p.left = {} THEN Idle ELSE p

\* The decisions, and the image pull secret of the operator.
Decide ==
    /\ pass.at = "reading" /\ Unlisted = {} /\ Unchecked = {}
    /\ pass' = Over([pass EXCEPT !.at = "turn",
                                 !.verdicts = Decisions(pass.records, Capacity),
                                 !.left = DOMAIN pass.records])
    /\ UNCHANGED <<github, label, cluster, doomed, changes, errors>>

-----------------------------------------------------------------------------
(* A pass applies its decisions to one pull request after the other.        *)

Current == First(pass.left)

\* The decision about n says whether it is admitted, and it is n's turn.
Turn(n, admitted) ==
    /\ pass.at = "turn" /\ n = Current
    /\ admitted <=> pass.verdicts[n] = "admitted"

Goto(place) == pass' = [pass EXCEPT !.at = place]

\* The next pull request has its turn.
Done == pass' = Over([pass EXCEPT !.at = "turn", !.left = @ \ {Current}])

\* setPreviewLabel(n, false).
Hide(n) ==
    /\ Turn(n, FALSE)
    /\ label' = label \ {n}
    /\ IF n \in pass.existing THEN Goto("delete") ELSE Done
    /\ UNCHANGED <<github, cluster, doomed, changes, errors>>

\* deleteNamespace: a request; one that is gone is no failure.
Delete(n) ==
    /\ pass.at = "delete" /\ n = Current
    /\ namespace' = [namespace EXCEPT ![n] = IF @ = "none" THEN "none" ELSE "terminating"]
    /\ Done
    /\ UNCHANGED <<github, label, parts, doomed, changes, errors>>

\* Mutant: a namespace that exists is taken to be complete.
EnsureTrusting(n) ==
    /\ Turn(n, TRUE)
    /\ namespace' = [namespace EXCEPT ![n] = IF @ = "none" THEN "active" ELSE @]
    /\ Goto(IF namespace[n] = "none" THEN "secret" ELSE "mark")
    /\ UNCHANGED <<github, label, parts, doomed, changes, errors>>

\* ensureNamespace.
Ensure(n) ==
    /\ Turn(n, TRUE)
    /\ namespace' = [namespace EXCEPT ![n] = IF @ = "none" THEN "active" ELSE @]
    /\ Goto("secret")
    /\ UNCHANGED <<github, label, parts, doomed, changes, errors>>

\* An object is patched if it is there, and created only in an active namespace.
Writable(n, part) == namespace[n] = "active" \/ part \in parts[n]

\* ensureImagePullAuthentication: the secret, then the service account.
Provide(n, part, place) ==
    /\ pass.at = part /\ n = Current
    /\ Writable(n, part)
    /\ parts' = [parts EXCEPT ![n] = @ \cup {part}]
    /\ Goto(place)
    /\ UNCHANGED <<github, label, namespace, doomed, changes, errors>>

ProvideSecret(n)  == Provide(n, "secret", "account")
ProvideAccount(n) == Provide(n, "account", "mark")

\* labelNamespace.
Mark(n) ==
    /\ pass.at = "mark" /\ n = Current
    /\ namespace[n] # "none"
    /\ Goto("show")
    /\ UNCHANGED <<github, label, cluster, doomed, changes, errors>>

\* setPreviewLabel(n, true).
Show(n) ==
    /\ pass.at = "show" /\ n = Current
    /\ label' = label \cup {n}
    /\ doomed' = IF namespace[n] = "active" THEN doomed \ {n} ELSE doomed \cup {n}
    /\ Done
    /\ UNCHANGED <<github, cluster, changes, errors>>

\* Kubernetes refuses what needs a namespace that is gone or going: the pass
\* ends with the error, and so do its remaining pull requests.
Refused(n) ==
    /\ n = Current
    /\ \/ pass.at \in {"secret", "account"} /\ ~Writable(n, pass.at)
       \/ pass.at = "mark" /\ namespace[n] = "none"
    /\ pass' = Idle
    /\ UNCHANGED <<github, label, cluster, doomed, changes, errors>>

\* Any other request fails, the operator's secret is missing, or the Job meets
\* its deadline.
PassFails ==
    /\ pass.at # "idle"
    /\ errors < MaxErrors /\ errors' = errors + 1
    /\ pass' = Idle
    /\ UNCHANGED <<github, label, cluster, doomed, changes>>

-----------------------------------------------------------------------------
(* GitHub and Kubernetes.                                                   *)

Successors(p) ==
    {q \in Pull :
        \/ p.state = "none" /\ q.state = "open"
        \/ p.state = "open" /\ q = [p EXCEPT !.state = "closed"]
        \/ p.state = "closed" /\ q = [p EXCEPT !.state = "open"]
        \/ p.state = "open" /\ q = [p EXCEPT !.draft = ~@]}

\* A pull request is opened, closed, reopened, or turned into a draft and back;
\* a digest file is published or withdrawn.
GitHubChange(n) ==
    /\ changes < MaxChanges /\ changes' = changes + 1
    /\ \/ \E p \in Successors(pull[n]) : pull' = [pull EXCEPT ![n] = p] /\ UNCHANGED digests
       \/ digests' \in {digests \cup {n}, digests \ {n}} \ {digests} /\ UNCHANGED pull
    /\ UNCHANGED <<label, cluster, pass, doomed, errors>>

\* A namespace that is being deleted loses its content, then itself.
Terminate(n) ==
    /\ namespace[n] = "terminating"
    /\ IF parts[n] = {}
       THEN namespace' = [namespace EXCEPT ![n] = "none"] /\ UNCHANGED parts
       ELSE \E part \in parts[n] : parts' = [parts EXCEPT ![n] = @ \ {part}] /\ UNCHANGED namespace
    /\ UNCHANGED <<github, label, pass, doomed, changes, errors>>

-----------------------------------------------------------------------------
Read == StartPass \/ ListPulls \/ LookUp \/ CheckDigest \/ Decide

Apply(n) ==
    \/ Hide(n) \/ Delete(n)
    \/ Ensure(n) \/ ProvideSecret(n) \/ ProvideAccount(n) \/ Mark(n) \/ Show(n)
    \/ Refused(n)

Pass == Read \/ \E n \in pass.left : Apply(n)

Next ==
    \/ Pass \/ PassFails
    \/ \E n \in Numbers : GitHubChange(n) \/ Terminate(n)

Spec == Init /\ [][Next]_vars

\* The CronJob starts pass after pass; Kubernetes carries deletions out.
Fairness ==
    /\ WF_vars(Pass)
    /\ \A n \in Numbers : WF_vars(Terminate(n))

FairSpec == Spec /\ Fairness

-----------------------------------------------------------------------------
(* Properties.                                                              *)

Provisioned(n) == namespace[n] = "active" /\ parts[n] = {"secret", "account"}

\* What carries the label, and so is deployed, has its namespace with secret
\* and service account, whichever pass stopped where and whatever was decided
\* since.  The exception is a pull request that was admitted again while its
\* namespace was still being deleted: the next pass provisions it anew.
LabelledIsProvisioned == \A n \in label : Provisioned(n) \/ n \in doomed

\* The pull requests that are to have an environment now.
Wanted ==
    AdmittedBy(Decisions([n \in {m \in Numbers : pull[m].state = "open"} |->
                             [state |-> "open", draft |-> pull[n].draft, trusted |-> n \in digests]],
                         Capacity))

Reconciled ==
    /\ {n \in label : pull[n].state = "open"} = Wanted
    /\ \A n \in Numbers : IF n \in Wanted THEN Provisioned(n) ELSE namespace[n] = "none"

\* Once GitHub is quiet, exactly the pull requests that are to have an
\* environment have one, and everything else is deleted: no failure, deadline
\* or namespace on its way out leaves something that no pass comes back to.
Converges == <>[]Reconciled
=============================================================================
