------------------------------ MODULE WebRequests ------------------------------
(***************************************************************************)
(* The handlers of apps/web/src/server.ts beside the management of members: *)
(* a request looks its session up, decides by the role it found, and then    *)
(* works through awaits while other requests change roles, invitations and   *)
(* the Cluster scope.  A request slot runs a transaction of Membership or a  *)
(* handler; Membership's variables change by Membership's actions only.      *)
(*                                                                         *)
(* What most operations do is the matter of other modules (Experiments,      *)
(* Correlation, Attention): here they are performed.  Recent Log Windows and *)
(* the Cluster scope are modelled in full.                                   *)
(***************************************************************************)
EXTENDS Membership, RecentLogWindow

CONSTANTS
    Operations,  \* the operations that are requested
    Namespaces,  \* namespaces of the cluster
    Texts,       \* what a container has logged
    Tails,       \* numbers of lines that are asked for
    Trail,       \* bound: the audit records of the Workspace that handlers work in
    MaxHandlers  \* bound: handlers that start

ASSUME WebAssumption == Tails \subseteq 1..MaxLines /\ MaxHandlers \in Nat

\* The trail is that of a Workspace with an owner and no unused invitation.
ASSUME TrailAssumption ==
    /\ Trail \in Seq(Record)
    /\ Continuous(Trail)
    /\ \A v \in Invitations :
        /\ Times(Trail, "created", v) \in {0, 1} /\ Times(Trail, "revoked", v) = 0
        /\ Times(Trail, "admitted", v) = Times(Trail, "created", v)
    /\ Trail # <<>> => \E i \in Identities : RoleAfter(Trail, i, Len(Trail)) = "owner"

VARIABLES
    web,      \* what the handler of each slot is doing
    handlers, \* how many may still start
    scopes,   \* the saved Cluster scopes, the last one in force
    logged,   \* tracegarden_audit_records of action log.accessed
    answered  \* the Clusters that savers were answered with

webVars == <<web, handlers, scopes, logged, answered>>
allVars == <<vars, webVars>>

\* roleCapabilities, by the operations they are for.
Allowed ==
    [ owner    |-> {"logs", "configure", "retention", "decide", "experiment", "review"},
      operator |-> {"decide", "experiment", "review"},
      viewer   |-> {"review"},
      none     |-> {} ]

May(k, op) == op \in Allowed[k]

NoWindow == [tail |-> 0, lines |-> 0, bytes |-> 0]

\* What the logs of containers are cut to, as far as an audit record tells.
Windows ==
    {LET window == Bounded(ReadResponse(log[1]), log[2])
     IN [tail |-> log[2], lines |-> window.lines, bytes |-> window.bytes] : log \in Texts \X Tails}

\* Whatever a container has logged, its windows keep their limits.
WindowsFit == \A window \in Windows : window.lines <= window.tail /\ window.bytes <= MaxBytes

\* One handler: what the session said, and what it has read since.
NoHandler ==
    [at |-> "idle", number |-> 0, who |-> NoOne, op |-> "none", sees |-> "none",
     began |-> 0, now |-> 0, known |-> 0, scope |-> {},
     cluster |-> 0, namespaces |-> {}, window |-> NoWindow]

\* A Workspace whose members have been admitted, with their invitations used.
Settled ==
    /\ audit = Trail
    /\ role = [i \in Identities |-> RoleAfter(Trail, i, Len(Trail))]
    /\ invitation = [v \in Invitations |->
                        [state |-> IF Times(Trail, "created", v) = 1 THEN "accepted" ELSE "none",
                         email |-> EmailOf[Bootstrap]]]
    /\ tx = [r \in Requests |-> Idle]

WebInit ==
    /\ \/ Init /\ handlers = 0
       \/ Settled /\ handlers = MaxHandlers
    /\ web = [r \in Requests |-> NoHandler]
    /\ scopes \in {<<>>, <<[id |-> 0, namespaces |-> Namespaces]>>}
    /\ logged = {} /\ answered = {}

Free(r) == tx[r].at = "idle" /\ web[r].at = "idle"

Answer(r) == web' = [web EXCEPT ![r] = NoHandler]

\* The operation has its effect now; the answer is on its way.
Done(r) == web' = [web EXCEPT ![r].at = "done", ![r].now = Len(audit), ![r].namespaces = {}]

-----------------------------------------------------------------------------
(* Session and capability.                                                  *)

\* workspaceSession: the member and the role of a session.  A page handler
\* reads what it shows before it asks for the capability, another one asks first.
Arrive(r) ==
    /\ Free(r) /\ handlers > 0
    /\ \E i \in Identities, op \in Operations, page \in BOOLEAN :
        /\ role[i] # "none"
        /\ handlers' = handlers - 1
        /\ web' = IF page \/ May(role[i], op)
                  THEN [web EXCEPT ![r] =
                        [NoHandler EXCEPT !.at = IF page THEN "page" ELSE "run",
                            !.number = handlers, !.who = i, !.op = op,
                            !.sees = IF page THEN role[i] ELSE "none",
                            !.began = Len(audit), !.known = IF op = "logs" THEN Len(scopes) ELSE 0]]
                  ELSE web
    /\ UNCHANGED <<scopes, logged, answered>>

\* A handler of a page goes on with the scope it has read for its page.
Run(r) ==
    web' = [web EXCEPT ![r].at = "run", ![r].sees = "none",
                       ![r].scope = IF web[r].op = "logs" THEN {Len(scopes)} ELSE {}]

\* Mutant: a page handler leaves the check to the links it does not show.
PageUnchecked(r) ==
    /\ web[r].at = "page"
    /\ Run(r)
    /\ UNCHANGED <<handlers, scopes, logged, answered>>

\* A page handler: the scope, then the capability.
Page(r) ==
    /\ web[r].at = "page"
    /\ IF May(web[r].sees, web[r].op)
       THEN Run(r)
       ELSE Answer(r)
    /\ UNCHANGED <<handlers, scopes, logged, answered>>

\* The operations of the other stores.
Perform(r) ==
    /\ web[r].at = "run" /\ web[r].op \notin {"logs", "configure"}
    /\ Done(r)
    /\ UNCHANGED <<handlers, scopes, logged, answered>>

-----------------------------------------------------------------------------
(* requestRecentLogWindow.                                                  *)

\* The request names a Cluster and a namespace; both are compared with the
\* scope, which a page handler has read before.
ValidateScope(r) ==
    LET at == IF web[r].scope = {} THEN Len(scopes) ELSE CHOOSE k \in web[r].scope : TRUE IN
    /\ web[r].at = "run" /\ web[r].op = "logs"
    /\ \E c \in {scopes[k].id : k \in DOMAIN scopes} \cup {0}, n \in Namespaces :
        IF at # 0 /\ scopes[at].id = c /\ n \in scopes[at].namespaces
        THEN web' = [web EXCEPT ![r].at = "read", ![r].cluster = c, ![r].namespaces = {n}, ![r].scope = {}]
        ELSE Answer(r)
    /\ UNCHANGED <<handlers, scopes, logged, answered>>

\* The adapter reads the end of the log.
ReadLog(r) ==
    /\ web[r].at = "read"
    /\ \E window \in Windows :
        web' = [web EXCEPT ![r].at = "audit", ![r].now = Len(audit), ![r].window = window]
    /\ UNCHANGED <<handlers, scopes, logged, answered>>

\* What an audit record says of a window.
Access(r) ==
    [number |-> web[r].number, who |-> web[r].who, cluster |-> web[r].cluster,
     namespaces |-> web[r].namespaces, lines |-> web[r].window.lines, bytes |-> web[r].window.bytes]

\* Mutant: the window is shown although its audit record could not be written.
RecordLogAccessOrNot(r) ==
    /\ web[r].at = "audit"
    /\ MembersFree(r)
    /\ logged' \in {logged, logged \cup {Access(r)}}
    /\ web' = [web EXCEPT ![r].at = "done"]
    /\ UNCHANGED <<handlers, scopes, answered>>

\* recordLogAccess; the record of its actor waits for a lock on the member.
RecordLogAccess(r) ==
    /\ web[r].at = "audit"
    /\ MembersFree(r)
    /\ logged' = logged \cup {Access(r)}
    /\ web' = [web EXCEPT ![r].at = "done"]
    /\ UNCHANGED <<handlers, scopes, answered>>

-----------------------------------------------------------------------------
(* configureClusterScope.                                                   *)

\* The scope in force gives its Cluster; the first one brings its own.
Configure(r) ==
    /\ web[r].at = "run" /\ web[r].op = "configure"
    /\ \E ns \in (SUBSET Namespaces) \ {{}} :
        web' = [web EXCEPT ![r].at = "save", ![r].namespaces = ns,
                    ![r].cluster = IF scopes = <<>> THEN web[r].number ELSE Last(scopes).id]
    /\ UNCHANGED <<handlers, scopes, logged, answered>>

\* Mutant: the caller is answered with what it asked for.
SaveAnsweringInput(r) ==
    LET id == IF scopes = <<>> THEN web[r].cluster ELSE Last(scopes).id IN
    /\ web[r].at = "save"
    /\ scopes' = Append(scopes, [id |-> id, namespaces |-> web[r].namespaces])
    /\ answered' = answered \cup {web[r].cluster}
    /\ Done(r)
    /\ UNCHANGED <<handlers, logged>>

\* save: the row of the Workspace is updated but for its id, and returned.
Save(r) ==
    LET id == IF scopes = <<>> THEN web[r].cluster ELSE Last(scopes).id IN
    /\ web[r].at = "save"
    /\ scopes' = Append(scopes, [id |-> id, namespaces |-> web[r].namespaces])
    /\ answered' = answered \cup {id}
    /\ Done(r)
    /\ UNCHANGED <<handlers, logged>>

-----------------------------------------------------------------------------
\* The answer is sent.
Respond(r) ==
    /\ web[r].at = "done"
    /\ Answer(r)
    /\ UNCHANGED <<handlers, scopes, logged, answered>>

\* A read, the adapter or a transaction fails, or the process dies.
HandlerFails(r) ==
    /\ web[r].at # "idle"
    /\ Answer(r)
    /\ UNCHANGED <<handlers, scopes, logged, answered>>

Handle(r) ==
    \/ Page(r) \/ Perform(r)
    \/ ValidateScope(r) \/ ReadLog(r) \/ RecordLogAccess(r)
    \/ Configure(r) \/ Save(r) \/ Respond(r)

\* A member manages members, or signs in.
Manage(r) ==
    \/ Step(r) \/ Fail(r)
    \/ /\ web[r].at = "idle"
       /\ (SignIn(r) \/ BeginInvite(r) \/ BeginRevoke(r) \/ BeginAssign(r))

WebNext ==
    \E r \in Requests :
        \/ Manage(r) /\ UNCHANGED webVars
        \/ (Arrive(r) \/ Handle(r) \/ HandlerFails(r)) /\ UNCHANGED vars

WebSpec == WebInit /\ [][WebNext]_allVars

\* Statements end, locks are granted in the order of their requests, and what
\* is awaited answers.
WebFairSpec ==
    WebSpec /\ \A r \in Requests : SF_vars(Step(r)) /\ SF_webVars(Handle(r))

-----------------------------------------------------------------------------
(* Properties.                                                              *)

\* What a request does, its member was allowed to do at some moment since its
\* session was looked up: a change of role that came before a request began is
\* heeded by it, whichever handler it is for.
EffectsAuthorized ==
    \A r \in Requests :
        web[r].at = "done" \/ web[r].at = "audit" =>
            \E m \in web[r].began..web[r].now : May(RoleAfter(audit, web[r].who, m), web[r].op)

\* A window that is answered has an audit record of its member, place and size,
\* is of a namespace that was approved while its request was served, and is
\* within its limits (requestRecentLogWindow).
WindowsAccounted ==
    \A r \in Requests :
        web[r].at = "done" /\ web[r].op = "logs" =>
            /\ Access(r) \in logged
            /\ \E k \in web[r].known..Len(scopes) :
                /\ k # 0 /\ scopes[k].id = web[r].cluster
                /\ web[r].namespaces \subseteq scopes[k].namespaces
            /\ web[r].window.lines <= web[r].window.tail /\ web[r].window.bytes <= MaxBytes

\* A Cluster keeps the identity that owners were told, also when two of them
\* save the first scope at once (configureClusterScope, save).
ClusterKeepsIdentity == \A k \in DOMAIN scopes : answered \subseteq {scopes[k].id}

\* Every transaction and every handler ends.
AllRequestsEnd == \A r \in Requests : ~Free(r) ~> Free(r)
=============================================================================
