------------------------------ MODULE Membership ------------------------------
(***************************************************************************)
(* Admission and membership management (packages/db, PostgresAdmissionStore; *)
(* apps/web/src/server.ts, membershipApiSession).  Requests run in          *)
(* transactions at READ COMMITTED: what a statement reads is committed, what *)
(* it writes becomes visible at the commit, and only locks keep two of them  *)
(* apart -- the advisory lock of the Workspace for sign-ins, row locks for   *)
(* invitations, members and external identities.                            *)
(*                                                                         *)
(* One transaction is one record of tx.  at names what it does next; a step  *)
(* that waits for a lock is enabled when the lock is free.  An identity has  *)
(* one e-mail address.                                                      *)
(***************************************************************************)
EXTENDS Naturals, Sequences, FiniteSets, FiniteSetsExt

CONSTANTS
    Identities,     \* external identities (issuer and subject)
    NoOne,          \* no identity
    Bootstrap,      \* the configured bootstrap identity
    Emails,         \* normalized e-mail addresses
    EmailOf,        \* the address an identity signs in with
    Requests,       \* requests that may run at the same time
    LocalSessions,  \* sessions are rows of the database (local identities)
    MaxInvitations, \* bound: invitations
    MaxAudit        \* bound: audit records

ASSUME MembershipAssumption ==
    /\ NoOne \notin Identities
    /\ Bootstrap \in Identities
    /\ EmailOf \in [Identities -> Emails]
    /\ LocalSessions \in BOOLEAN
    /\ MaxInvitations \in Nat /\ MaxAudit \in Nat

VARIABLES
    role,       \* tracegarden_members: the role of an identity, "none" for no member
    invitation, \* tracegarden_invitations, in the order of their creation
    audit,      \* tracegarden_audit_records, in the order of their commit
    tx          \* what each request is doing

vars == <<role, invitation, audit, tx>>

Roles == {"owner", "operator", "viewer"}

Invitations == 1..MaxInvitations
Invitation  == [state : {"none", "pending", "accepted", "revoked"}, email : Emails]

Places ==
    {"idle",
     "admit", "lookup", "accept", "insert", "signin",   \* admit
     "invite",                                          \* createInvitation
     "revoke", "revoked",                               \* revokeInvitation
     "assign", "locked", "assigned"}                    \* assignMemberRole

Tx == [at : Places, who : Identities \cup {NoOne}, invitation : Invitations \cup {0},
       email : Emails, target : Identities \cup {NoOne}, from : Roles \cup {"none"}, to : Roles \cup {"none"}]

Record == [action : {"admitted", "role_changed", "created", "revoked"},
           target : Identities \cup {NoOne}, invitation : Invitations \cup {0},
           from : Roles \cup {"none"}, to : Roles \cup {"none"}]

Idle == [at |-> "idle", who |-> NoOne, invitation |-> 0, email |-> EmailOf[Bootstrap],
         target |-> NoOne, from |-> "none", to |-> "none"]

TypeOK ==
    /\ role \in [Identities -> Roles \cup {"none"}]
    /\ invitation \in [Invitations -> Invitation]
    /\ audit \in Seq(Record)
    /\ tx \in [Requests -> Tx]
    /\ \A r \in Requests :
        /\ tx[r].at # "idle" => tx[r].who # NoOne
        /\ tx[r].at = "assigned" => tx[r].from # "none"

Init ==
    /\ role = [i \in Identities |-> "none"]
    /\ invitation = [v \in Invitations |-> [state |-> "none", email |-> EmailOf[Bootstrap]]]
    /\ audit = <<>>
    /\ tx = [r \in Requests |-> Idle]

-----------------------------------------------------------------------------
(* Locks that a running transaction holds.                                  *)

AdvisoryLock   == {"lookup", "accept", "insert", "signin"}
MembersLock    == {"locked", "assigned"}
InvitationLock == {"insert", "revoked"}

MembersFree(r)       == \A q \in Requests \ {r} : tx[q].at \notin MembersLock
InvitationFree(r, v) == \A q \in Requests \ {r} : tx[q].at \in InvitationLock => tx[q].invitation # v
IdentityFree(r, i)   ==
    \A q \in Requests \ {r} : /\ ~(tx[q].at = "signin" /\ tx[q].who = i)
                              /\ ~(tx[q].at = "assigned" /\ tx[q].target = i)

Goto(r, place) == tx' = [tx EXCEPT ![r].at = place]
End(r)         == tx' = [tx EXCEPT ![r] = Idle]

Log(action, target, v, from, to) ==
    audit' = Append(audit, [action |-> action, target |-> target, invitation |-> v,
                            from |-> from, to |-> to])

-----------------------------------------------------------------------------
(* admit.                                                                   *)

\* An identity signs in.
SignIn(r) ==
    /\ tx[r].at = "idle" /\ Len(audit) < MaxAudit
    /\ \E i \in Identities : tx' = [tx EXCEPT ![r] = [Idle EXCEPT !.at = "admit", !.who = i]]
    /\ UNCHANGED <<role, invitation, audit>>

\* The advisory lock of the Workspace.
TakeLock(r) ==
    /\ tx[r].at = "admit"
    /\ \A q \in Requests : tx[q].at \notin AdvisoryLock
    /\ Goto(r, "lookup")
    /\ UNCHANGED <<role, invitation, audit>>

Matching(i) ==
    {v \in Invitations : invitation[v].state = "pending" /\ invitation[v].email = EmailOf[i]}

\* A member's identity is updated; the first sign-in of the bootstrap identity
\* makes the owner; everyone else needs the oldest invitation to their address.
LookUp(r) ==
    LET i     == tx[r].who
        first == i = Bootstrap /\ \A j \in Identities : role[j] = "none"
    IN
    /\ tx[r].at = "lookup"
    /\ \/ role[i] # "none" /\ IdentityFree(r, i) /\ Goto(r, "signin")
       \/ role[i] = "none" /\ first /\ tx' = [tx EXCEPT ![r].at = "insert", ![r].to = "owner"]
       \/ /\ role[i] = "none" /\ ~first
          /\ \E v \in Matching(i) :
                /\ \A w \in Matching(i) : v <= w
                /\ tx' = [tx EXCEPT ![r].at = "accept", ![r].invitation = v]
       \/ role[i] = "none" /\ ~first /\ Matching(i) = {} /\ End(r)
    /\ UNCHANGED <<role, invitation, audit>>

\* Mutant: the invitation is accepted without asking for its state again.
AcceptUnchecked(r) ==
    /\ tx[r].at = "accept"
    /\ InvitationFree(r, tx[r].invitation)
    /\ tx' = [tx EXCEPT ![r].at = "insert", ![r].to = "viewer"]
    /\ UNCHANGED <<role, invitation, audit>>

\* The invitation is accepted unless a revocation came first, which is waited
\* for; then the sign-in is rolled back.
Accept(r) ==
    /\ tx[r].at = "accept"
    /\ InvitationFree(r, tx[r].invitation)
    /\ IF invitation[tx[r].invitation].state = "pending"
       THEN tx' = [tx EXCEPT ![r].at = "insert", ![r].to = "viewer"]
       ELSE End(r)
    /\ UNCHANGED <<role, invitation, audit>>

\* The new member is inserted with its audit record and all is committed.
Insert(r) ==
    LET v == tx[r].invitation IN
    /\ tx[r].at = "insert"
    /\ role' = [role EXCEPT ![tx[r].who] = tx[r].to]
    /\ invitation' = IF v = 0 THEN invitation ELSE [invitation EXCEPT ![v].state = "accepted"]
    /\ Log("admitted", tx[r].who, v, "none", tx[r].to)
    /\ End(r)

\* A member's session is inserted, which waits for a lock on the member.
SignedIn(r) ==
    /\ tx[r].at = "signin"
    /\ LocalSessions => MembersFree(r)
    /\ End(r)
    /\ UNCHANGED <<role, invitation, audit>>

-----------------------------------------------------------------------------
(* Management.  The actor's capability is read with the session, before the  *)
(* transaction.                                                             *)

Begin(r, tail) ==
    /\ tx[r].at = "idle" /\ Len(audit) < MaxAudit
    /\ \E i \in Identities : role[i] = "owner" /\ tx' = [tx EXCEPT ![r] = [tail EXCEPT !.who = i]]
    /\ UNCHANGED <<role, invitation, audit>>

\* (A bound: an invitation for everyone who creates one.)
Invitable == Cardinality({q \in Requests : tx[q].at = "invite"})
                < Cardinality({v \in Invitations : invitation[v].state = "none"})

BeginInvite(r) == Invitable /\ \E e \in Emails : Begin(r, [Idle EXCEPT !.at = "invite", !.email = e])

\* The audit record of an actor waits for a lock on its member row.
Invite(r) ==
    /\ tx[r].at = "invite"
    /\ MembersFree(r)
    /\ \E v \in Invitations :
        /\ invitation[v].state = "none"
        /\ \A w \in Invitations : invitation[w].state = "none" => v <= w
        /\ invitation' = [invitation EXCEPT ![v] = [state |-> "pending", email |-> tx[r].email]]
        /\ Log("created", NoOne, v, "none", "none")
    /\ End(r)
    /\ UNCHANGED role

BeginRevoke(r) ==
    \E v \in Invitations : /\ invitation[v].state # "none"
                           /\ Begin(r, [Idle EXCEPT !.at = "revoke", !.invitation = v])

\* An unused invitation is marked; it is not found when it was used meanwhile.
Revoke(r) ==
    /\ tx[r].at = "revoke"
    /\ InvitationFree(r, tx[r].invitation)
    /\ IF invitation[tx[r].invitation].state = "pending" THEN Goto(r, "revoked") ELSE End(r)
    /\ UNCHANGED <<role, invitation, audit>>

Revoked(r) ==
    /\ tx[r].at = "revoked"
    /\ MembersFree(r)
    /\ invitation' = [invitation EXCEPT ![tx[r].invitation].state = "revoked"]
    /\ Log("revoked", NoOne, tx[r].invitation, "none", "none")
    /\ End(r)
    /\ UNCHANGED role

BeginAssign(r) ==
    \E i \in Identities, k \in Roles :
        Begin(r, [Idle EXCEPT !.at = "assign", !.target = i, !.to = k])

\* Mutant: role changes are not serialized.
LockMembersNot(r) ==
    /\ tx[r].at = "assign"
    /\ Goto(r, "locked")
    /\ UNCHANGED <<role, invitation, audit>>

\* Every member of the Workspace is locked for the role change.
LockMembers(r) ==
    /\ tx[r].at = "assign"
    /\ MembersFree(r)
    /\ Goto(r, "locked")
    /\ UNCHANGED <<role, invitation, audit>>

Owners == {i \in Identities : role[i] = "owner"}

\* Mutant: the change of no role returns without ending its transaction.
ReadTargetLeaking(r) ==
    LET i == tx[r].target IN
    /\ tx[r].at = "locked"
    /\ IdentityFree(r, i)
    /\ role[i] # tx[r].to
    /\ IF role[i] = "none" \/ Owners = {i}
       THEN End(r)
       ELSE tx' = [tx EXCEPT ![r].at = "assigned", ![r].from = role[i]]
    /\ UNCHANGED <<role, invitation, audit>>

\* The target and its identity are locked and read.  Nobody, no change and the
\* demotion of the last owner end the transaction.
ReadTarget(r) ==
    LET i == tx[r].target IN
    /\ tx[r].at = "locked"
    /\ IdentityFree(r, i)
    /\ IF role[i] \in {"none", tx[r].to} \/ Owners = {i}
       THEN End(r)
       ELSE tx' = [tx EXCEPT ![r].at = "assigned", ![r].from = role[i]]
    /\ UNCHANGED <<role, invitation, audit>>

Assigned(r) ==
    /\ tx[r].at = "assigned"
    /\ role' = [role EXCEPT ![tx[r].target] = tx[r].to]
    /\ Log("role_changed", tx[r].target, 0, tx[r].from, tx[r].to)
    /\ End(r)
    /\ UNCHANGED invitation

-----------------------------------------------------------------------------
\* A statement fails or the process dies: the transaction is rolled back.
Fail(r) ==
    /\ tx[r].at # "idle"
    /\ End(r)
    /\ UNCHANGED <<role, invitation, audit>>

\* A sign-in has locked its identity and waits for its member row; a role
\* change has locked the members and waits for the identity.  PostgreSQL
\* detects the cycle and rolls one of the two back.
BreakDeadlock(r) ==
    /\ LocalSessions
    /\ \E q \in Requests \ {r} :
        \/ tx[r].at = "signin" /\ tx[q].at = "locked" /\ tx[q].target = tx[r].who
        \/ tx[r].at = "locked" /\ tx[q].at = "signin" /\ tx[r].target = tx[q].who
    /\ End(r)
    /\ UNCHANGED <<role, invitation, audit>>

\* A transaction takes its next step.
Step(r) ==
    \/ TakeLock(r) \/ LookUp(r) \/ Accept(r) \/ Insert(r) \/ SignedIn(r)
    \/ Invite(r) \/ Revoke(r) \/ Revoked(r)
    \/ LockMembers(r) \/ ReadTarget(r) \/ Assigned(r)
    \/ BreakDeadlock(r)

Next ==
    \E r \in Requests :
        \/ Step(r) \/ Fail(r)
        \/ SignIn(r) \/ BeginInvite(r) \/ BeginRevoke(r) \/ BeginAssign(r)

Spec == Init /\ [][Next]_vars

\* Statements end, and locks are granted in the order of their requests.
FairSpec == Spec /\ \A r \in Requests : SF_vars(Step(r))

-----------------------------------------------------------------------------
(* Properties.                                                              *)

\* A Workspace that has members has an owner, however role changes, sign-ins
\* and failures interleave.
OwnerRemains == (\E i \in Identities : role[i] # "none") => Owners # {}

\* The records of member i among the first m of a trail, and the role that they
\* leave the member with.
RecordsOf(trail, i, m) ==
    {n \in 1..m : trail[n].action \in {"admitted", "role_changed"} /\ trail[n].target = i}

RoleAfter(trail, i, m) ==
    IF RecordsOf(trail, i, m) = {} THEN "none" ELSE trail[Max(RecordsOf(trail, i, m))].to

Times(trail, action, v) ==
    Cardinality({n \in DOMAIN trail : trail[n].action = action /\ trail[n].invitation = v})

\* A member is admitted once, as the bootstrap identity or by an invitation,
\* and every role change starts from the role that the records before it left.
Continuous(trail) ==
    \A n \in DOMAIN trail :
        trail[n].action \in {"admitted", "role_changed"} =>
            /\ trail[n].target \in Identities /\ trail[n].to \in Roles
            /\ trail[n].from = RoleAfter(trail, trail[n].target, n - 1)
            /\ trail[n].action = "admitted" <=> trail[n].from = "none"
            /\ trail[n].action = "admitted" /\ trail[n].invitation = 0 => trail[n].target = Bootstrap

\* The audit trail explains the members: an admission, then a chain of role
\* changes that ends in the role the member has.
TrailOfMembers ==
    /\ Continuous(audit)
    /\ \A i \in Identities : role[i] = RoleAfter(audit, i, Len(audit))

\* The audit trail explains the invitations: an invitation admits one member
\* or is revoked, never both and never twice.
TrailOfInvitations ==
    \A v \in Invitations :
        /\ Times(audit, "created", v) = (IF invitation[v].state = "none" THEN 0 ELSE 1)
        /\ Times(audit, "admitted", v) = (IF invitation[v].state = "accepted" THEN 1 ELSE 0)
        /\ Times(audit, "revoked", v) = (IF invitation[v].state = "revoked" THEN 1 ELSE 0)

AuditExplains == TrailOfMembers /\ TrailOfInvitations

\* A request that waits for locks gets them in the end.
RequestsEnd == \A r \in Requests : tx[r].at # "idle" ~> tx[r].at = "idle"
=============================================================================
