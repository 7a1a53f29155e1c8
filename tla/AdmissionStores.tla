--------------------------- MODULE AdmissionStores ---------------------------
(***************************************************************************)
(* The two implementations of AdmissionStore, MembershipStore and            *)
(* LogAuditStore in packages/db, one call at a time: MemoryAdmissionStore,   *)
(* which the tests run against, and the rows of PostgresAdmissionStore.      *)
(* What happens when calls interleave is the subject of Membership.          *)
(*                                                                         *)
(* An operation is a record; "at" is the time it runs.  An identity is a     *)
(* record of a key (issuer and subject) and an e-mail address as it is       *)
(* written; Member and invitation identifiers are drawn from a sequence, the *)
(* tokens of local sessions from another.  The sessions of Better Auth live  *)
(* elsewhere and are not looked up here (their token is 0).  An actor is a Member whose         *)
(* capabilities were read with its session, before the call.                 *)
(***************************************************************************)
EXTENDS Naturals, Sequences, FiniteSets, SequencesExt, TLC

CONSTANTS
    Absent,         \* null
    Bootstrap,      \* the key of the configured bootstrap identity
    NormalizeEmail, \* normalizeEmail, as a function of addresses
    EmailAddresses, \* the normalized addresses that are e-mail addresses
    Lifetime        \* of a local session

Roles == {"owner", "operator", "viewer"}

\* roleCapabilities.
RoleCapabilities ==
    LET read == {"workspace:read", "timeline:read"}
        work == {"experiment:write", "correlation:review"}
    IN [ owner    |-> read \cup work \cup
                      {"membership:manage", "cluster:configure", "logs:read", "retention:manage"},
         operator |-> read \cup work,
         viewer   |-> read ]

\* tracegarden_role_capabilities, as the migrations fill it: 0002, then 0005,
\* 0007, 0012 and 0014.
CapabilityRows ==
    {"owner", "operator", "viewer"} \X {"workspace:read", "timeline:read"}
    \cup {"owner", "operator"} \X {"experiment:write"}
    \cup {"owner"} \X {"membership:manage"}
    \cup {"owner"} \X {"cluster:configure"}
    \cup {"owner"} \X {"logs:read"}
    \cup {"owner", "operator"} \X {"correlation:review"}
    \cup {"owner"} \X {"retention:manage"}

\* validateExternalIdentity.
ValidIdentity(identity) == identity.key # "blank" /\ NormalizeEmail[identity.email] # "blank"

\* assertCanManage.
CanManage(op) == op.actor # Absent /\ "membership:manage" \in op.actor.capabilities

Audit(action, target, actor, metadata) ==
    [action |-> action, target |-> target, actor |-> actor, metadata |-> metadata]

-----------------------------------------------------------------------------
(* In memory.                                                               *)

EmptyMemory ==
    [ identities |-> <<>>, sessions |-> <<>>, invitations |-> <<>>, audits |-> <<>>,
      tokens |-> 0, answer |-> Absent ]

\* The role a new identity is admitted with, and its invitation.
MemoryInvitations(m, identity) ==
    {v \in DOMAIN m.invitations : /\ m.invitations[v].email = NormalizeEmail[identity.email]
                                  /\ m.invitations[v].state = "pending"}

MemorySession(m, member, op) ==
    LET token == IF op.auth THEN 0 ELSE m.tokens + 1 IN
    [m EXCEPT !.sessions = (token :> [member |-> member, expires |-> op.at + Lifetime]) @@ @,
              !.tokens = IF op.auth THEN @ ELSE @ + 1,
              !.answer = member]

\* The sessions of a Member hold its record.
WithMember(sessions, member) ==
    [t \in DOMAIN sessions |-> IF sessions[t].member.id = member.id
                               THEN [sessions[t] EXCEPT !.member = member] ELSE sessions[t]]

MemoryAdmit(m, op) ==
    LET key == op.identity.key
        first == DOMAIN m.identities = {} /\ key = Bootstrap
        pending == MemoryInvitations(m, op.identity)
        used == IF first THEN Absent ELSE CHOOSE v \in pending : \A w \in pending : v <= w
        role == IF first THEN "owner" ELSE "viewer"
        new == [id |-> Cardinality(DOMAIN m.identities) + 1, email |-> op.identity.email,
                role |-> role, capabilities |-> RoleCapabilities[role]]
        email == NormalizeEmail[op.identity.email]
    IN IF ~ValidIdentity(op.identity) THEN [m EXCEPT !.answer = "invalid_identity"]
       ELSE IF key \in DOMAIN m.identities
       THEN LET member == [m.identities[key] EXCEPT !.email = op.identity.email] IN
            MemorySession([m EXCEPT !.identities[key] = member,
                                    !.sessions = WithMember(@, member)], member, op)
       ELSE IF ~first /\ pending = {} THEN [m EXCEPT !.answer = "admission_required"]
       ELSE MemorySession([m EXCEPT
                !.identities = (key :> new) @@ @,
                !.invitations = IF used = Absent THEN @ ELSE [@ EXCEPT ![used].state = "accepted"],
                !.audits = Append(@, Audit("member.admitted", new.id, Absent, <<email, role, used>>))],
                new, op)

\* getSession drops a session that expired.
MemoryLookUp(m, op) ==
    IF op.token \notin DOMAIN m.sessions THEN [m EXCEPT !.answer = Absent]
    ELSE IF m.sessions[op.token].expires <= op.at
    THEN [m EXCEPT !.sessions = [t \in DOMAIN @ \ {op.token} |-> @[t]], !.answer = Absent]
    ELSE [m EXCEPT !.answer = m.sessions[op.token].member]

MemoryInvite(m, op) ==
    LET email == NormalizeEmail[op.email] IN
    IF ~CanManage(op) THEN [m EXCEPT !.answer = "forbidden"]
    ELSE IF email \notin EmailAddresses THEN [m EXCEPT !.answer = "invalid_email"]
    ELSE [m EXCEPT !.invitations = Append(@, [email |-> email, state |-> "pending"]),
                   !.audits = Append(@, Audit("invitation.created", Len(m.invitations) + 1, op.actor.id, email)),
                   !.answer = Len(m.invitations) + 1]

MemoryRevoke(m, op) ==
    IF ~CanManage(op) THEN [m EXCEPT !.answer = "forbidden"]
    ELSE IF op.id \notin DOMAIN m.invitations THEN [m EXCEPT !.answer = Absent]
    ELSE IF m.invitations[op.id].state # "pending" THEN [m EXCEPT !.answer = Absent]
    ELSE [m EXCEPT !.invitations[op.id].state = "revoked",
                   !.audits = Append(@, Audit("invitation.revoked", op.id, op.actor.id, m.invitations[op.id].email)),
                   !.answer = op.id]

MemoryAssign(m, op) ==
    LET keys == {k \in DOMAIN m.identities : m.identities[k].id = op.id}
        key == CHOOSE k \in keys : TRUE
        current == m.identities[key]
        member == [current EXCEPT !.role = op.role, !.capabilities = RoleCapabilities[op.role]]
    IN IF ~CanManage(op) THEN [m EXCEPT !.answer = "forbidden"]
       ELSE IF op.role \notin Roles THEN [m EXCEPT !.answer = "unknown_role"]
       ELSE IF keys = {} THEN [m EXCEPT !.answer = Absent]
       ELSE IF current.role = op.role THEN [m EXCEPT !.answer = current]
       ELSE IF /\ current.role = "owner"
               /\ \A k \in DOMAIN m.identities \ {key} : m.identities[k].role # "owner"
       THEN [m EXCEPT !.answer = "last_workspace_owner"]
       ELSE [m EXCEPT !.identities[key] = member,
                      !.sessions = WithMember(@, member),
                      !.audits = Append(@, Audit("member.role_changed", op.id, op.actor.id,
                                                 <<current.role, op.role>>)),
                      !.answer = member]

\* recordLogAccess asks for no capability: the handler did.
MemoryLog(m, op) ==
    [m EXCEPT !.audits = Append(@, Audit("log.accessed", "window", op.actor.id, Absent)), !.answer = Absent]

MemoryStep(m, op) ==
    CASE op.do = "admit" -> MemoryAdmit(m, op)
      [] op.do = "session" -> MemoryLookUp(m, op)
      [] op.do = "invite" -> MemoryInvite(m, op)
      [] op.do = "revoke" -> MemoryRevoke(m, op)
      [] op.do = "assign" -> MemoryAssign(m, op)
      [] op.do = "log" -> MemoryLog(m, op)

MemoryView(m) ==
    [ members |-> {m.identities[k] : k \in DOMAIN m.identities},
      invitations |-> m.invitations, audits |-> m.audits ]

-----------------------------------------------------------------------------
(* In PostgreSQL.                                                           *)

EmptyDatabase ==
    [ members |-> {}, identities |-> <<>>, sessions |-> {}, invitations |-> {}, audits |-> <<>>,
      tokens |-> 0, answer |-> Absent ]

\* memberFromRow: the capabilities of a row are those the role may have at all;
\* a row without the column has them all.
MemberFromRow(d, row, capabilities) ==
    [ id |-> row.id, email |-> d.identities[row.key], role |-> row.role,
      capabilities |-> IF capabilities = Absent THEN RoleCapabilities[row.role]
                       ELSE capabilities \cap RoleCapabilities[row.role] ]

\* The aggregate that getSession and listMembers join to a Member.
CapabilitiesOf(role) == {c[2] : c \in {r \in CapabilityRows : r[1] = role}}

DatabaseSession(d, row, op) ==
    [d EXCEPT !.sessions = IF op.auth THEN @
                           ELSE @ \cup {[token |-> d.tokens + 1, member |-> row.id, expires |-> op.at + Lifetime]},
              !.tokens = IF op.auth THEN @ ELSE @ + 1,
              !.answer = MemberFromRow(d, row, Absent)]

DatabaseAdmit(d, op) ==
    LET existing == {r \in d.members : r.key = op.identity.key}
        email == NormalizeEmail[op.identity.email]
        signed == [d EXCEPT !.identities = (op.identity.key :> op.identity.email) @@ @]
        open == {v \in d.invitations : v.email = email /\ ~v.revoked /\ ~v.accepted}
        first == d.members = {} /\ op.identity.key = Bootstrap
        used == CHOOSE v \in open : \A w \in open : v.id <= w.id
        row == [id |-> Cardinality(d.members) + 1, key |-> op.identity.key,
                role |-> IF first THEN "owner" ELSE "viewer"]
    IN IF ~ValidIdentity(op.identity) THEN [d EXCEPT !.answer = "invalid_identity"]
       ELSE IF existing # {} THEN DatabaseSession(signed, CHOOSE r \in existing : TRUE, op)
       ELSE IF ~first /\ open = {} THEN [d EXCEPT !.answer = "admission_required"]
       ELSE DatabaseSession([signed EXCEPT
                !.members = @ \cup {row},
                !.invitations = IF first THEN @ ELSE (@ \ {used}) \cup {[used EXCEPT !.accepted = TRUE]},
                !.audits = Append(@, Audit("member.admitted", row.id, Absent,
                                           <<email, row.role, IF first THEN Absent ELSE used.id>>))],
                row, op)

DatabaseLookUp(d, op) ==
    LET rows == {<<s, r>> \in d.sessions \X d.members :
                    s.token = op.token /\ s.expires > op.at /\ r.id = s.member}
        row == (CHOOSE p \in rows : TRUE)[2]
    IN [d EXCEPT !.answer = IF rows = {} THEN Absent ELSE MemberFromRow(d, row, CapabilitiesOf(row.role))]

DatabaseInvite(d, op) ==
    LET email == NormalizeEmail[op.email]
        id == Cardinality(d.invitations) + 1
    IN IF ~CanManage(op) THEN [d EXCEPT !.answer = "forbidden"]
       ELSE IF email \notin EmailAddresses THEN [d EXCEPT !.answer = "invalid_email"]
       ELSE [d EXCEPT !.invitations = @ \cup {[id |-> id, email |-> email, revoked |-> FALSE, accepted |-> FALSE]},
                      !.audits = Append(@, Audit("invitation.created", id, op.actor.id, email)),
                      !.answer = id]

DatabaseRevoke(d, op) ==
    LET rows == {v \in d.invitations : v.id = op.id /\ ~v.revoked /\ ~v.accepted} IN
    IF ~CanManage(op) THEN [d EXCEPT !.answer = "forbidden"]
    ELSE IF rows = {} THEN [d EXCEPT !.answer = Absent]
    ELSE [d EXCEPT !.invitations = (@ \ rows) \cup {[v EXCEPT !.revoked = TRUE] : v \in rows},
                   !.audits = @ \o SetToSeq({Audit("invitation.revoked", op.id, op.actor.id, v.email) : v \in rows}),
                   !.answer = op.id]

DatabaseAssign(d, op) ==
    LET rows == {r \in d.members : r.id = op.id}
        row == CHOOSE r \in rows : TRUE
        owners == Cardinality({r \in d.members : r.role = "owner"})
    IN IF ~CanManage(op) THEN [d EXCEPT !.answer = "forbidden"]
       ELSE IF op.role \notin Roles THEN [d EXCEPT !.answer = "unknown_role"]
       ELSE IF rows = {} THEN [d EXCEPT !.answer = Absent]
       ELSE IF row.role = op.role THEN [d EXCEPT !.answer = MemberFromRow(d, row, Absent)]
       ELSE IF row.role = "owner" /\ owners <= 1 THEN [d EXCEPT !.answer = "last_workspace_owner"]
       ELSE [d EXCEPT !.members = (@ \ rows) \cup {[row EXCEPT !.role = op.role]},
                      !.audits = Append(@, Audit("member.role_changed", op.id, op.actor.id, <<row.role, op.role>>)),
                      !.answer = MemberFromRow(d, [row EXCEPT !.role = op.role], Absent)]

DatabaseLog(d, op) ==
    [d EXCEPT !.audits = Append(@, Audit("log.accessed", "window", op.actor.id, Absent)), !.answer = Absent]

DatabaseStep(d, op) ==
    CASE op.do = "admit" -> DatabaseAdmit(d, op)
      [] op.do = "session" -> DatabaseLookUp(d, op)
      [] op.do = "invite" -> DatabaseInvite(d, op)
      [] op.do = "revoke" -> DatabaseRevoke(d, op)
      [] op.do = "assign" -> DatabaseAssign(d, op)
      [] op.do = "log" -> DatabaseLog(d, op)

DatabaseView(d) ==
    [ members |-> {MemberFromRow(d, r, CapabilitiesOf(r.role)) : r \in d.members},
      invitations |-> [i \in 1..Cardinality(d.invitations) |->
          LET v == CHOOSE w \in d.invitations : w.id = i IN
          [email |-> v.email,
           state |-> IF v.revoked THEN "revoked" ELSE IF v.accepted THEN "accepted" ELSE "pending"]],
      audits |-> d.audits ]

-----------------------------------------------------------------------------
\* A store after some calls, with the answers it gave.
Run(Step(_, _), View(_), empty, ops) ==
    LET done == FoldLeft(LAMBDA acc, op : LET s == Step(acc.store, op) IN
                             [store |-> s, answers |-> Append(acc.answers, s.answer)],
                         [store |-> empty, answers |-> <<>>], ops)
    IN <<View(done.store), done.answers>>

\* The two stores answer the same calls alike, and then hold the same Members
\* with the same capabilities, the same invitations and the same audit records.
StoresAgree(ops) ==
    Run(MemoryStep, MemoryView, EmptyMemory, ops) = Run(DatabaseStep, DatabaseView, EmptyDatabase, ops)
=============================================================================
