--------------------------- MODULE Membership_proofs ---------------------------
(***************************************************************************)
(* Proofs about Membership and WebRequests.                                  *)
(*                                                                         *)
(* A Workspace with members keeps an owner: both locks exclude each other,   *)
(* so what a role change has read of its target and of the other owners is   *)
(* still true when it commits; and whoever manages members, or is invited,   *)
(* shows that there is an owner.                                            *)
(*                                                                         *)
(* The audit trail explains members and invitations: every transaction       *)
(* commits its effect together with its record, and what it has read under   *)
(* a lock is what the records so far come to.  From there, what a handler    *)
(* does was allowed when its session was looked up; and it keeps its scope   *)
(* version, its window and its audit record until it answers.               *)
(***************************************************************************)
EXTENDS WebRequests, FiniteSetTheorems, WellFoundedInduction, TLAPS

\* One sign-in and one role change at a time.
Serialized ==
    \A r, q \in Requests :
        /\ tx[r].at \in AdvisoryLock /\ tx[q].at \in AdvisoryLock => r = q
        /\ tx[r].at \in MembersLock /\ tx[q].at \in MembersLock => r = q

Managing == {"invite", "revoke", "revoked", "assign", "locked", "assigned"}

\* What a transaction knows at its next statement.
Knows(r) ==
    LET t == tx[r] IN
    /\ t.at # "idle" => t.who \in Identities
    /\ t.at \in Managing => role[t.who] # "none"
    /\ t.at \in {"accept", "insert"} => role[t.who] = "none"
    /\ t.at \in {"accept", "revoke", "revoked"} => t.invitation \in Invitations
    /\ t.at = "accept" => invitation[t.invitation].state # "none"
    /\ t.at = "insert" => t.to \in Roles
    /\ t.at = "insert" /\ t.to # "owner" =>
            t.invitation \in Invitations /\ invitation[t.invitation].state # "none"
    /\ t.at \in {"assign", "locked", "assigned"} => t.target \in Identities /\ t.to \in Roles
    /\ t.at = "assigned" =>
            role[t.target] = t.from /\ t.from # "none" /\ Owners # {t.target}

Invited == (\E v \in Invitations : invitation[v].state # "none") => Owners # {}

MemberInv ==
    /\ Serialized
    /\ \A r \in Requests : Knows(r)
    /\ Invited
    /\ OwnerRemains

IInv == TypeOK /\ MemberInv

-----------------------------------------------------------------------------
\* Records of transactions are what the actions make of them.
LEMMA IdleTx ==
    /\ Idle \in Tx
    /\ Idle.at = "idle" /\ Idle.who = NoOne
BY MembershipAssumption DEF Idle, Tx, Places

\* A step that changes one transaction, and neither roles nor invitations,
\* keeps the invariant if it keeps it for that transaction and its locks.
LEMMA LocalStep ==
    ASSUME IInv, NEW r \in Requests, NEW t \in Tx, tx' = [tx EXCEPT ![r] = t],
           UNCHANGED <<role, invitation, audit>>,
           t.at # "idle" => t.who # NoOne,
           t.at = "assigned" => t.from # "none",
           Knows(r)',
           t.at \in AdvisoryLock =>
               tx[r].at \in AdvisoryLock \/ \A q \in Requests : tx[q].at \notin AdvisoryLock,
           t.at \in MembersLock => MembersFree(r)
    PROVE  IInv'
<1>1. tx \in [Requests -> Tx] /\ tx' \in [Requests -> Tx] /\ tx'[r] = t
  BY DEF IInv, TypeOK
<1>2. \A q \in Requests \ {r} : tx'[q] = tx[q]
  BY <1>1
<1>3. TypeOK'
  BY <1>1, <1>2 DEF IInv, TypeOK
<1>4. Serialized'
  BY <1>1, <1>2 DEF IInv, MemberInv, Serialized, MembersFree
<1>5. \A q \in Requests : Knows(q)'
  <2>1. SUFFICES ASSUME NEW q \in Requests, q # r PROVE Knows(q)'
    OBVIOUS
  <2>2. tx'[q] = tx[q] /\ Knows(q)
    BY <1>2, <2>1 DEF IInv, MemberInv
  <2> QED BY <2>2 DEF Knows, Owners
<1>6. Invited' /\ OwnerRemains'
  BY DEF IInv, MemberInv, Invited, OwnerRemains, Owners
<1> QED BY <1>3, <1>4, <1>5, <1>6 DEF IInv, MemberInv

\* Ending a transaction is such a step.
LEMMA EndStep ==
    ASSUME IInv, NEW r \in Requests, End(r), UNCHANGED <<role, invitation, audit>>
    PROVE  IInv'
<1>1. tx' = [tx EXCEPT ![r] = Idle] /\ tx'[r] = Idle
  BY DEF End, IInv, TypeOK
<1>2. Knows(r)'
  BY <1>1, IdleTx DEF Knows, Managing
<1> QED BY <1>1, <1>2, IdleTx, LocalStep DEF AdvisoryLock, MembersLock

\* Moving on to the next statement is such a step when the next place claims
\* nothing new.
LEMMA GotoStep ==
    ASSUME IInv, NEW r \in Requests, NEW p \in {"lookup", "signin", "revoked", "locked"},
           Goto(r, p), UNCHANGED <<role, invitation, audit>>,
           p = "lookup" => tx[r].at = "admit",
           p = "signin" => tx[r].at = "lookup",
           p = "revoked" => tx[r].at = "revoke",
           p = "locked" => tx[r].at = "assign",
           p = "lookup" => \A q \in Requests : tx[q].at \notin AdvisoryLock,
           p = "locked" => MembersFree(r)
    PROVE  IInv'
<1> DEFINE t == [tx[r] EXCEPT !.at = p]
<1>1. tx[r] \in Tx /\ Knows(r) /\ tx[r].at # "idle"
  BY DEF IInv, TypeOK, MemberInv
<1>2. t \in Tx
  BY <1>1 DEF Tx, Places
<1>3. tx' = [tx EXCEPT ![r] = t] /\ tx'[r] = t
  BY DEF Goto, IInv, TypeOK
<1>4. t.at = p /\ t.who = tx[r].who /\ t.invitation = tx[r].invitation /\ t.target = tx[r].target /\ t.to = tx[r].to
  BY <1>1 DEF Tx
<1>5. t.who # NoOne
  BY <1>1, <1>4 DEF IInv, TypeOK
<1>6. Knows(r)'
  BY <1>1, <1>3, <1>4 DEF Knows, Managing, Owners
<1>7. t.at \in AdvisoryLock => tx[r].at \in AdvisoryLock \/ \A q \in Requests : tx[q].at \notin AdvisoryLock
  BY <1>4 DEF AdvisoryLock
<1>8. t.at \in MembersLock => MembersFree(r)
  BY <1>4 DEF MembersLock
<1> HIDE DEF t
<1> QED BY <1>2, <1>3, <1>4, <1>5, <1>6, <1>7, <1>8, LocalStep

-----------------------------------------------------------------------------
(* Steps that write.                                                        *)

\* A commit by r ends r's transaction; the locks of the others stay.
LEMMA CommitLocks ==
    ASSUME IInv, NEW r \in Requests, End(r)
    PROVE  /\ tx' \in [Requests -> Tx] /\ tx'[r] = Idle
           /\ \A q \in Requests \ {r} : tx'[q] = tx[q]
           /\ \A q \in Requests : /\ tx'[q].at # "idle" => tx'[q].who # NoOne
                                  /\ tx'[q].at = "assigned" => tx'[q].from # "none"
           /\ Serialized'
           /\ Knows(r)'
<1>1. tx' \in [Requests -> Tx] /\ tx'[r] = Idle /\ \A q \in Requests \ {r} : tx'[q] = tx[q]
  BY IdleTx DEF End, IInv, TypeOK
<1>2. Serialized'
  BY <1>1, IdleTx DEF IInv, MemberInv, Serialized, AdvisoryLock, MembersLock
<1>3. Knows(r)'
  BY <1>1, IdleTx DEF Knows, Managing
<1> QED BY <1>1, <1>2, <1>3, IdleTx DEF IInv, TypeOK

LEMMA InsertStep ==
    ASSUME IInv, NEW r \in Requests, Insert(r)
    PROVE  IInv'
<1> DEFINE i == tx[r].who
           v == tx[r].invitation
           k == tx[r].to
<1>1. tx[r] \in Tx /\ Knows(r) /\ tx[r].at = "insert" /\ role \in [Identities -> Roles \cup {"none"}]
  BY DEF IInv, TypeOK, MemberInv, Insert
<1>2. i \in Identities /\ role[i] = "none" /\ k \in Roles /\ v \in Invitations \cup {0}
  BY <1>1 DEF Knows, Tx
<1>3. /\ role' = [role EXCEPT ![i] = k] /\ role' \in [Identities -> Roles \cup {"none"}]
      /\ role'[i] = k /\ \A j \in Identities \ {i} : role'[j] = role[j]
  BY <1>1, <1>2 DEF Insert
<1>4. /\ invitation' \in [Invitations -> Invitation]
      /\ \A w \in Invitations : invitation[w].state # "none" => invitation'[w].state # "none"
      /\ \A w \in Invitations : invitation'[w].state # "none" => invitation[w].state # "none" \/ w = v
  <2>1. CASE v = 0
    BY <2>1 DEF Insert, IInv, TypeOK
  <2>2. CASE v # 0
    <3>1. v \in Invitations /\ invitation' = [invitation EXCEPT ![v] = [invitation[v] EXCEPT !.state = "accepted"]]
      BY <1>2, <2>2 DEF Insert
    <3>2. [invitation[v] EXCEPT !.state = "accepted"] \in Invitation
      BY <3>1 DEF IInv, TypeOK, Invitation
    <3>3. [invitation[v] EXCEPT !.state = "accepted"].state = "accepted"
      BY <3>1 DEF IInv, TypeOK, Invitation
    <3> QED BY <3>1, <3>2, <3>3 DEF IInv, TypeOK
  <2> QED BY <2>1, <2>2
<1>5. audit' \in Seq(Record)
  BY <1>1, <1>2 DEF Insert, Log, Record, IInv, TypeOK
<1>6. End(r)
  BY DEF Insert
<1>7. TypeOK'
  BY <1>3, <1>4, <1>5, <1>6, CommitLocks DEF TypeOK
<1>8. Owners \subseteq Owners' /\ (k = "owner" => i \in Owners') /\ (k # "owner" => Owners' = Owners)
  BY <1>2, <1>3 DEF Owners, Roles
<1>9. Owners' # {}
  <2>1. CASE k = "owner"
    BY <1>8, <2>1
  <2>2. CASE k # "owner"
    <3>1. v \in Invitations /\ invitation[v].state # "none"
      BY <1>1, <2>2 DEF Knows
    <3> QED BY <1>8, <3>1 DEF IInv, MemberInv, Invited
  <2> QED BY <2>1, <2>2
<1>10. \A q \in Requests : Knows(q)'
  <2>1. SUFFICES ASSUME NEW q \in Requests, q # r PROVE Knows(q)'
    BY <1>6, CommitLocks
  <2>2. tx'[q] = tx[q] /\ Knows(q)
    BY <1>6, <2>1, CommitLocks DEF IInv, MemberInv
  <2>3. tx[q].at \notin {"accept", "insert"}
    BY <1>1, <2>1 DEF IInv, MemberInv, Serialized, AdvisoryLock
  <2>4. \A j \in Identities : role[j] # "none" => role'[j] = role[j]
    BY <1>2, <1>3
  <2>5. tx[q].at = "assigned" => Owners' # {tx[q].target}
    <3>1. SUFFICES ASSUME tx[q].at = "assigned" PROVE Owners' # {tx[q].target}
      OBVIOUS
    <3>2. tx[q].target # i /\ Owners # {tx[q].target}
      BY <1>2, <2>2, <3>1 DEF Knows
    <3> QED BY <1>8, <3>2
  <2>6. tx[q].at \in Managing => tx[q].who \in Identities /\ role[tx[q].who] # "none"
    BY <2>2 DEF Knows, Managing
  <2>7. tx[q].at = "assigned" => tx[q].target \in Identities /\ role[tx[q].target] # "none"
    BY <2>2 DEF Knows
  <2> QED BY <1>4, <2>2, <2>3, <2>4, <2>5, <2>6, <2>7 DEF Knows
<1> QED BY <1>6, <1>7, <1>9, <1>10, CommitLocks DEF IInv, MemberInv, Invited, OwnerRemains

LEMMA InviteStep ==
    ASSUME IInv, NEW r \in Requests, Invite(r)
    PROVE  IInv'
<1>1. tx[r] \in Tx /\ Knows(r) /\ tx[r].at = "invite"
  BY DEF IInv, TypeOK, MemberInv, Invite
<1>2. PICK v \in Invitations :
        /\ invitation' = [invitation EXCEPT ![v] = [state |-> "pending", email |-> tx[r].email]]
        /\ Log("created", NoOne, v, "none", "none")
  BY DEF Invite
<1>3. End(r) /\ role' = role
  BY DEF Invite
<1>4. /\ invitation' \in [Invitations -> Invitation]
      /\ \A w \in Invitations : invitation[w].state # "none" => invitation'[w].state # "none"
  BY <1>1, <1>2 DEF IInv, TypeOK, Invitation, Tx
<1>5. audit' \in Seq(Record)
  BY <1>2 DEF Log, Record, IInv, TypeOK
<1>6. TypeOK'
  BY <1>3, <1>4, <1>5, CommitLocks DEF TypeOK, IInv
<1>7. Owners # {}
  BY <1>1 DEF Knows, Managing, IInv, MemberInv, OwnerRemains
<1>8. \A q \in Requests : Knows(q)'
  <2>1. SUFFICES ASSUME NEW q \in Requests, q # r PROVE Knows(q)'
    BY <1>3, CommitLocks
  <2>2. tx'[q] = tx[q] /\ Knows(q)
    BY <1>3, <2>1, CommitLocks DEF IInv, MemberInv
  <2> QED BY <1>3, <1>4, <2>2 DEF Knows, Owners
<1>9. Invited' /\ OwnerRemains'
  BY <1>3, <1>7 DEF Invited, OwnerRemains, Owners
<1> QED BY <1>3, <1>6, <1>8, <1>9, CommitLocks DEF IInv, MemberInv

LEMMA RevokedStep ==
    ASSUME IInv, NEW r \in Requests, Revoked(r)
    PROVE  IInv'
<1> DEFINE v == tx[r].invitation
<1>1. tx[r] \in Tx /\ Knows(r) /\ tx[r].at = "revoked"
  BY DEF IInv, TypeOK, MemberInv, Revoked
<1>2. v \in Invitations /\ Owners # {}
  BY <1>1 DEF Knows, Managing, IInv, MemberInv, OwnerRemains
<1>3. End(r) /\ role' = role
  BY DEF Revoked
<1>4. /\ invitation' \in [Invitations -> Invitation]
      /\ \A w \in Invitations : invitation[w].state # "none" => invitation'[w].state # "none"
  <2>1. invitation' = [invitation EXCEPT ![v] = [invitation[v] EXCEPT !.state = "revoked"]]
    BY DEF Revoked
  <2>2. /\ [invitation[v] EXCEPT !.state = "revoked"] \in Invitation
        /\ [invitation[v] EXCEPT !.state = "revoked"].state = "revoked"
    BY <1>2 DEF IInv, TypeOK, Invitation
  <2> QED BY <1>2, <2>1, <2>2 DEF IInv, TypeOK
<1>5. audit' \in Seq(Record)
  BY <1>2 DEF Revoked, Log, Record, IInv, TypeOK
<1>6. TypeOK'
  BY <1>3, <1>4, <1>5, CommitLocks DEF TypeOK, IInv
<1>7. \A q \in Requests : Knows(q)'
  <2>1. SUFFICES ASSUME NEW q \in Requests, q # r PROVE Knows(q)'
    BY <1>3, CommitLocks
  <2>2. tx'[q] = tx[q] /\ Knows(q)
    BY <1>3, <2>1, CommitLocks DEF IInv, MemberInv
  <2> QED BY <1>3, <1>4, <2>2 DEF Knows, Owners
<1>8. Invited' /\ OwnerRemains'
  BY <1>2, <1>3 DEF Invited, OwnerRemains, Owners
<1> QED BY <1>3, <1>6, <1>7, <1>8, CommitLocks DEF IInv, MemberInv

\* The members lock is what makes this step keep an owner.
LEMMA AssignedStep ==
    ASSUME IInv, NEW r \in Requests, Assigned(r)
    PROVE  IInv'
<1> DEFINE i == tx[r].target
           k == tx[r].to
<1>1. tx[r] \in Tx /\ Knows(r) /\ tx[r].at = "assigned" /\ role \in [Identities -> Roles \cup {"none"}]
  BY DEF IInv, TypeOK, MemberInv, Assigned
<1>2. i \in Identities /\ k \in Roles /\ role[i] # "none" /\ Owners # {i}
  BY <1>1 DEF Knows
<1>3. /\ role' = [role EXCEPT ![i] = k] /\ role' \in [Identities -> Roles \cup {"none"}]
      /\ role'[i] = k /\ k # "none" /\ \A j \in Identities \ {i} : role'[j] = role[j]
  BY <1>1, <1>2 DEF Assigned, Roles
<1>4. End(r) /\ invitation' = invitation
  BY DEF Assigned
<1>5. audit' \in Seq(Record)
  BY <1>1, <1>2 DEF Assigned, Log, Record, IInv, TypeOK, Tx
<1>6. TypeOK'
  BY <1>3, <1>4, <1>5, CommitLocks DEF TypeOK, IInv
<1>7. Owners' # {}
  <2>1. Owners # {}
    BY <1>2 DEF IInv, MemberInv, OwnerRemains
  <2>2. PICK j \in Identities : j # i /\ role[j] = "owner"
    BY <1>2, <2>1 DEF Owners
  <2> QED BY <1>3, <2>2 DEF Owners
<1>8. \A q \in Requests : Knows(q)'
  <2>1. SUFFICES ASSUME NEW q \in Requests, q # r PROVE Knows(q)'
    BY <1>4, CommitLocks
  <2>2. tx'[q] = tx[q] /\ Knows(q)
    BY <1>4, <2>1, CommitLocks DEF IInv, MemberInv
  <2>3. tx[q].at \notin {"locked", "assigned"}
    BY <1>1, <2>1 DEF IInv, MemberInv, Serialized, MembersLock
  <2>4. \A j \in Identities : role'[j] = "none" <=> role[j] = "none"
    BY <1>2, <1>3
  <2> QED BY <1>4, <2>2, <2>3, <2>4 DEF Knows, Managing
<1>9. Invited' /\ OwnerRemains'
  BY <1>7 DEF Invited, OwnerRemains
<1> QED BY <1>4, <1>6, <1>8, <1>9, CommitLocks DEF IInv, MemberInv

-----------------------------------------------------------------------------
(* Steps that begin a request or read.                                      *)

LEMMA SignInStep ==
    ASSUME IInv, NEW r \in Requests, SignIn(r)
    PROVE  IInv'
<1>1. PICK i \in Identities : tx' = [tx EXCEPT ![r] = [Idle EXCEPT !.at = "admit", !.who = i]]
  BY DEF SignIn
<1> DEFINE t == [Idle EXCEPT !.at = "admit", !.who = i]
<1>2. t \in Tx /\ t.at = "admit" /\ t.who = i /\ i # NoOne
  BY MembershipAssumption DEF Idle, Tx, Places
<1>3. tx' = [tx EXCEPT ![r] = t] /\ tx'[r] = t
  BY <1>1 DEF IInv, TypeOK
<1>4. UNCHANGED <<role, invitation, audit>>
  BY DEF SignIn
<1> HIDE DEF t
<1>5. Knows(r)'
  BY <1>2, <1>3 DEF Knows, Managing
<1> QED BY <1>2, <1>3, <1>4, <1>5, LocalStep DEF AdvisoryLock, MembersLock

\* A management request begins with what its tail says.
LEMMA BeginStep ==
    ASSUME IInv, NEW r \in Requests, NEW tail \in Tx, Begin(r, tail),
           tail.at \in {"invite", "revoke", "assign"},
           tail.at = "revoke" => tail.invitation \in Invitations,
           tail.at = "assign" => tail.target \in Identities /\ tail.to \in Roles
    PROVE  IInv'
<1>1. PICK i \in Identities : role[i] = "owner" /\ tx' = [tx EXCEPT ![r] = [tail EXCEPT !.who = i]]
  BY DEF Begin
<1> DEFINE t == [tail EXCEPT !.who = i]
<1>2. /\ t \in Tx /\ t.at = tail.at /\ t.who = i /\ i # NoOne
      /\ t.invitation = tail.invitation /\ t.target = tail.target /\ t.to = tail.to
  BY MembershipAssumption DEF Tx
<1>3. tx' = [tx EXCEPT ![r] = t] /\ tx'[r] = t
  BY <1>1 DEF IInv, TypeOK
<1>4. UNCHANGED <<role, invitation, audit>>
  BY DEF Begin
<1> HIDE DEF t
<1>5. Knows(r)'
  BY <1>1, <1>2, <1>3, <1>4 DEF Knows, Managing
<1> QED BY <1>2, <1>3, <1>4, <1>5, LocalStep DEF AdvisoryLock, MembersLock

LEMMA BeginsStep ==
    ASSUME IInv, NEW r \in Requests, BeginInvite(r) \/ BeginRevoke(r) \/ BeginAssign(r)
    PROVE  IInv'
<1>1. CASE BeginInvite(r)
  <2>1. PICK e \in Emails : Begin(r, [Idle EXCEPT !.at = "invite", !.email = e])
    BY <1>1 DEF BeginInvite
  <2>2. /\ [Idle EXCEPT !.at = "invite", !.email = e] \in Tx
        /\ [Idle EXCEPT !.at = "invite", !.email = e].at = "invite"
    BY MembershipAssumption DEF Idle, Tx, Places
  <2> QED BY <2>1, <2>2, BeginStep
<1>2. CASE BeginRevoke(r)
  <2>1. PICK v \in Invitations : Begin(r, [Idle EXCEPT !.at = "revoke", !.invitation = v])
    BY <1>2 DEF BeginRevoke
  <2>2. /\ [Idle EXCEPT !.at = "revoke", !.invitation = v] \in Tx
        /\ [Idle EXCEPT !.at = "revoke", !.invitation = v].at = "revoke"
        /\ [Idle EXCEPT !.at = "revoke", !.invitation = v].invitation = v
    BY MembershipAssumption DEF Idle, Tx, Places
  <2> QED BY <2>1, <2>2, BeginStep
<1>3. CASE BeginAssign(r)
  <2>1. PICK i \in Identities, k \in Roles : Begin(r, [Idle EXCEPT !.at = "assign", !.target = i, !.to = k])
    BY <1>3 DEF BeginAssign
  <2> DEFINE t == [Idle EXCEPT !.at = "assign", !.target = i, !.to = k]
  <2>2. t \in Tx /\ t.at = "assign" /\ t.target = i /\ t.to = k
    BY MembershipAssumption DEF Idle, Tx, Places
  <2> QED BY <2>1, <2>2, BeginStep
<1> QED BY <1>1, <1>2, <1>3

\* The look-up branches into a member's sign-in, the first owner, an invitation
\* and a rejection.
LEMMA LookUpStep ==
    ASSUME IInv, NEW r \in Requests, LookUp(r)
    PROVE  IInv'
<1> DEFINE i == tx[r].who
<1>1. /\ tx[r] \in Tx /\ Knows(r) /\ tx[r].at = "lookup" /\ i \in Identities /\ i # NoOne
      /\ UNCHANGED <<role, invitation, audit>>
  BY DEF IInv, TypeOK, MemberInv, LookUp, Knows
<1>2. CASE Goto(r, "signin")
  BY <1>1, <1>2, GotoStep
<1>3. CASE End(r)
  BY <1>1, <1>3, EndStep
<1>4. CASE role[i] = "none" /\ tx' = [tx EXCEPT ![r].at = "insert", ![r].to = "owner"]
  <2> DEFINE t == [tx[r] EXCEPT !.at = "insert", !.to = "owner"]
  <2>1. t \in Tx /\ t.at = "insert" /\ t.to = "owner" /\ t.who = i
    BY <1>1 DEF Tx, Places, Roles
  <2>2. tx' = [tx EXCEPT ![r] = t] /\ tx'[r] = t
    BY <1>4 DEF IInv, TypeOK
  <2> HIDE DEF t
  <2>3. Knows(r)'
    BY <1>1, <1>4, <2>1, <2>2 DEF Knows, Managing, Roles
  <2> QED BY <1>1, <2>1, <2>2, <2>3, LocalStep DEF AdvisoryLock, MembersLock
<1>5. CASE role[i] = "none" /\ \E v \in Matching(i) : tx' = [tx EXCEPT ![r].at = "accept", ![r].invitation = v]
  <2>1. PICK v \in Matching(i) : tx' = [tx EXCEPT ![r].at = "accept", ![r].invitation = v]
    BY <1>5
  <2>2. v \in Invitations /\ invitation[v].state # "none"
    BY <2>1 DEF Matching
  <2> DEFINE t == [tx[r] EXCEPT !.at = "accept", !.invitation = v]
  <2>3. t \in Tx /\ t.at = "accept" /\ t.invitation = v /\ t.who = i
    BY <1>1, <2>2 DEF Tx, Places
  <2>4. tx' = [tx EXCEPT ![r] = t] /\ tx'[r] = t
    BY <2>1 DEF IInv, TypeOK
  <2> HIDE DEF t
  <2>5. Knows(r)'
    BY <1>1, <1>5, <2>2, <2>3, <2>4 DEF Knows, Managing
  <2> QED BY <1>1, <2>3, <2>4, <2>5, LocalStep DEF AdvisoryLock, MembersLock
<1> QED BY <1>2, <1>3, <1>4, <1>5 DEF LookUp

LEMMA AcceptStep ==
    ASSUME IInv, NEW r \in Requests, Accept(r)
    PROVE  IInv'
<1>1. tx[r] \in Tx /\ Knows(r) /\ tx[r].at = "accept" /\ UNCHANGED <<role, invitation, audit>>
  BY DEF IInv, TypeOK, MemberInv, Accept
<1>2. CASE End(r)
  BY <1>1, <1>2, EndStep
<1>3. CASE tx' = [tx EXCEPT ![r].at = "insert", ![r].to = "viewer"]
  <2> DEFINE t == [tx[r] EXCEPT !.at = "insert", !.to = "viewer"]
  <2>1. /\ t \in Tx /\ t.at = "insert" /\ t.to = "viewer"
        /\ t.invitation = tx[r].invitation /\ t.who = tx[r].who
    BY <1>1 DEF Tx, Places, Roles
  <2>2. tx' = [tx EXCEPT ![r] = t] /\ tx'[r] = t
    BY <1>3 DEF IInv, TypeOK
  <2>3. t.who # NoOne
    BY <1>1, <2>1 DEF IInv, TypeOK
  <2> HIDE DEF t
  <2>4. Knows(r)'
    BY <1>1, <2>1, <2>2 DEF Knows, Managing, Roles
  <2> QED BY <1>1, <2>1, <2>2, <2>3, <2>4, LocalStep DEF AdvisoryLock, MembersLock
<1> QED BY <1>2, <1>3 DEF Accept

\* What is read under the members lock is what Assigned relies on.
LEMMA ReadTargetStep ==
    ASSUME IInv, NEW r \in Requests, ReadTarget(r)
    PROVE  IInv'
<1> DEFINE i == tx[r].target
<1>1. tx[r] \in Tx /\ Knows(r) /\ tx[r].at = "locked" /\ UNCHANGED <<role, invitation, audit>>
  BY DEF IInv, TypeOK, MemberInv, ReadTarget
<1>2. CASE End(r)
  BY <1>1, <1>2, EndStep
<1>3. CASE /\ role[i] # "none" /\ Owners # {i}
           /\ tx' = [tx EXCEPT ![r].at = "assigned", ![r].from = role[i]]
  <2> DEFINE t == [tx[r] EXCEPT !.at = "assigned", !.from = role[i]]
  <2>1. role[i] \in Roles
    BY <1>1, <1>3 DEF Knows, IInv, TypeOK
  <2>2. /\ t \in Tx /\ t.at = "assigned" /\ t.from = role[i]
        /\ t.target = i /\ t.to = tx[r].to /\ t.who = tx[r].who
    BY <1>1, <2>1 DEF Tx, Places
  <2>3. tx' = [tx EXCEPT ![r] = t] /\ tx'[r] = t
    BY <1>3 DEF IInv, TypeOK
  <2>4. t.who # NoOne
    BY <1>1, <2>2 DEF IInv, TypeOK
  <2>5. MembersFree(r)
    BY <1>1 DEF MembersFree, IInv, MemberInv, Serialized, MembersLock
  <2> HIDE DEF t
  <2>6. Knows(r)'
    BY <1>1, <1>3, <2>2, <2>3 DEF Knows, Managing, Owners
  <2> QED BY <1>1, <1>3, <2>2, <2>3, <2>4, <2>5, <2>6, LocalStep DEF AdvisoryLock, MembersLock
<1> QED BY <1>2, <1>3 DEF ReadTarget

-----------------------------------------------------------------------------
LEMMA InitIInv == Init => IInv
<1> SUFFICES ASSUME Init PROVE IInv
  OBVIOUS
<1>1. TypeOK
  <2>1. [state |-> "none", email |-> EmailOf[Bootstrap]] \in Invitation
    BY MembershipAssumption DEF Invitation
  <2> QED BY <2>1, IdleTx DEF Init, TypeOK
<1>2. \A r \in Requests : tx[r] = Idle
  BY DEF Init
<1>3. MemberInv
  BY <1>2, IdleTx DEF Init, MemberInv, Serialized, Knows, Invited, OwnerRemains,
                      AdvisoryLock, MembersLock, Managing
<1> QED BY <1>1, <1>3 DEF IInv

LEMMA NextIInv == IInv /\ [Next]_vars => IInv'
<1> SUFFICES ASSUME IInv, [Next]_vars PROVE IInv'
  OBVIOUS
<1>1. CASE UNCHANGED vars
  BY <1>1 DEF vars, IInv, TypeOK, MemberInv, Serialized, Knows, Invited, OwnerRemains, Owners
<1>2. ASSUME NEW r \in Requests, Step(r) PROVE IInv'
  <2>1. CASE TakeLock(r)
    BY <2>1, GotoStep DEF TakeLock
  <2>2. CASE LookUp(r)
    BY <2>2, LookUpStep
  <2>3. CASE Accept(r)
    BY <2>3, AcceptStep
  <2>4. CASE Insert(r)
    BY <2>4, InsertStep
  <2>5. CASE SignedIn(r)
    BY <2>5, EndStep DEF SignedIn
  <2>6. CASE Invite(r)
    BY <2>6, InviteStep
  <2>7. CASE Revoke(r)
    <3>1. CASE Goto(r, "revoked")
      BY <2>7, <3>1, GotoStep DEF Revoke
    <3>2. CASE End(r)
      BY <2>7, <3>2, EndStep DEF Revoke
    <3> QED BY <2>7, <3>1, <3>2 DEF Revoke
  <2>8. CASE Revoked(r)
    BY <2>8, RevokedStep
  <2>9. CASE LockMembers(r)
    BY <2>9, GotoStep DEF LockMembers
  <2>10. CASE ReadTarget(r)
    BY <2>10, ReadTargetStep
  <2>11. CASE Assigned(r)
    BY <2>11, AssignedStep
  <2>12. CASE BreakDeadlock(r)
    BY <2>12, EndStep DEF BreakDeadlock
  <2> QED BY <1>2, <2>1, <2>2, <2>3, <2>4, <2>5, <2>6, <2>7, <2>8, <2>9, <2>10, <2>11, <2>12 DEF Step
<1>3. ASSUME NEW r \in Requests, Fail(r) PROVE IInv'
  BY <1>3, EndStep DEF Fail
<1>4. ASSUME NEW r \in Requests, SignIn(r) PROVE IInv'
  BY <1>4, SignInStep
<1>5. ASSUME NEW r \in Requests, BeginInvite(r) \/ BeginRevoke(r) \/ BeginAssign(r) PROVE IInv'
  BY <1>5, BeginsStep
<1> QED BY <1>1, <1>2, <1>3, <1>4, <1>5 DEF Next

\* The inductive invariant.
THEOREM MembershipInvariant == Spec => []IInv
<1>1. Init => IInv
  BY InitIInv
<1>2. IInv /\ [Next]_vars => IInv'
  BY NextIInv
<1> QED BY <1>1, <1>2, PTL DEF Spec

\* Types, and that no role change is made to somebody who is no member.
THEOREM TypeCorrect == Spec => []TypeOK
<1>1. IInv => TypeOK
  BY DEF IInv
<1> QED BY <1>1, MembershipInvariant, PTL

\* A Workspace that has members has an owner, for any identities, requests and
\* interleaving of their transactions.
THEOREM WorkspaceKeepsOwner == Spec => []OwnerRemains
<1>1. IInv => OwnerRemains
  BY DEF IInv, MemberInv
<1> QED BY <1>1, MembershipInvariant, PTL

-----------------------------------------------------------------------------
(* Trails.                                                                  *)

\* A set of numbers up to n that is not empty has a greatest one.
LEMMA Greatest ==
    ASSUME NEW n \in Nat, NEW S \in SUBSET (1..n), S # {}
    PROVE  Max(S) \in S /\ \A k \in S : k <= Max(S)
<1>1. \E m \in S : \A k \in S : k <= m
  <2> DEFINE T == {n - k : k \in S}
  <2>1. T \subseteq Nat /\ T # {}
    <3>1. \A k \in S : n - k \in Nat
      OBVIOUS
    <3>2. PICK k \in S : TRUE
      OBVIOUS
    <3>3. n - k \in T
      OBVIOUS
    <3> QED BY <3>1, <3>3
  <2>2. \E x \in T : \A y \in T : ~ (y < x)
    <3> HIDE DEF T
    <3>1. \E x \in T : \A y \in T : ~ (<<y, x>> \in OpToRel(<, Nat))
      BY <2>1, NatLessThanWellFounded, WFMin
    <3> QED BY <2>1, <3>1 DEF OpToRel
  <2>3. PICK x \in T : \A y \in T : ~ (y < x)
    BY <2>2
  <2>4. PICK m \in S : x = n - m
    BY <2>3
  <2>5. \A k \in S : ~ (n - k < n - m)
    BY <2>3, <2>4
  <2> QED BY <2>5
<1>2. PICK m \in S : \A k \in S : m >= k
  BY <1>1
<1>3. Max(S) \in S /\ \A k \in S : Max(S) >= k
  BY <1>2, Zenon DEF Max
<1> QED BY <1>3

LEMMA GreatestIs ==
    ASSUME NEW n \in Nat, NEW S \in SUBSET (1..n), NEW m \in S, \A k \in S : k <= m
    PROVE  Max(S) = m
<1>1. Max(S) \in S /\ \A k \in S : k <= Max(S)
  <2>1. S # {}
    OBVIOUS
  <2> QED BY <2>1, Greatest
<1>2. m <= Max(S) /\ Max(S) <= m
  BY <1>1
<1>3. m \in Nat /\ Max(S) \in Nat
  <2>1. S \subseteq Nat
    OBVIOUS
  <2> QED BY <1>1, <2>1, Zenon
<1> QED BY <1>2, <1>3

IsOfMember(a, i) == a.action \in {"admitted", "role_changed"} /\ a.target = i

\* What a trail says of its first m records does not change when it grows.
LEMMA TrailStable ==
    ASSUME NEW trail \in Seq(Record), NEW a \in Record, NEW i, NEW m \in 0..Len(trail)
    PROVE  RoleAfter(Append(trail, a), i, m) = RoleAfter(trail, i, m)
<1>1. \A n \in 1..m : Append(trail, a)[n] = trail[n]
  OBVIOUS
<1>2. RecordsOf(Append(trail, a), i, m) = RecordsOf(trail, i, m)
  BY <1>1 DEF RecordsOf
<1>3. RecordsOf(trail, i, m) \in SUBSET (1..m) /\ m \in Nat
  BY DEF RecordsOf
<1>4. RecordsOf(trail, i, m) # {} => Max(RecordsOf(trail, i, m)) \in 1..m
  BY <1>3, Greatest
<1> QED BY <1>1, <1>2, <1>4 DEF RoleAfter

\* The last record is what counts.
LEMMA TrailGrows ==
    ASSUME NEW trail \in Seq(Record), NEW a \in Record, NEW i
    PROVE  RoleAfter(Append(trail, a), i, Len(Append(trail, a)))
               = IF IsOfMember(a, i) THEN a.to ELSE RoleAfter(trail, i, Len(trail))
<1> DEFINE grown == Append(trail, a)
           n == Len(trail) + 1
<1>1. Len(grown) = n /\ n \in Nat /\ grown[n] = a /\ \A k \in 1..Len(trail) : grown[k] = trail[k]
  OBVIOUS
<1>2. RecordsOf(grown, i, n) \in SUBSET (1..n)
  BY DEF RecordsOf
<1>3. CASE IsOfMember(a, i)
  <2>1. n \in RecordsOf(grown, i, n)
    BY <1>1, <1>3 DEF RecordsOf, IsOfMember
  <2>2. \A k \in RecordsOf(grown, i, n) : k <= n
    BY <1>1, <1>2
  <2>3. Max(RecordsOf(grown, i, n)) = n
    BY <1>1, <1>2, <2>1, <2>2, GreatestIs
  <2> QED BY <1>1, <1>3, <2>1, <2>3 DEF RoleAfter
<1>4. CASE ~IsOfMember(a, i)
  <2>1. \A k \in 1..n : k = n \/ k \in 1..Len(trail)
    BY <1>1
  <2>2. RecordsOf(grown, i, n) = RecordsOf(grown, i, Len(trail))
    BY <1>1, <1>4, <2>1 DEF RecordsOf, IsOfMember
  <2>3. RoleAfter(grown, i, n) = RoleAfter(grown, i, Len(trail))
    BY <2>2 DEF RoleAfter
  <2>4. RoleAfter(grown, i, Len(trail)) = RoleAfter(trail, i, Len(trail))
    BY TrailStable
  <2> QED BY <1>1, <1>4, <2>3, <2>4
<1> QED BY <1>3, <1>4

\* A new record of an invitation is counted once.
LEMMA TimesGrow ==
    ASSUME NEW trail \in Seq(Record), NEW a \in Record, NEW action, NEW v
    PROVE  /\ Times(trail, action, v) \in Nat
           /\ Times(Append(trail, a), action, v)
                  = IF a.action = action /\ a.invitation = v
                    THEN Times(trail, action, v) + 1 ELSE Times(trail, action, v)
<1> DEFINE grown == Append(trail, a)
           n == Len(trail) + 1
           old == {k \in DOMAIN trail : trail[k].action = action /\ trail[k].invitation = v}
           new == {k \in DOMAIN grown : grown[k].action = action /\ grown[k].invitation = v}
<1>1. /\ DOMAIN grown = 1..n /\ DOMAIN trail = 1..Len(trail) /\ n \in Nat /\ grown[n] = a
      /\ \A k \in 1..Len(trail) : grown[k] = trail[k]
  OBVIOUS
<1>2. IsFiniteSet(old) /\ Cardinality(old) \in Nat
  <2>1. IsFiniteSet(1..Len(trail))
    BY FS_Interval
  <2> QED BY <1>1, <2>1, FS_Subset, FS_CardinalityType
<1>3. n \notin old
  BY <1>1
<1>4. CASE a.action = action /\ a.invitation = v
  <2>1. new = old \cup {n}
    BY <1>1, <1>4
  <2>2. Cardinality(new) = Cardinality(old) + 1
    BY <1>2, <1>3, <2>1, FS_AddElement
  <2> QED BY <1>2, <1>4, <2>2 DEF Times
<1>5. CASE ~(a.action = action /\ a.invitation = v)
  <2>1. new = old
    BY <1>1, <1>5
  <2> QED BY <1>2, <1>5, <2>1 DEF Times
<1> QED BY <1>4, <1>5

\* A trail goes on with a record that starts from the role it left.
LEMMA ContinuousGrows ==
    ASSUME NEW trail \in Seq(Record), NEW a \in Record, Continuous(trail),
           a.action \in {"admitted", "role_changed"} =>
               /\ a.target \in Identities /\ a.to \in Roles
               /\ a.from = RoleAfter(trail, a.target, Len(trail))
               /\ a.action = "admitted" <=> a.from = "none"
               /\ a.action = "admitted" /\ a.invitation = 0 => a.target = Bootstrap
    PROVE  Continuous(Append(trail, a))
<1> DEFINE grown == Append(trail, a)
<1>1. /\ DOMAIN grown = 1..(Len(trail) + 1) /\ DOMAIN trail = 1..Len(trail) /\ grown[Len(trail) + 1] = a
      /\ \A k \in 1..Len(trail) : grown[k] = trail[k]
  OBVIOUS
<1>2. \A i, m : m \in 0..Len(trail) => RoleAfter(grown, i, m) = RoleAfter(trail, i, m)
  BY TrailStable
<1>3. SUFFICES ASSUME NEW n \in DOMAIN grown, grown[n].action \in {"admitted", "role_changed"}
               PROVE  /\ grown[n].target \in Identities /\ grown[n].to \in Roles
                      /\ grown[n].from = RoleAfter(grown, grown[n].target, n - 1)
                      /\ grown[n].action = "admitted" <=> grown[n].from = "none"
                      /\ grown[n].action = "admitted" /\ grown[n].invitation = 0
                             => grown[n].target = Bootstrap
  BY Zenon DEF Continuous
<1>4. CASE n \in 1..Len(trail)
  <2>1. n - 1 \in 0..Len(trail) /\ grown[n] = trail[n] /\ n \in DOMAIN trail
    BY <1>1, <1>4
  <2>2. RoleAfter(grown, grown[n].target, n - 1) = RoleAfter(trail, trail[n].target, n - 1)
    BY <1>2, <2>1
  <2> QED BY <1>3, <2>1, <2>2 DEF Continuous
<1>5. CASE n = Len(trail) + 1
  <2>1. n - 1 = Len(trail) /\ grown[n] = a
    BY <1>1, <1>5
  <2>2. RoleAfter(grown, a.target, n - 1) = RoleAfter(trail, a.target, Len(trail))
    BY <1>2, <2>1
  <2> QED BY <1>3, <2>1, <2>2
<1> QED BY <1>1, <1>4, <1>5

-----------------------------------------------------------------------------
(* What the trail explains.                                                 *)

\* A transaction that accepts or revokes an invitation holds its row lock, under
\* which it is unused; an admission without one is that of the bootstrap identity.
Claims ==
    /\ \A r \in Requests :
        /\ tx[r].at \in {"admit", "lookup"} => tx[r].invitation = 0
        /\ tx[r].at = "insert" /\ tx[r].invitation = 0 => tx[r].who = Bootstrap
        /\ tx[r].at \in InvitationLock /\ tx[r].invitation # 0 =>
               invitation[tx[r].invitation].state = "pending"
    /\ \A r, q \in Requests :
           /\ tx[r].at \in InvitationLock /\ tx[q].at \in InvitationLock
           /\ tx[r].invitation = tx[q].invitation /\ tx[r].invitation # 0
           => r = q

TrailInv == IInv /\ Claims /\ AuditExplains

\* A step of one transaction that writes nothing.
LEMMA LocalClaims ==
    ASSUME IInv, Claims, NEW r \in Requests, NEW t \in Tx, tx' = [tx EXCEPT ![r] = t],
           UNCHANGED invitation,
           t.at \in {"admit", "lookup"} => t.invitation = 0,
           t.at = "insert" /\ t.invitation = 0 => t.who = Bootstrap,
           t.at \in InvitationLock /\ t.invitation # 0 =>
               invitation[t.invitation].state = "pending" /\ InvitationFree(r, t.invitation)
    PROVE  Claims'
<1>1. tx'[r] = t /\ \A q \in Requests \ {r} : tx'[q] = tx[q]
  BY DEF IInv, TypeOK
<1>2. \A q \in Requests :
        /\ tx'[q].at \in {"admit", "lookup"} => tx'[q].invitation = 0
        /\ tx'[q].at = "insert" /\ tx'[q].invitation = 0 => tx'[q].who = Bootstrap
        /\ tx'[q].at \in InvitationLock /\ tx'[q].invitation # 0 =>
               invitation'[tx'[q].invitation].state = "pending"
  BY <1>1 DEF Claims
<1>3. ASSUME NEW p \in Requests, NEW q \in Requests,
             tx'[p].at \in InvitationLock, tx'[q].at \in InvitationLock,
             tx'[p].invitation = tx'[q].invitation, tx'[p].invitation # 0
      PROVE  p = q
  <2>1. CASE p # r /\ q # r
    BY <1>1, <1>3, <2>1 DEF Claims
  <2>2. CASE p = r /\ q # r
    BY <1>1, <1>3, <2>2 DEF InvitationFree
  <2>3. CASE p # r /\ q = r
    BY <1>1, <1>3, <2>3 DEF InvitationFree
  <2> QED BY <2>1, <2>2, <2>3
<1> QED BY <1>2, <1>3 DEF Claims

LEMMA EndClaims ==
    ASSUME IInv, Claims, NEW r \in Requests, End(r), UNCHANGED invitation
    PROVE  Claims'
BY IdleTx, LocalClaims DEF End, InvitationLock

\* A commit ends its transaction and changes no invitation another one holds.
LEMMA CommitClaims ==
    ASSUME IInv, Claims, NEW r \in Requests, End(r),
           \A v \in Invitations :
               invitation[v].state = "pending" /\ ~(tx[r].at \in InvitationLock /\ tx[r].invitation = v)
               => invitation'[v] = invitation[v]
    PROVE  Claims'
<1>1. tx'[r] = Idle /\ \A q \in Requests \ {r} : tx'[q] = tx[q]
  BY CommitLocks
<1>2. \A q \in Requests : tx[q] \in Tx
  BY DEF IInv, TypeOK
<1>3. \A q \in Requests \ {r} :
          tx[q].at \in InvitationLock /\ tx[q].invitation # 0 =>
              /\ tx[q].invitation \in Invitations
              /\ invitation[tx[q].invitation].state = "pending"
              /\ ~(tx[r].at \in InvitationLock /\ tx[r].invitation = tx[q].invitation)
  BY <1>2 DEF Claims, Tx
<1>4. Idle.at \notin InvitationLock /\ Idle.at \notin {"admit", "lookup", "insert"}
  BY IdleTx DEF InvitationLock
<1> QED BY <1>1, <1>3, <1>4 DEF Claims

\* The statements that write, and what they write.
Writes(r) == Insert(r) \/ Invite(r) \/ Revoked(r) \/ Assigned(r)

LEMMA WritesClaims ==
    ASSUME IInv, Claims, NEW r \in Requests, Writes(r)
    PROVE  Claims'
<1>1. tx[r] \in Tx /\ invitation \in [Invitations -> Invitation]
  BY DEF IInv, TypeOK
<1>2. CASE Insert(r)
  <2>1. \A v \in Invitations : v # tx[r].invitation => invitation'[v] = invitation[v]
    BY <1>1, <1>2 DEF Insert
  <2> QED BY <1>2, <2>1, CommitClaims DEF Insert, InvitationLock
<1>3. CASE Invite(r)
  <2>1. PICK w \in Invitations :
          /\ invitation[w].state = "none"
          /\ invitation' = [invitation EXCEPT ![w] = [state |-> "pending", email |-> tx[r].email]]
    BY <1>3 DEF Invite
  <2>2. \A v \in Invitations : invitation[v].state = "pending" => invitation'[v] = invitation[v]
    BY <1>1, <2>1
  <2> QED BY <1>3, <2>2, CommitClaims DEF Invite
<1>4. CASE Revoked(r)
  <2>1. \A v \in Invitations : v # tx[r].invitation => invitation'[v] = invitation[v]
    BY <1>1, <1>4 DEF Revoked
  <2> QED BY <1>4, <2>1, CommitClaims DEF Revoked, InvitationLock
<1>5. CASE Assigned(r)
  BY <1>5, CommitClaims DEF Assigned
<1> QED BY <1>2, <1>3, <1>4, <1>5 DEF Writes

\* Moving on to a place that asks for nothing.
LEMMA GotoClaims ==
    ASSUME IInv, Claims, NEW r \in Requests, NEW p \in {"lookup", "signin", "revoked", "locked"},
           Goto(r, p), UNCHANGED invitation,
           p = "lookup" => tx[r].at = "admit",
           p = "revoked" => /\ tx[r].at = "revoke"
                            /\ invitation[tx[r].invitation].state = "pending"
                            /\ InvitationFree(r, tx[r].invitation)
    PROVE  Claims'
<1> DEFINE t == [tx[r] EXCEPT !.at = p]
<1>1. tx[r] \in Tx
  BY DEF IInv, TypeOK
<1>2. t \in Tx /\ t.at = p /\ t.invitation = tx[r].invitation
  BY <1>1 DEF Tx, Places
<1>3. tx' = [tx EXCEPT ![r] = t]
  BY DEF Goto
<1>4. p = "lookup" => tx[r].invitation = 0
  BY DEF Claims
<1> HIDE DEF t
<1> QED BY <1>2, <1>3, <1>4, LocalClaims DEF InvitationLock

LEMMA BeginClaims ==
    ASSUME IInv, Claims, NEW r \in Requests, SignIn(r) \/ BeginInvite(r) \/ BeginRevoke(r) \/ BeginAssign(r)
    PROVE  Claims'
<1>1. ASSUME NEW tail \in Tx, tail.at \in {"invite", "revoke", "assign"}, Begin(r, tail) PROVE Claims'
  <2>1. PICK i \in Identities : tx' = [tx EXCEPT ![r] = [tail EXCEPT !.who = i]]
    BY <1>1 DEF Begin
  <2> DEFINE t == [tail EXCEPT !.who = i]
  <2>2. t \in Tx /\ t.at = tail.at
    BY <1>1 DEF Tx
  <2>3. tx' = [tx EXCEPT ![r] = t] /\ invitation' = invitation
    BY <1>1, <2>1 DEF Begin
  <2> HIDE DEF t
  <2> QED BY <1>1, <2>2, <2>3, LocalClaims DEF InvitationLock
<1>2. CASE SignIn(r)
  <2>1. PICK i \in Identities : tx' = [tx EXCEPT ![r] = [Idle EXCEPT !.at = "admit", !.who = i]]
    BY <1>2 DEF SignIn
  <2> DEFINE t == [Idle EXCEPT !.at = "admit", !.who = i]
  <2>2. t \in Tx /\ t.at = "admit" /\ t.invitation = 0
    BY MembershipAssumption DEF Idle, Tx, Places
  <2>3. tx' = [tx EXCEPT ![r] = t] /\ invitation' = invitation
    BY <1>2, <2>1 DEF SignIn
  <2> HIDE DEF t
  <2> QED BY <2>2, <2>3, LocalClaims DEF InvitationLock
<1>3. CASE BeginInvite(r)
  <2>1. PICK e \in Emails : Begin(r, [Idle EXCEPT !.at = "invite", !.email = e])
    BY <1>3 DEF BeginInvite
  <2>2. /\ [Idle EXCEPT !.at = "invite", !.email = e] \in Tx
        /\ [Idle EXCEPT !.at = "invite", !.email = e].at = "invite"
    BY MembershipAssumption DEF Idle, Tx, Places
  <2> QED BY <1>1, <2>1, <2>2
<1>4. CASE BeginRevoke(r)
  <2>1. PICK v \in Invitations : Begin(r, [Idle EXCEPT !.at = "revoke", !.invitation = v])
    BY <1>4 DEF BeginRevoke
  <2>2. /\ [Idle EXCEPT !.at = "revoke", !.invitation = v] \in Tx
        /\ [Idle EXCEPT !.at = "revoke", !.invitation = v].at = "revoke"
    BY MembershipAssumption DEF Idle, Tx, Places
  <2> QED BY <1>1, <2>1, <2>2
<1>5. CASE BeginAssign(r)
  <2>1. PICK i \in Identities, k \in Roles : Begin(r, [Idle EXCEPT !.at = "assign", !.target = i, !.to = k])
    BY <1>5 DEF BeginAssign
  <2>2. /\ [Idle EXCEPT !.at = "assign", !.target = i, !.to = k] \in Tx
        /\ [Idle EXCEPT !.at = "assign", !.target = i, !.to = k].at = "assign"
    BY MembershipAssumption DEF Idle, Tx, Places
  <2> QED BY <1>1, <2>1, <2>2
<1> QED BY <1>2, <1>3, <1>4, <1>5

LEMMA LookUpClaims ==
    ASSUME IInv, Claims, NEW r \in Requests, LookUp(r)
    PROVE  Claims'
<1> DEFINE i == tx[r].who
<1>1. tx[r] \in Tx /\ tx[r].at = "lookup" /\ tx[r].invitation = 0 /\ UNCHANGED invitation
  BY DEF IInv, TypeOK, LookUp, Claims
<1>2. CASE Goto(r, "signin")
  BY <1>1, <1>2, GotoClaims
<1>3. CASE End(r)
  BY <1>1, <1>3, EndClaims
<1>4. CASE i = Bootstrap /\ tx' = [tx EXCEPT ![r].at = "insert", ![r].to = "owner"]
  <2> DEFINE t == [tx[r] EXCEPT !.at = "insert", !.to = "owner"]
  <2>1. t \in Tx /\ t.at = "insert" /\ t.who = Bootstrap /\ t.invitation = 0
    BY <1>1, <1>4 DEF Tx, Places, Roles
  <2>2. tx' = [tx EXCEPT ![r] = t]
    BY <1>4
  <2> HIDE DEF t
  <2> QED BY <1>1, <2>1, <2>2, LocalClaims
<1>5. CASE \E v \in Matching(i) : tx' = [tx EXCEPT ![r].at = "accept", ![r].invitation = v]
  <2>1. PICK v \in Matching(i) : tx' = [tx EXCEPT ![r].at = "accept", ![r].invitation = v]
    BY <1>5
  <2> DEFINE t == [tx[r] EXCEPT !.at = "accept", !.invitation = v]
  <2>2. t \in Tx /\ t.at = "accept"
    BY <1>1 DEF Tx, Places, Matching
  <2>3. tx' = [tx EXCEPT ![r] = t]
    BY <2>1
  <2> HIDE DEF t
  <2> QED BY <1>1, <2>2, <2>3, LocalClaims DEF InvitationLock
<1> QED BY <1>2, <1>3, <1>4, <1>5 DEF LookUp

LEMMA AcceptClaims ==
    ASSUME IInv, Claims, NEW r \in Requests, Accept(r)
    PROVE  Claims'
<1>1. /\ tx[r] \in Tx /\ tx[r].at = "accept" /\ UNCHANGED invitation
      /\ tx[r].invitation \in Invitations /\ InvitationFree(r, tx[r].invitation)
  BY DEF IInv, TypeOK, MemberInv, Knows, Accept
<1>2. CASE End(r)
  BY <1>1, <1>2, EndClaims
<1>3. CASE /\ invitation[tx[r].invitation].state = "pending"
           /\ tx' = [tx EXCEPT ![r].at = "insert", ![r].to = "viewer"]
  <2> DEFINE t == [tx[r] EXCEPT !.at = "insert", !.to = "viewer"]
  <2>1. t \in Tx /\ t.at = "insert" /\ t.invitation = tx[r].invitation
    BY <1>1 DEF Tx, Places, Roles
  <2>2. tx' = [tx EXCEPT ![r] = t]
    BY <1>3
  <2>3. 0 \notin Invitations
    BY DEF Invitations
  <2> HIDE DEF t
  <2> QED BY <1>1, <1>3, <2>1, <2>2, <2>3, LocalClaims
<1> QED BY <1>2, <1>3 DEF Accept

LEMMA ReadTargetClaims ==
    ASSUME IInv, Claims, NEW r \in Requests, ReadTarget(r)
    PROVE  Claims'
<1> DEFINE i == tx[r].target
<1>1. tx[r] \in Tx /\ i \in Identities /\ role[i] \in Roles \cup {"none"} /\ UNCHANGED invitation
  BY DEF IInv, TypeOK, MemberInv, Knows, ReadTarget
<1>2. CASE End(r)
  BY <1>1, <1>2, EndClaims
<1>3. CASE tx' = [tx EXCEPT ![r].at = "assigned", ![r].from = role[i]]
  <2> DEFINE t == [tx[r] EXCEPT !.at = "assigned", !.from = role[i]]
  <2>1. t \in Tx /\ t.at = "assigned"
    BY <1>1 DEF Tx, Places
  <2>2. tx' = [tx EXCEPT ![r] = t]
    BY <1>3
  <2> HIDE DEF t
  <2> QED BY <1>1, <2>1, <2>2, LocalClaims DEF InvitationLock
<1> QED BY <1>2, <1>3 DEF ReadTarget

LEMMA ClaimsStep == IInv /\ Claims /\ [Next]_vars => Claims'
<1> SUFFICES ASSUME IInv, Claims, [Next]_vars PROVE Claims'
  OBVIOUS
<1>1. CASE UNCHANGED vars
  BY <1>1 DEF vars, Claims
<1>2. ASSUME NEW r \in Requests, Step(r) PROVE Claims'
  <2>1. CASE TakeLock(r)
    BY <2>1, GotoClaims DEF TakeLock
  <2>2. CASE SignedIn(r)
    BY <2>2, EndClaims DEF SignedIn
  <2>3. CASE Revoke(r)
    <3>1. CASE invitation[tx[r].invitation].state = "pending" /\ Goto(r, "revoked")
      BY <2>3, <3>1, GotoClaims DEF Revoke
    <3>2. CASE End(r)
      BY <2>3, <3>2, EndClaims DEF Revoke
    <3> QED BY <2>3, <3>1, <3>2 DEF Revoke
  <2>4. CASE LockMembers(r)
    BY <2>4, GotoClaims DEF LockMembers
  <2>5. CASE BreakDeadlock(r)
    BY <2>5, EndClaims DEF BreakDeadlock
  <2> QED BY <1>2, <2>1, <2>2, <2>3, <2>4, <2>5, LookUpClaims, AcceptClaims, ReadTargetClaims, WritesClaims
          DEF Step, Writes
<1>3. ASSUME NEW r \in Requests, Fail(r) PROVE Claims'
  BY <1>3, EndClaims DEF Fail
<1> QED BY <1>1, <1>2, <1>3, BeginClaims DEF Next

\* A record that a member's role follows is explained.
LEMMA MembersExplained ==
    ASSUME IInv, TrailOfMembers, NEW a \in Record, audit' = Append(audit, a),
           a.action \in {"admitted", "role_changed"} =>
               /\ a.target \in Identities /\ a.to \in Roles
               /\ a.from = role[a.target]
               /\ a.action = "admitted" <=> a.from = "none"
               /\ a.action = "admitted" /\ a.invitation = 0 => a.target = Bootstrap,
           \A i \in Identities : role'[i] = IF IsOfMember(a, i) THEN a.to ELSE role[i]
    PROVE  TrailOfMembers'
<1>1. audit \in Seq(Record) /\ Continuous(audit)
  BY DEF IInv, TypeOK, TrailOfMembers
<1>2. \A i \in Identities : role[i] = RoleAfter(audit, i, Len(audit))
  BY DEF TrailOfMembers
<1>3. Continuous(Append(audit, a))
  BY <1>1, <1>2, ContinuousGrows
<1>4. \A i \in Identities :
        RoleAfter(Append(audit, a), i, Len(Append(audit, a)))
            = IF IsOfMember(a, i) THEN a.to ELSE RoleAfter(audit, i, Len(audit))
  BY <1>1, TrailGrows
<1>5. \A i \in Identities : role'[i] = RoleAfter(audit', i, Len(audit'))
  BY <1>2, <1>4
<1> QED BY <1>3, <1>5 DEF TrailOfMembers

\* An invitation changes state with the record that says so.
LEMMA InvitationsExplained ==
    ASSUME IInv, TrailOfInvitations, NEW a \in Record, audit' = Append(audit, a),
           \A v \in Invitations : v # a.invitation => invitation'[v].state = invitation[v].state,
           a.action = "role_changed" \/ a.invitation = 0 => invitation' = invitation,
           a.invitation # 0 =>
               \/ a.action = "role_changed"
               \/ /\ a.action = "created"
                  /\ invitation[a.invitation].state = "none" /\ invitation'[a.invitation].state = "pending"
               \/ /\ a.action = "admitted"
                  /\ invitation[a.invitation].state = "pending" /\ invitation'[a.invitation].state = "accepted"
               \/ /\ a.action = "revoked"
                  /\ invitation[a.invitation].state = "pending" /\ invitation'[a.invitation].state = "revoked"
    PROVE  TrailOfInvitations'
<1>1. audit \in Seq(Record)
  BY DEF IInv, TypeOK
<1>2. SUFFICES ASSUME NEW v \in Invitations
               PROVE  /\ Times(audit', "created", v) = (IF invitation'[v].state = "none" THEN 0 ELSE 1)
                      /\ Times(audit', "admitted", v) = (IF invitation'[v].state = "accepted" THEN 1 ELSE 0)
                      /\ Times(audit', "revoked", v) = (IF invitation'[v].state = "revoked" THEN 1 ELSE 0)
  BY Zenon DEF TrailOfInvitations
<1>3. /\ Times(audit, "created", v) = (IF invitation[v].state = "none" THEN 0 ELSE 1)
      /\ Times(audit, "admitted", v) = (IF invitation[v].state = "accepted" THEN 1 ELSE 0)
      /\ Times(audit, "revoked", v) = (IF invitation[v].state = "revoked" THEN 1 ELSE 0)
  BY DEF TrailOfInvitations
<1>4. \A action : Times(audit', action, v) = IF a.action = action /\ a.invitation = v
                                             THEN Times(audit, action, v) + 1 ELSE Times(audit, action, v)
  BY <1>1, TimesGrow
<1>5. v # 0
  BY DEF Invitations
<1> QED BY <1>3, <1>4, <1>5

LEMMA WritesExplained ==
    ASSUME TrailInv, NEW r \in Requests, Writes(r)
    PROVE  AuditExplains'
<1>1. /\ tx[r] \in Tx /\ Knows(r) /\ role \in [Identities -> Roles \cup {"none"}]
      /\ invitation \in [Invitations -> Invitation]
      /\ IInv /\ TrailOfMembers /\ TrailOfInvitations
  BY DEF TrailInv, IInv, TypeOK, MemberInv, AuditExplains
<1>2. CASE Insert(r)
  <2> DEFINE a == [action |-> "admitted", target |-> tx[r].who, invitation |-> tx[r].invitation,
                   from |-> "none", to |-> tx[r].to]
  <2>1. /\ tx[r].at = "insert" /\ audit' = Append(audit, a)
        /\ tx[r].who \in Identities /\ tx[r].to \in Roles /\ role[tx[r].who] = "none"
    BY <1>1, <1>2 DEF Insert, Log, Knows
  <2>2. a \in Record
    BY <1>1 DEF Tx, Record
  <2>3. tx[r].invitation = 0 => tx[r].who = Bootstrap
    BY <2>1 DEF TrailInv, Claims
  <2>4. tx[r].invitation # 0 => invitation[tx[r].invitation].state = "pending"
    BY <2>1 DEF TrailInv, Claims, InvitationLock
  <2>5. \A i \in Identities : role'[i] = IF i = tx[r].who THEN tx[r].to ELSE role[i]
    BY <1>1, <1>2 DEF Insert
  <2>6. /\ tx[r].invitation = 0 => invitation' = invitation
        /\ tx[r].invitation # 0 => invitation' = [invitation EXCEPT ![tx[r].invitation].state = "accepted"]
    BY <1>2 DEF Insert
  <2>7. tx[r].invitation \in Invitations \cup {0}
    BY <1>1 DEF Tx
  <2>8. /\ \A v \in Invitations : v # tx[r].invitation => invitation'[v].state = invitation[v].state
        /\ tx[r].invitation # 0 => invitation'[tx[r].invitation].state = "accepted"
    BY <1>1, <2>6, <2>7 DEF Invitation
  <2>9. TrailOfMembers'
    BY <1>1, <2>1, <2>2, <2>3, <2>5, MembersExplained DEF IsOfMember
  <2>10. TrailOfInvitations'
    BY <1>1, <2>1, <2>2, <2>4, <2>6, <2>8, InvitationsExplained
  <2> QED BY <2>9, <2>10 DEF AuditExplains
<1>3. CASE Invite(r)
  <2>1. PICK v \in Invitations :
          /\ invitation[v].state = "none"
          /\ invitation' = [invitation EXCEPT ![v] = [state |-> "pending", email |-> tx[r].email]]
          /\ Log("created", NoOne, v, "none", "none")
    BY <1>3 DEF Invite
  <2> DEFINE a == [action |-> "created", target |-> NoOne, invitation |-> v, from |-> "none", to |-> "none"]
  <2>2. a \in Record /\ audit' = Append(audit, a) /\ role' = role
    BY <1>3, <2>1 DEF Log, Record, Invite
  <2>3. /\ \A w \in Invitations : w # v => invitation'[w].state = invitation[w].state
        /\ invitation'[v].state = "pending"
    BY <1>1, <2>1
  <2>4. v # 0
    BY DEF Invitations
  <2>5. TrailOfMembers'
    BY <1>1, <2>2, MembersExplained DEF IsOfMember
  <2>6. TrailOfInvitations'
    BY <1>1, <2>1, <2>2, <2>3, <2>4, InvitationsExplained
  <2> QED BY <2>5, <2>6 DEF AuditExplains
<1>4. CASE Revoked(r)
  <2> DEFINE v == tx[r].invitation
             a == [action |-> "revoked", target |-> NoOne, invitation |-> v, from |-> "none", to |-> "none"]
  <2>1. tx[r].at = "revoked" /\ v \in Invitations /\ v # 0 /\ role' = role
    BY <1>1, <1>4 DEF Revoked, Knows, Invitations
  <2>2. a \in Record /\ audit' = Append(audit, a)
    BY <1>4, <2>1 DEF Revoked, Log, Record
  <2>3. invitation[v].state = "pending"
    BY <2>1 DEF TrailInv, Claims, InvitationLock
  <2>4. invitation' = [invitation EXCEPT ![v].state = "revoked"]
    BY <1>4 DEF Revoked
  <2>5. /\ \A w \in Invitations : w # v => invitation'[w].state = invitation[w].state
        /\ invitation'[v].state = "revoked"
    BY <1>1, <2>1, <2>4 DEF Invitation
  <2>6. TrailOfMembers'
    BY <1>1, <2>1, <2>2, MembersExplained DEF IsOfMember
  <2>7. TrailOfInvitations'
    BY <1>1, <2>1, <2>2, <2>3, <2>5, InvitationsExplained
  <2> QED BY <2>6, <2>7 DEF AuditExplains
<1>5. CASE Assigned(r)
  <2> DEFINE a == [action |-> "role_changed", target |-> tx[r].target, invitation |-> 0,
                   from |-> tx[r].from, to |-> tx[r].to]
  <2>1. /\ tx[r].at = "assigned" /\ audit' = Append(audit, a) /\ invitation' = invitation
        /\ tx[r].target \in Identities /\ tx[r].to \in Roles
        /\ role[tx[r].target] = tx[r].from /\ tx[r].from # "none"
    BY <1>1, <1>5 DEF Assigned, Log, Knows
  <2>2. a \in Record
    BY <1>1 DEF Tx, Record
  <2>3. \A i \in Identities : role'[i] = IF i = tx[r].target THEN tx[r].to ELSE role[i]
    BY <1>1, <1>5 DEF Assigned
  <2>4. TrailOfMembers'
    BY <1>1, <2>1, <2>2, <2>3, MembersExplained DEF IsOfMember
  <2>5. TrailOfInvitations'
    BY <1>1, <2>1, <2>2, InvitationsExplained
  <2> QED BY <2>4, <2>5 DEF AuditExplains
<1> QED BY <1>2, <1>3, <1>4, <1>5 DEF Writes

LEMMA OnlyWritesWrite ==
    ASSUME [Next]_vars, \A r \in Requests : ~Writes(r)
    PROVE  UNCHANGED <<role, invitation, audit>>
<1>1. ASSUME NEW r \in Requests, Step(r) PROVE UNCHANGED <<role, invitation, audit>>
  BY <1>1 DEF Step, Writes, TakeLock, LookUp, Accept, SignedIn, Revoke, LockMembers, ReadTarget, BreakDeadlock
<1>2. ASSUME NEW r \in Requests, Fail(r) \/ SignIn(r) \/ BeginInvite(r) \/ BeginRevoke(r) \/ BeginAssign(r)
      PROVE  UNCHANGED <<role, invitation, audit>>
  BY <1>2 DEF Fail, SignIn, BeginInvite, BeginRevoke, BeginAssign, Begin
<1> QED BY <1>1, <1>2 DEF Next, vars

LEMMA TrailStep == TrailInv /\ [Next]_vars => TrailInv'
<1> SUFFICES ASSUME TrailInv, [Next]_vars PROVE TrailInv'
  OBVIOUS
<1>1. IInv' /\ Claims'
  BY NextIInv, ClaimsStep DEF TrailInv
<1>2. CASE \E r \in Requests : Writes(r)
  BY <1>1, <1>2, WritesExplained DEF TrailInv
<1>3. CASE \A r \in Requests : ~Writes(r)
  <2>1. UNCHANGED <<role, invitation, audit>>
    BY <1>3, OnlyWritesWrite
  <2>2. AuditExplains'
    BY <2>1 DEF TrailInv, AuditExplains, TrailOfMembers, TrailOfInvitations
  <2> QED BY <1>1, <2>2 DEF TrailInv
<1> QED BY <1>2, <1>3

LEMMA EmptyTrail ==
    /\ Continuous(<<>>)
    /\ \A i : RoleAfter(<<>>, i, 0) = "none"
    /\ \A action, v : Times(<<>>, action, v) = 0
<1>1. DOMAIN <<>> = {}
  OBVIOUS
<1>2. \A i : RecordsOf(<<>>, i, 0) = {}
  BY DEF RecordsOf
<1>3. \A action, v : Times(<<>>, action, v) = 0
  BY <1>1, FS_EmptySet DEF Times
<1> QED BY <1>1, <1>2, <1>3 DEF Continuous, RoleAfter

LEMMA InitTrail == Init => TrailInv
<1> SUFFICES ASSUME Init PROVE TrailInv
  OBVIOUS
<1>1. IInv
  BY InitIInv
<1>2. Claims
  BY IdleTx DEF Init, Claims, InvitationLock
<1>3. audit = <<>> /\ Len(<<>>) = 0
  BY DEF Init
<1>4. AuditExplains
  BY <1>3, EmptyTrail DEF Init, AuditExplains, TrailOfMembers, TrailOfInvitations
<1> QED BY <1>1, <1>2, <1>4 DEF TrailInv

\* The audit trail explains every member and every invitation, whatever
\* sign-ins, revocations and role changes interleave or fail.
THEOREM AuditTrailExplains == Spec => []AuditExplains
<1>1. TrailInv => AuditExplains
  BY DEF TrailInv
<1> QED BY <1>1, InitTrail, TrailStep, PTL DEF Spec

-----------------------------------------------------------------------------
(* The handlers beside the management of members (WebRequests).  They start  *)
(* in an empty Workspace or in one with a trail that is explained; Membership *)
(* goes on under them by its own steps, so its invariant holds for WebSpec.  *)

LEMMA SettledRoles ==
    ASSUME NEW i \in Identities
    PROVE  /\ RoleAfter(Trail, i, Len(Trail)) \in Roles \cup {"none"}
           /\ RoleAfter(Trail, i, Len(Trail)) # "none" => Trail # <<>>
<1> DEFINE S == RecordsOf(Trail, i, Len(Trail))
<1>1. Trail \in Seq(Record) /\ Continuous(Trail) /\ DOMAIN Trail = 1..Len(Trail) /\ Len(Trail) \in Nat
  BY TrailAssumption
<1>2. S \in SUBSET (1..Len(Trail))
  BY DEF RecordsOf
<1>3. CASE S = {}
  BY <1>3 DEF RoleAfter
<1>4. CASE S # {}
  <2>1. Max(S) \in S
    BY <1>1, <1>2, <1>4, Greatest
  <2>2. Max(S) \in DOMAIN Trail /\ Trail[Max(S)].action \in {"admitted", "role_changed"}
    BY <1>1, <2>1 DEF RecordsOf
  <2>3. Trail[Max(S)].to \in Roles
    BY <1>1, <2>2 DEF Continuous
  <2> QED BY <1>1, <1>4, <2>2, <2>3 DEF RoleAfter
<1> QED BY <1>3, <1>4

LEMMA SettledTrail == Settled => TrailInv
<1> SUFFICES ASSUME Settled PROVE TrailInv
  OBVIOUS
<1>1. /\ Trail \in Seq(Record) /\ Continuous(Trail)
      /\ \A v \in Invitations :
          /\ Times(Trail, "created", v) \in {0, 1} /\ Times(Trail, "revoked", v) = 0
          /\ Times(Trail, "admitted", v) = Times(Trail, "created", v)
      /\ Trail # <<>> => \E i \in Identities : RoleAfter(Trail, i, Len(Trail)) = "owner"
  BY TrailAssumption
<1>2. /\ audit = Trail
      /\ \A i \in Identities : role[i] = RoleAfter(Trail, i, Len(Trail))
      /\ \A v \in Invitations :
          invitation[v].state = IF Times(Trail, "created", v) = 1 THEN "accepted" ELSE "none"
      /\ \A r \in Requests : tx[r] = Idle
  BY DEF Settled
<1>3. TypeOK
  <2>1. role \in [Identities -> Roles \cup {"none"}]
    BY SettledRoles DEF Settled
  <2>2. invitation \in [Invitations -> Invitation]
    BY MembershipAssumption DEF Settled, Invitation
  <2>3. tx \in [Requests -> Tx]
    BY IdleTx DEF Settled
  <2> QED BY <1>1, <1>2, <2>1, <2>2, <2>3, IdleTx DEF TypeOK
<1>4. Trail # <<>> => Owners # {}
  BY <1>1, <1>2 DEF Owners
<1>5. Invited
  <2>1. ASSUME NEW v \in Invitations, invitation[v].state # "none" PROVE Trail # <<>>
    <3>1. Times(Trail, "created", v) = 1
      BY <1>2, <2>1
    <3> QED BY <3>1, EmptyTrail
  <2> QED BY <1>4, <2>1 DEF Invited
<1>6. OwnerRemains
  BY <1>2, <1>4, SettledRoles DEF OwnerRemains
<1>7. Serialized /\ \A r \in Requests : Knows(r)
  BY <1>2, IdleTx DEF Serialized, AdvisoryLock, MembersLock, Knows, Managing
<1>8. Claims
  BY <1>2, IdleTx DEF Claims, InvitationLock
<1>9. AuditExplains
  BY <1>1, <1>2 DEF AuditExplains, TrailOfMembers, TrailOfInvitations
<1> QED BY <1>3, <1>5, <1>6, <1>7, <1>8, <1>9 DEF TrailInv, IInv, MemberInv

LEMMA WebTrail ==
    /\ WebInit => TrailInv
    /\ TrailInv /\ [WebNext]_allVars => [Next]_vars /\ TrailInv'
<1>1. WebInit => TrailInv
  BY InitTrail, SettledTrail DEF WebInit
<1>2. [WebNext]_allVars => [Next]_vars
  BY DEF WebNext, Manage, Next, allVars, vars
<1> QED BY <1>1, <1>2, TrailStep

\* The audit trail explains the members and invitations, and an owner remains,
\* also while handlers work in the Workspace.
THEOREM MembersOfRequests == WebSpec => [](AuditExplains /\ OwnerRemains)
<1>1. TrailInv => AuditExplains /\ OwnerRemains
  BY DEF TrailInv, IInv, MemberInv
<1> QED BY <1>1, WebTrail, PTL DEF WebSpec

\* A step of Membership adds one record to the trail, or none; what the trail
\* says of earlier moments stays.
LEMMA TrailOnlyGrows ==
    ASSUME TrailInv, [Next]_vars
    PROVE  /\ Len(audit) \in Nat /\ Len(audit') \in Nat /\ Len(audit) <= Len(audit')
           /\ \A i \in Identities, m \in 0..Len(audit) : RoleAfter(audit', i, m) = RoleAfter(audit, i, m)
<1>1. audit \in Seq(Record) /\ audit' \in Seq(Record)
  BY TrailStep DEF TrailInv, IInv, TypeOK
<1>2. audit' = audit \/ \E a \in Record : audit' = Append(audit, a)
  <2>1. ASSUME NEW r \in Requests, Writes(r) PROVE \E a : audit' = Append(audit, a)
    BY <2>1 DEF Writes, Insert, Invite, Revoked, Assigned, Log
  <2>2. ASSUME NEW a, audit' = Append(audit, a) PROVE a \in Record
    <3>1. audit'[Len(audit) + 1] = a /\ Len(audit) + 1 \in DOMAIN audit'
      BY <1>1, <2>2
    <3> QED BY <1>1, <3>1
  <2>3. (\A r \in Requests : ~Writes(r)) => audit' = audit
    BY OnlyWritesWrite
  <2> QED BY <2>1, <2>2, <2>3
<1>3. CASE audit' = audit
  BY <1>1, <1>3
<1>4. CASE \E a \in Record : audit' = Append(audit, a)
  BY <1>1, <1>4, TrailStable
<1> QED BY <1>2, <1>3, <1>4

Handler ==
    [at : {"idle", "page", "run", "read", "audit", "save", "done"}, number : Nat,
     who : Identities \cup {NoOne}, op : Operations \cup {"none"}, sees : Roles \cup {"none"},
     began : Nat, now : Nat, known : Nat, scope : SUBSET Nat,
     cluster : Nat, namespaces : SUBSET Namespaces, window : Windows \cup {NoWindow}]

Scope == [id : Nat, namespaces : SUBSET Namespaces]

WebTypeOK == web \in [Requests -> Handler] /\ handlers \in Nat /\ scopes \in Seq(Scope)

\* A handler acts on the role that its session found.
Entitled(h) ==
    /\ h.at # "idle" => h.who \in Identities /\ h.began <= Len(audit)
    /\ h.at = "page" => h.sees = RoleAfter(audit, h.who, h.began)
    /\ h.at \in {"run", "read", "save", "audit", "done"} => May(RoleAfter(audit, h.who, h.began), h.op)
    /\ h.at \in {"audit", "done"} => h.began <= h.now

\* The namespace of a log was approved by a scope the handler could see.
Approved(h) ==
    /\ h.known <= Len(scopes)
    /\ \A k \in h.scope : h.known <= k /\ k <= Len(scopes)
    /\ h.at \in {"read", "audit"} => h.op = "logs"
    /\ h.at = "save" => h.op # "logs"
    /\ h.at \in {"read", "audit", "done"} /\ h.op = "logs" =>
           \E k \in h.known..Len(scopes) :
               k # 0 /\ scopes[k].id = h.cluster /\ h.namespaces \subseteq scopes[k].namespaces
    /\ h.at \in {"audit", "done"} /\ h.op = "logs" => h.window \in Windows

\* Every saved scope is of one Cluster, and it is the one that was answered.
OneCluster ==
    /\ \A k, n \in DOMAIN scopes : scopes[k].id = scopes[n].id
    /\ scopes = <<>> => answered = {}
    /\ ClusterKeepsIdentity

WebInv ==
    /\ WebTypeOK
    /\ \A r \in Requests : Entitled(web[r]) /\ Approved(web[r])
    /\ \A r \in Requests : web[r].at = "done" /\ web[r].op = "logs" => Access(r) \in logged
    /\ OneCluster

\* What a saved scope is.
LEMMA ScopeIs ==
    ASSUME scopes \in Seq(Scope)
    PROVE  /\ Len(scopes) \in Nat
           /\ \A k \in DOMAIN scopes : scopes[k].id \in Nat
           /\ scopes # <<>> => Last(scopes).id \in Nat
<1>1. \A k \in DOMAIN scopes : scopes[k] \in Scope
  OBVIOUS
<1>2. \A k \in DOMAIN scopes : scopes[k].id \in Nat
  BY <1>1, Zenon DEF Scope
<1>3. scopes # <<>> => Len(scopes) \in DOMAIN scopes
  OBVIOUS
<1> QED BY <1>2, <1>3 DEF Last

LEMMA NoHandlerIs ==
    /\ NoHandler \in Handler /\ NoHandler.at = "idle" /\ NoHandler.known = 0 /\ NoHandler.scope = {}
    /\ NoHandler.number = 0
BY DEF NoHandler, Handler

\* A step of one handler that leaves the scopes alone.
LEMMA LocalWeb ==
    ASSUME TrailInv, WebInv, NEW r \in Requests, NEW h \in Handler, web' = [web EXCEPT ![r] = h],
           UNCHANGED <<vars, scopes, answered>>, handlers' \in Nat, logged \subseteq logged',
           Entitled(h), Approved(h),
           h.at = "done" /\ h.op = "logs" => Access(r)' \in logged'
    PROVE  WebInv'
<1>1. web'[r] = h /\ \A q \in Requests \ {r} : web'[q] = web[q]
  BY DEF WebInv, WebTypeOK
<1>2. WebTypeOK'
  BY DEF WebInv, WebTypeOK
<1>3. \A q \in Requests : Entitled(web'[q]) /\ Approved(web'[q])
  BY <1>1 DEF WebInv
<1>4. \A q \in Requests : (Entitled(web[q]) /\ Approved(web[q]))'
  BY <1>3 DEF Entitled, Approved, vars
<1>5. \A q \in Requests : (web[q].at = "done" /\ web[q].op = "logs" => Access(q) \in logged)'
  <2>1. SUFFICES ASSUME NEW q \in Requests, web'[q].at = "done", web'[q].op = "logs"
                 PROVE  Access(q)' \in logged'
    OBVIOUS
  <2>2. CASE q = r
    BY <1>1, <2>1, <2>2
  <2>3. CASE q # r
    BY <1>1, <2>1, <2>3 DEF WebInv, Access
  <2> QED BY <2>2, <2>3
<1>6. OneCluster'
  BY DEF WebInv, OneCluster, ClusterKeepsIdentity
<1> QED BY <1>2, <1>4, <1>5, <1>6 DEF WebInv

LEMMA AnswerWeb ==
    ASSUME TrailInv, WebInv, NEW r \in Requests, Answer(r), UNCHANGED <<vars, handlers, scopes, logged, answered>>
    PROVE  WebInv'
<1>1. web' = [web EXCEPT ![r] = NoHandler] /\ Len(scopes) \in Nat /\ handlers' \in Nat
  BY DEF Answer, WebInv, WebTypeOK
<1>2. Entitled(NoHandler) /\ Approved(NoHandler)
  BY <1>1, NoHandlerIs DEF Entitled, Approved
<1> QED BY <1>1, <1>2, NoHandlerIs, LocalWeb

LEMMA ArriveWeb ==
    ASSUME TrailInv, WebInv, NEW r \in Requests, Arrive(r), UNCHANGED vars
    PROVE  WebInv'
<1>1. /\ handlers \in Nat /\ handlers > 0 /\ scopes \in Seq(Scope) /\ audit \in Seq(Record)
      /\ role \in [Identities -> Roles \cup {"none"}] /\ web \in [Requests -> Handler]
      /\ web[r].at = "idle"
  BY DEF Arrive, Free, WebInv, WebTypeOK, TrailInv, IInv, TypeOK
<1>2. PICK i \in Identities, op \in Operations, page \in BOOLEAN :
        /\ role[i] # "none"
        /\ handlers' = handlers - 1
        /\ web' = IF page \/ May(role[i], op)
                  THEN [web EXCEPT ![r] =
                        [NoHandler EXCEPT !.at = IF page THEN "page" ELSE "run",
                            !.number = handlers, !.who = i, !.op = op,
                            !.sees = IF page THEN role[i] ELSE "none",
                            !.began = Len(audit), !.known = IF op = "logs" THEN Len(scopes) ELSE 0]]
                  ELSE web
  BY DEF Arrive
<1>3. handlers' \in Nat /\ UNCHANGED <<scopes, logged, answered>>
  BY <1>1, <1>2 DEF Arrive
<1>4. role[i] = RoleAfter(audit, i, Len(audit)) /\ role[i] \in Roles \cup {"none"}
  BY <1>1 DEF TrailInv, AuditExplains, TrailOfMembers
<1>5. CASE page \/ May(role[i], op)
  <2> DEFINE h == [NoHandler EXCEPT !.at = IF page THEN "page" ELSE "run",
                            !.number = handlers, !.who = i, !.op = op,
                            !.sees = IF page THEN role[i] ELSE "none",
                            !.began = Len(audit), !.known = IF op = "logs" THEN Len(scopes) ELSE 0]
  <2>1. /\ h.at = (IF page THEN "page" ELSE "run") /\ h.who = i /\ h.op = op
        /\ h.sees = (IF page THEN role[i] ELSE "none") /\ h.began = Len(audit)
        /\ h.known = (IF op = "logs" THEN Len(scopes) ELSE 0) /\ h.scope = {}
    BY DEF NoHandler
  <2>2. h \in Handler
    <3>1. Len(audit) \in Nat /\ (IF op = "logs" THEN Len(scopes) ELSE 0) \in Nat
      BY <1>1
    <3>2. (IF page THEN "page" ELSE "run") \in {"page", "run"}
      OBVIOUS
    <3>3. (IF page THEN role[i] ELSE "none") \in Roles \cup {"none"}
      BY <1>4
    <3> QED BY <1>1, <3>1, <3>2, <3>3 DEF NoHandler, Handler
  <2>3. web' = [web EXCEPT ![r] = h]
    BY <1>2, <1>5
  <2> HIDE DEF h
  <2>4. Len(audit) \in Nat /\ Len(scopes) \in Nat
    BY <1>1
  <2>5. Entitled(h)
    BY <1>4, <1>5, <2>1, <2>4 DEF Entitled
  <2>6. Approved(h)
    BY <2>1, <2>4 DEF Approved
  <2> QED BY <1>3, <2>1, <2>2, <2>3, <2>5, <2>6, LocalWeb
<1>6. CASE ~(page \/ May(role[i], op))
  <2>1. web' = [web EXCEPT ![r] = web[r]] /\ web[r] \in Handler
    BY <1>1, <1>2, <1>6
  <2>2. Entitled(web[r]) /\ Approved(web[r])
    BY DEF WebInv
  <2> QED BY <1>1, <1>3, <2>1, <2>2, LocalWeb
<1> QED BY <1>5, <1>6

LEMMA PageWeb ==
    ASSUME TrailInv, WebInv, NEW r \in Requests, Page(r), UNCHANGED vars
    PROVE  WebInv'
<1> DEFINE h == [web[r] EXCEPT !.at = "run", !.sees = "none",
                               !.scope = IF web[r].op = "logs" THEN {Len(scopes)} ELSE {}]
<1>1. /\ web \in [Requests -> Handler] /\ web[r] \in Handler /\ scopes \in Seq(Scope) /\ handlers' \in Nat
      /\ web[r].at = "page" /\ Entitled(web[r]) /\ Approved(web[r])
      /\ UNCHANGED <<handlers, scopes, logged, answered>>
  BY DEF Page, WebInv, WebTypeOK
<1>2. CASE Answer(r)
  BY <1>1, <1>2, AnswerWeb
<1>3. CASE May(web[r].sees, web[r].op) /\ Run(r)
  <2>1. web' = [web EXCEPT ![r] = h]
    BY <1>1, <1>3 DEF Run
  <2>2. h \in Handler
    <3>1. (IF web[r].op = "logs" THEN {Len(scopes)} ELSE {}) \in SUBSET Nat
      BY <1>1, ScopeIs
    <3> QED BY <1>1, <3>1 DEF Handler
  <2>3. /\ h.at = "run" /\ h.who = web[r].who /\ h.op = web[r].op /\ h.began = web[r].began
        /\ h.known = web[r].known /\ h.scope = IF web[r].op = "logs" THEN {Len(scopes)} ELSE {}
    BY <1>1 DEF Handler
  <2>4. web[r].known \in Nat /\ Len(scopes) \in Nat
    BY <1>1 DEF Handler
  <2> HIDE DEF h
  <2>5. Entitled(h)
    BY <1>1, <1>3, <2>3 DEF Entitled
  <2>6. Approved(h)
    BY <1>1, <2>3, <2>4 DEF Approved
  <2> QED BY <1>1, <2>1, <2>2, <2>3, <2>5, <2>6, LocalWeb
<1> QED BY <1>2, <1>3 DEF Page

LEMMA PerformWeb ==
    ASSUME TrailInv, WebInv, NEW r \in Requests, Perform(r), UNCHANGED vars
    PROVE  WebInv'
<1> DEFINE h == [web[r] EXCEPT !.at = "done", !.now = Len(audit), !.namespaces = {}]
<1>1. /\ web[r] \in Handler /\ handlers' \in Nat /\ audit \in Seq(Record)
      /\ web[r].at = "run" /\ web[r].op # "logs" /\ Entitled(web[r]) /\ Approved(web[r])
      /\ UNCHANGED <<handlers, scopes, logged, answered>>
  BY DEF Perform, WebInv, WebTypeOK, TrailInv, IInv, TypeOK
<1>2. web' = [web EXCEPT ![r] = h]
  BY <1>1 DEF Perform, Done, WebInv, WebTypeOK
<1>3. h \in Handler
  <2>1. Len(audit) \in Nat
    BY <1>1
  <2> QED BY <1>1, <2>1 DEF Handler
<1>4. /\ h.at = "done" /\ h.who = web[r].who /\ h.op = web[r].op /\ h.began = web[r].began
      /\ h.now = Len(audit) /\ h.known = web[r].known /\ h.scope = web[r].scope
  BY <1>1 DEF Handler
<1> HIDE DEF h
<1>5. Entitled(h)
  BY <1>1, <1>4 DEF Entitled
<1>6. Approved(h)
  BY <1>1, <1>4 DEF Approved
<1> QED BY <1>1, <1>2, <1>3, <1>4, <1>5, <1>6, LocalWeb

LEMMA ValidateScopeWeb ==
    ASSUME TrailInv, WebInv, NEW r \in Requests, ValidateScope(r), UNCHANGED vars
    PROVE  WebInv'
<1> DEFINE at == IF web[r].scope = {} THEN Len(scopes) ELSE CHOOSE k \in web[r].scope : TRUE
<1>1. /\ web[r] \in Handler /\ handlers' \in Nat /\ scopes \in Seq(Scope)
      /\ web[r].at = "run" /\ web[r].op = "logs" /\ Entitled(web[r]) /\ Approved(web[r])
      /\ UNCHANGED <<handlers, scopes, logged, answered>>
  BY DEF ValidateScope, WebInv, WebTypeOK
<1>2. PICK c \in {scopes[k].id : k \in DOMAIN scopes} \cup {0}, n \in Namespaces :
        IF at # 0 /\ scopes[at].id = c /\ n \in scopes[at].namespaces
        THEN web' = [web EXCEPT ![r].at = "read", ![r].cluster = c, ![r].namespaces = {n}, ![r].scope = {}]
        ELSE Answer(r)
  BY DEF ValidateScope
<1>3. CASE Answer(r)
  BY <1>1, <1>3, AnswerWeb
<1>4. CASE /\ at # 0 /\ scopes[at].id = c /\ n \in scopes[at].namespaces
           /\ web' = [web EXCEPT ![r].at = "read", ![r].cluster = c, ![r].namespaces = {n}, ![r].scope = {}]
  <2> DEFINE h == [web[r] EXCEPT !.at = "read", !.cluster = c, !.namespaces = {n}, !.scope = {}]
  <2>1. web' = [web EXCEPT ![r] = h]
    BY <1>4 DEF WebInv, WebTypeOK
  <2>2. c \in Nat
    BY <1>1, <1>2, ScopeIs
  <2>3. h \in Handler
    BY <1>1, <2>2 DEF Handler
  <2>4. /\ h.at = "read" /\ h.who = web[r].who /\ h.op = web[r].op /\ h.began = web[r].began
        /\ h.known = web[r].known /\ h.scope = {} /\ h.cluster = c /\ h.namespaces = {n}
    BY <1>1 DEF Handler
  <2>5. at \in web[r].known..Len(scopes)
    <3>1. web[r].known \in Nat /\ Len(scopes) \in Nat /\ web[r].scope \subseteq Nat /\ web[r].known <= Len(scopes)
      BY <1>1 DEF Handler, Approved
    <3>2. web[r].scope # {} => at \in web[r].scope
      OBVIOUS
    <3> QED BY <1>1, <3>1, <3>2 DEF Approved
  <2> HIDE DEF h, at
  <2>6. Entitled(h)
    BY <1>1, <2>4 DEF Entitled
  <2>7. Approved(h)
    BY <1>1, <1>4, <2>4, <2>5 DEF Approved
  <2> QED BY <1>1, <2>1, <2>3, <2>4, <2>6, <2>7, LocalWeb
<1> QED BY <1>2, <1>3, <1>4

LEMMA ReadLogWeb ==
    ASSUME TrailInv, WebInv, NEW r \in Requests, ReadLog(r), UNCHANGED vars
    PROVE  WebInv'
<1>1. /\ web[r] \in Handler /\ handlers' \in Nat /\ audit \in Seq(Record)
      /\ web[r].at = "read" /\ Entitled(web[r]) /\ Approved(web[r])
      /\ UNCHANGED <<handlers, scopes, logged, answered>>
  BY DEF ReadLog, WebInv, WebTypeOK, TrailInv, IInv, TypeOK
<1>2. PICK window \in Windows :
        web' = [web EXCEPT ![r].at = "audit", ![r].now = Len(audit), ![r].window = window]
  BY DEF ReadLog
<1> DEFINE h == [web[r] EXCEPT !.at = "audit", !.now = Len(audit), !.window = window]
<1>3. web' = [web EXCEPT ![r] = h]
  BY <1>2 DEF WebInv, WebTypeOK
<1>4. h \in Handler
  <2>1. Len(audit) \in Nat
    BY <1>1
  <2> QED BY <1>1, <2>1 DEF Handler
<1>5. /\ h.at = "audit" /\ h.who = web[r].who /\ h.op = web[r].op /\ h.began = web[r].began
      /\ h.now = Len(audit) /\ h.known = web[r].known /\ h.scope = web[r].scope
      /\ h.cluster = web[r].cluster /\ h.namespaces = web[r].namespaces /\ h.window = window
  BY <1>1 DEF Handler
<1> HIDE DEF h
<1>6. Entitled(h)
  BY <1>1, <1>5 DEF Entitled
<1>7. Approved(h)
  BY <1>1, <1>5 DEF Approved
<1> QED BY <1>1, <1>3, <1>4, <1>5, <1>6, <1>7, LocalWeb

LEMMA RecordLogAccessWeb ==
    ASSUME TrailInv, WebInv, NEW r \in Requests, RecordLogAccess(r), UNCHANGED vars
    PROVE  WebInv'
<1> DEFINE h == [web[r] EXCEPT !.at = "done"]
<1>1. /\ web[r] \in Handler /\ handlers' \in Nat
      /\ web[r].at = "audit" /\ Entitled(web[r]) /\ Approved(web[r])
      /\ UNCHANGED <<handlers, scopes, answered>> /\ logged' = logged \cup {Access(r)}
  BY DEF RecordLogAccess, WebInv, WebTypeOK
<1>2. web' = [web EXCEPT ![r] = h] /\ web'[r] = h
  BY DEF RecordLogAccess, WebInv, WebTypeOK
<1>3. h \in Handler
  BY <1>1 DEF Handler
<1>4. /\ h.at = "done" /\ h.who = web[r].who /\ h.op = web[r].op /\ h.began = web[r].began
      /\ h.now = web[r].now /\ h.known = web[r].known /\ h.scope = web[r].scope
      /\ h.cluster = web[r].cluster /\ h.namespaces = web[r].namespaces /\ h.window = web[r].window
      /\ h.number = web[r].number
  BY <1>1 DEF Handler
<1> HIDE DEF h
<1>5. Entitled(h)
  BY <1>1, <1>4 DEF Entitled
<1>6. Approved(h)
  BY <1>1, <1>4 DEF Approved
<1>7. Access(r)' = Access(r)
  BY <1>2, <1>4 DEF Access
<1> QED BY <1>1, <1>2, <1>3, <1>5, <1>6, <1>7, LocalWeb

LEMMA ConfigureWeb ==
    ASSUME TrailInv, WebInv, NEW r \in Requests, Configure(r), UNCHANGED vars
    PROVE  WebInv'
<1> DEFINE id == IF scopes = <<>> THEN web[r].number ELSE Last(scopes).id
<1>1. /\ web[r] \in Handler /\ handlers' \in Nat /\ scopes \in Seq(Scope)
      /\ web[r].at = "run" /\ web[r].op = "configure" /\ Entitled(web[r]) /\ Approved(web[r])
      /\ UNCHANGED <<handlers, scopes, logged, answered>>
  BY DEF Configure, WebInv, WebTypeOK
<1>2. PICK ns \in (SUBSET Namespaces) \ {{}} :
        web' = [web EXCEPT ![r].at = "save", ![r].namespaces = ns, ![r].cluster = id]
  BY DEF Configure
<1> DEFINE h == [web[r] EXCEPT !.at = "save", !.namespaces = ns, !.cluster = id]
<1>3. web' = [web EXCEPT ![r] = h]
  BY <1>2 DEF WebInv, WebTypeOK
<1>4. id \in Nat
  <2>1. web[r].number \in Nat
    BY <1>1 DEF Handler
  <2> QED BY <1>1, <2>1, ScopeIs
<1>5. h \in Handler
  BY <1>1, <1>4 DEF Handler
<1>6. /\ h.at = "save" /\ h.who = web[r].who /\ h.op = web[r].op /\ h.began = web[r].began
      /\ h.known = web[r].known /\ h.scope = web[r].scope
  BY <1>1 DEF Handler
<1> HIDE DEF h, id
<1>7. Entitled(h)
  BY <1>1, <1>6 DEF Entitled
<1>8. Approved(h)
  BY <1>1, <1>6 DEF Approved
<1> QED BY <1>1, <1>3, <1>5, <1>6, <1>7, <1>8, LocalWeb

\* The scope that is saved takes the Cluster of the one in force.
LEMMA SaveWeb ==
    ASSUME TrailInv, WebInv, NEW r \in Requests, Save(r), UNCHANGED vars
    PROVE  WebInv'
<1> DEFINE id == IF scopes = <<>> THEN web[r].cluster ELSE Last(scopes).id
           new == [id |-> id, namespaces |-> web[r].namespaces]
           h == [web[r] EXCEPT !.at = "done", !.now = Len(audit), !.namespaces = {}]
<1>1. /\ web \in [Requests -> Handler] /\ web[r] \in Handler /\ handlers' \in Nat
      /\ scopes \in Seq(Scope) /\ audit \in Seq(Record)
      /\ web[r].at = "save" /\ Entitled(web[r]) /\ Approved(web[r])
      /\ UNCHANGED <<handlers, logged>>
      /\ scopes' = Append(scopes, new) /\ answered' = answered \cup {id}
  BY DEF Save, WebInv, WebTypeOK, TrailInv, IInv, TypeOK
<1>2. /\ web' = [web EXCEPT ![r] = h] /\ web'[r] = h
      /\ \A q \in Requests \ {r} : web'[q] = web[q]
  BY <1>1 DEF Save, Done
<1>3. h \in Handler
  <2>1. Len(audit) \in Nat
    BY <1>1
  <2> QED BY <1>1, <2>1 DEF Handler
<1>4. /\ h.at = "done" /\ h.who = web[r].who /\ h.op = web[r].op /\ h.began = web[r].began
      /\ h.now = Len(audit) /\ h.known = web[r].known /\ h.scope = web[r].scope
  BY <1>1 DEF Handler
<1>5. id \in Nat
  <2>1. web[r].cluster \in Nat
    BY <1>1 DEF Handler
  <2> QED BY <1>1, <2>1, ScopeIs
<1>6. new \in Scope /\ new.id = id
  BY <1>1, <1>5 DEF Handler, Scope
<1>7. \A k \in DOMAIN scopes : scopes[k].id = id
  <2>1. scopes # <<>> => Len(scopes) \in DOMAIN scopes
    BY <1>1
  <2>2. \A k, n \in DOMAIN scopes : scopes[k].id = scopes[n].id
    BY DEF WebInv, OneCluster
  <2> QED BY <1>1, <2>1, <2>2 DEF Last
<1>8. answered \subseteq {id}
  <2>1. CASE scopes = <<>>
    BY <2>1 DEF WebInv, OneCluster
  <2>2. CASE scopes # <<>>
    <3>1. Len(scopes) \in DOMAIN scopes
      BY <1>1, <2>2
    <3> QED BY <1>7, <3>1 DEF WebInv, OneCluster, ClusterKeepsIdentity
  <2> QED BY <2>1, <2>2
<1> HIDE DEF h, id, new
<1>9. /\ scopes' \in Seq(Scope) /\ scopes' # <<>> /\ Len(scopes') = Len(scopes) + 1 /\ Len(scopes) \in Nat
      /\ \A k \in 1..Len(scopes) : scopes'[k] = scopes[k]
      /\ \A k \in DOMAIN scopes' : scopes'[k].id = id
  BY <1>1, <1>6, <1>7
<1>10. WebTypeOK'
  BY <1>1, <1>2, <1>3, <1>9 DEF WebTypeOK
<1>11. OneCluster'
  BY <1>1, <1>8, <1>9 DEF OneCluster, ClusterKeepsIdentity
<1>12. \A q \in Requests : Entitled(web[q])'
  <2>1. Entitled(h)
    BY <1>1, <1>4 DEF Entitled
  <2>2. \A q \in Requests : Entitled(web'[q])
    BY <1>2, <2>1 DEF WebInv
  <2> QED BY <2>2 DEF Entitled, vars
<1>13. \A q \in Requests : Approved(web[q])'
  <2>1. ASSUME NEW g \in Handler, Approved(g) PROVE Approved(g)'
    <3>1. g.known \in Nat /\ g.scope \subseteq Nat
      BY DEF Handler
    <3>2. \A k \in g.known..Len(scopes) : k # 0 => k \in 1..Len(scopes) /\ k \in g.known..Len(scopes')
      BY <1>9, <3>1
    <3> QED BY <1>9, <2>1, <3>1, <3>2 DEF Approved
  <2>2. h.op # "logs" /\ Approved(h)
    BY <1>1, <1>4 DEF Approved
  <2>3. \A q \in Requests : web'[q] \in Handler /\ Approved(web'[q])
    BY <1>1, <1>2, <1>3, <2>2 DEF WebInv
  <2> QED BY <2>1, <2>3 DEF Approved
<1>14. \A q \in Requests : (web[q].at = "done" /\ web[q].op = "logs" => Access(q) \in logged)'
  <2>1. h.op # "logs"
    BY <1>1, <1>4 DEF Approved
  <2> QED BY <1>1, <1>2, <2>1 DEF WebInv, Access
<1> QED BY <1>10, <1>11, <1>12, <1>13, <1>14 DEF WebInv

\* While members are managed, what a handler relies on stays true.
LEMMA ManageWeb ==
    ASSUME TrailInv, WebInv, [Next]_vars, UNCHANGED webVars
    PROVE  WebInv'
<1>1. /\ Len(audit) \in Nat /\ Len(audit') \in Nat /\ Len(audit) <= Len(audit')
      /\ \A i \in Identities, m \in 0..Len(audit) : RoleAfter(audit', i, m) = RoleAfter(audit, i, m)
  BY TrailOnlyGrows
<1>2. ASSUME NEW r \in Requests PROVE Entitled(web[r])'
  <2>1. web' = web /\ web[r] \in Handler /\ Entitled(web[r]) /\ web[r].began \in Nat
    BY DEF webVars, WebInv, WebTypeOK, Handler
  <2>2. web[r].at # "idle" =>
            RoleAfter(audit', web[r].who, web[r].began) = RoleAfter(audit, web[r].who, web[r].began)
    BY <1>1, <2>1 DEF Entitled
  <2> QED BY <1>1, <2>1, <2>2 DEF Entitled
<1>3. \A r \in Requests : Approved(web[r])'
  BY DEF webVars, WebInv, Approved
<1>4. WebTypeOK' /\ OneCluster'
  BY DEF webVars, WebInv, WebTypeOK, OneCluster, ClusterKeepsIdentity
<1>5. \A r \in Requests : (web[r].at = "done" /\ web[r].op = "logs" => Access(r) \in logged)'
  BY DEF webVars, WebInv, Access
<1> QED BY <1>2, <1>3, <1>4, <1>5 DEF WebInv

LEMMA InitWeb == WebInit => WebInv
<1> SUFFICES ASSUME WebInit PROVE WebInv
  OBVIOUS
<1>1. /\ scopes \in {<<>>, <<[id |-> 0, namespaces |-> Namespaces]>>}
      /\ answered = {} /\ \A r \in Requests : web[r] = NoHandler
  BY DEF WebInit
<1>2. scopes \in Seq(Scope) /\ Len(scopes) \in Nat
  <2>1. [id |-> 0, namespaces |-> Namespaces] \in Scope
    BY DEF Scope
  <2>2. <<[id |-> 0, namespaces |-> Namespaces]>> \in Seq(Scope)
    BY <2>1
  <2>3. <<>> \in Seq(Scope)
    OBVIOUS
  <2>4. scopes \in Seq(Scope)
    BY <1>1, <2>2, <2>3, Zenon
  <2> QED BY <2>4
<1>3. WebTypeOK
  BY <1>2, NoHandlerIs, WebAssumption DEF WebInit, WebTypeOK
<1>4. Entitled(NoHandler) /\ Approved(NoHandler)
  BY <1>2, NoHandlerIs DEF Entitled, Approved
<1>5. OneCluster
  BY <1>1 DEF OneCluster, ClusterKeepsIdentity
<1> QED BY <1>1, <1>3, <1>4, <1>5, NoHandlerIs DEF WebInv

LEMMA WebStep == TrailInv /\ WebInv /\ [WebNext]_allVars => WebInv'
<1> SUFFICES ASSUME TrailInv, WebInv, [WebNext]_allVars PROVE WebInv'
  OBVIOUS
<1>1. [Next]_vars
  BY WebTrail
<1>2. CASE UNCHANGED webVars
  BY <1>1, <1>2, ManageWeb
<1>3. ASSUME NEW r \in Requests, UNCHANGED vars, Arrive(r) \/ Handle(r) \/ HandlerFails(r)
      PROVE  WebInv'
  <2>1. CASE HandlerFails(r)
    BY <1>3, <2>1, AnswerWeb DEF HandlerFails
  <2>2. CASE Respond(r)
    BY <1>3, <2>2, AnswerWeb DEF Respond
  <2> QED BY <1>3, <2>1, <2>2, ArriveWeb, PageWeb, PerformWeb, ValidateScopeWeb, ReadLogWeb,
             RecordLogAccessWeb, ConfigureWeb, SaveWeb DEF Handle
<1> QED BY <1>2, <1>3 DEF WebNext, allVars

\* The inductive invariant of the handlers.
THEOREM WebInvariant == WebSpec => [](TrailInv /\ WebInv)
<1>1. WebInit => TrailInv /\ WebInv
  BY WebTrail, InitWeb
<1>2. (TrailInv /\ WebInv) /\ [WebNext]_allVars => (TrailInv /\ WebInv)'
  BY WebTrail, WebStep
<1> QED BY <1>1, <1>2, PTL DEF WebSpec

\* What a request does, its member was allowed to do since its session was
\* looked up, whatever the roles become while it waits.
THEOREM EffectsAreAuthorized == WebSpec => []EffectsAuthorized
<1>1. TrailInv /\ WebInv => EffectsAuthorized
  <2> SUFFICES ASSUME TrailInv, WebInv, NEW r \in Requests, web[r].at = "done" \/ web[r].at = "audit"
               PROVE  \E m \in web[r].began..web[r].now : May(RoleAfter(audit, web[r].who, m), web[r].op)
    BY DEF EffectsAuthorized
  <2>1. web[r] \in Handler /\ Entitled(web[r])
    BY DEF WebInv, WebTypeOK
  <2>2. web[r].began \in web[r].began..web[r].now
    BY <2>1 DEF Entitled, Handler
  <2> QED BY <2>1, <2>2 DEF Entitled
<1> QED BY <1>1, WebInvariant, PTL

\* A Cluster keeps the identity that owners were told, however many of them
\* save its first scope at once.
THEOREM IdentityIsKept == WebSpec => []ClusterKeepsIdentity
<1>1. WebInv => ClusterKeepsIdentity
  BY DEF WebInv, OneCluster
<1> QED BY <1>1, WebInvariant, PTL

\* A window that is answered has its audit record and an approved namespace, and
\* its limits when the windows that logs are cut to keep theirs.
THEOREM WindowsAreAccounted == ASSUME WindowsFit PROVE WebSpec => []WindowsAccounted
<1>1. WebInv => WindowsAccounted
  <2> SUFFICES ASSUME WebInv, NEW r \in Requests, web[r].at = "done", web[r].op = "logs"
               PROVE  /\ Access(r) \in logged
                      /\ \E k \in web[r].known..Len(scopes) :
                          /\ k # 0 /\ scopes[k].id = web[r].cluster
                          /\ web[r].namespaces \subseteq scopes[k].namespaces
                      /\ web[r].window.lines <= web[r].window.tail /\ web[r].window.bytes <= MaxBytes
    BY Zenon DEF WindowsAccounted
  <2>1. Access(r) \in logged /\ Approved(web[r])
    BY DEF WebInv
  <2> QED BY <2>1 DEF Approved, WindowsFit
<1> QED BY <1>1, WebInvariant, PTL
=============================================================================
