----------------------------- MODULE MCWebRequests -----------------------------
(* Two identities share an address and manage members in two requests, or read
   logs, save the Cluster scope and work with the Workspace meanwhile. *)
EXTENDS WebRequests, TLC

CONSTANTS olga, pavel, e1, r1, r2, n1, n2, Absent

MCIdentities == {olga, pavel}
MCEmails     == {e1}
MCEmailOf    == [i \in MCIdentities |-> e1]
MCRequests   == {r1, r2}
MCNamespaces == {n1, n2}

\* Both are owners.
MCTrail ==
    << [action |-> "admitted", target |-> olga, invitation |-> 0, from |-> "none", to |-> "owner"],
       [action |-> "created", target |-> NoOne, invitation |-> 1, from |-> "none", to |-> "none"],
       [action |-> "admitted", target |-> pavel, invitation |-> 1, from |-> "none", to |-> "viewer"],
       [action |-> "role_changed", target |-> pavel, invitation |-> 0, from |-> "viewer", to |-> "operator"] >>

\* A log whose last character does not fit.
MCTexts == {<<1, Newline, 2, 4>>}

\* The cut of a log, for every text of a few characters (RecentLogWindow).
ShortTexts == UNION {[1..n -> {Newline, 1, 3, 4}] : n \in 0..4}

ASSUME WindowIsCutRight == \A text \in ShortTexts, tail \in 1..MaxLines : CutsRight(text, tail)

ASSUME WindowsKeepLimits == WindowsFit

ASSUME ResponseIsCutRight == \A text \in ShortTexts : ChunksDoNotMatter(Encode(text))
-----------------------------------------------------------------------------
(* The two admission stores, given the same calls (AdmissionStores).         *)

Stores == INSTANCE AdmissionStores WITH
    Bootstrap <- "olga", EmailAddresses <- {"olga@", "guest@"}, Lifetime <- 3,
    NormalizeEmail <- [Olga |-> "olga@", guest |-> "guest@", Guest |-> "guest@", word |-> "word", empty |-> "blank"]

Who(key, email) == [key |-> key, email |-> email]
Owner  == [id |-> 1, capabilities |-> {"workspace:read", "membership:manage"}]
Viewer == [id |-> 1, capabilities |-> {"workspace:read"}]

Calls ==
    {[do |-> "admit", identity |-> Who("olga", "empty"), auth |-> FALSE],
     [do |-> "admit", identity |-> Who("olga", "Guest"), auth |-> TRUE],
     [do |-> "invite", email |-> "word", actor |-> Owner],
     [do |-> "invite", email |-> "Guest", actor |-> Viewer],
     [do |-> "invite", email |-> "Guest", actor |-> Owner],
     [do |-> "revoke", id |-> 1, actor |-> Owner],
     [do |-> "revoke", id |-> 2, actor |-> Owner],
     [do |-> "log", actor |-> Owner]}
    \cup {[do |-> "admit", identity |-> Who(k, e), auth |-> FALSE] : k \in {"pavel", "rita"}, e \in {"guest", "Olga"}}
    \cup {[do |-> "session", token |-> t] : t \in 1..2}
    \cup {[do |-> "assign", id |-> i, role |-> r, actor |-> Owner] : i \in 1..2, r \in {"owner", "operator"}}
    \cup {[do |-> "assign", id |-> 1, role |-> "nobody", actor |-> Owner]}

\* The n-th call runs at time n.
At(calls) == [n \in DOMAIN calls |-> calls[n] @@ [at |-> n]]

\* The owner signs in first, or someone else does.
Filled ==
    {<< >>,
     <<[do |-> "admit", identity |-> Who("olga", "Olga"), auth |-> FALSE]>>,
     <<[do |-> "admit", identity |-> Who("olga", "Olga"), auth |-> FALSE],
       [do |-> "invite", email |-> "guest", actor |-> Owner],
       [do |-> "admit", identity |-> Who("pavel", "Guest"), auth |-> FALSE]>>}

\* An actor signed in: it is the owner of the Workspace.
ActorsExist(ops) ==
    \A n \in DOMAIN ops : "actor" \in DOMAIN ops[n] =>
        \E k \in 1..(n - 1) : ops[k] = [do |-> "admit", identity |-> Who("olga", "Olga"), auth |-> FALSE]

\* The in-memory store, which the tests use, and the database admit, refuse,
\* invite, revoke, change roles and record alike; the Members they list have
\* the same capabilities, from the table of the program and from the rows of
\* the migrations (MemoryAdmissionStore, PostgresAdmissionStore).
ASSUME StoresAnswerAlike ==
    \A first \in Filled, calls \in [1..3 -> Calls] :
        ActorsExist(first \o calls) => Stores!StoresAgree(At(first \o calls))
=============================================================================
