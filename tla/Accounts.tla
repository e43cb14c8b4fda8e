------------------------------ MODULE Accounts -------------------------------
(***************************************************************************)
(* How people and their laptops come to belong to an organisation: the     *)
(* Google sign-in and its pending cookie, self-serve organisations, domain *)
(* and invite joins, enrolment, promotion, and the deletion of a tenant.   *)
(* Every database transaction is one step, except those that read a row,   *)
(* decide and write it back (redeem_invite, claim_domain, upsert_identity).*)
(***************************************************************************)
EXTENDS Common, Integers, FiniteSets

CONSTANTS
    Person, Domain, Code,
    DomainOf,     \* [Person -> Domain or None]: None is a public mail domain
    Threads,      \* request threads
    MaxOrgIdAttempts, \* candidates base, base-2, ... for one slug
    INVITE_USES,
    MaxRequests, MaxCrashes,
    Exclusive,    \* TRUE: a request starts only when no other is running
    Careful      \* TRUE: a browser sends its pending cookie once, and not after joining

\* All names here have the same slug, the contended case: org n is base-n.
OrgId == 1..MaxOrgIdAttempts
Role == {"founder", "engineer"}
Identity == [org : OrgId, role : Role]
Invite == [org : OrgId, bound : BOOLEAN, uses : 0..INVITE_USES, live : BOOLEAN]
Session == [who : Person \cup {None}, org : OrgId, role : Role, stale : BOOLEAN]

ASSUME AccountsAssumption ==
    /\ MaxOrgIdAttempts \in Nat \ {0} /\ INVITE_USES \in Nat \ {0}
    /\ MaxRequests \in Nat /\ MaxCrashes \in Nat
    /\ DomainOf \in [Person -> Domain \cup {None}]
    /\ None \notin Domain \cup Person \cup Nat \cup Identity \cup Invite
    /\ Exclusive \in BOOLEAN /\ Careful \in BOOLEAN

VARIABLES
    orgs, teams, domains, actors, identities, invites,  \* the tables
    rows,      \* orgs with synced digests
    raws,      \* orgs with a raw_transcript row
    blobs,     \* orgs with a blob in the object store
    pending,   \* people holding a pending sign-up cookie
    sessions,  \* web sessions issued
    agents,    \* orgs a team token was issued for
    job, requests, crashes,
    founded,   \* history: the founder each self-serve org was made for
    granted,   \* history: <<person, org>> given the founder role
    taken,     \* history: how often each invite was redeemed
    late       \* history: orgs written to while they had no org row

people == <<domains, actors, identities>>
content == <<rows, raws, blobs>>
cookies == <<pending, sessions, agents>>
history == <<founded, granted, taken, late>>
avars == <<orgs, teams, people, invites, content, cookies, job, requests, crashes, history>>

\* A request in progress: for whom, in which org, and what it has read so far.
Job(pc, who, role, o) == [pc |-> pc, who |-> who, role |-> role, org |-> o, code |-> None, seen |-> None]
Idle == Job("idle", None, "engineer", None)
Running == {"claim", "team", "domain", "claimed", "actor", "identity", "known", "session",
            "redeem", "consume", "token", "raw", "blobs", "sweep"}

Jobs == [pc : Running \cup {"idle"}, who : Person \cup {None}, role : Role, org : OrgId \cup {None},
         code : Code \cup {None}, seen : Nat \cup {None}]

AccountsTypeOK ==
    /\ orgs \in SUBSET OrgId /\ teams \in SUBSET OrgId
    /\ domains \in [Domain -> OrgId \cup {None}] /\ actors \in [Person -> OrgId \cup {None}]
    /\ identities \in [Person -> Identity \cup {None}]
    /\ invites \in [Code -> Invite \cup {None}]
    /\ rows \in SUBSET OrgId /\ raws \in SUBSET OrgId /\ blobs \in SUBSET OrgId
    /\ pending \in SUBSET Person /\ sessions \in SUBSET Session /\ agents \in SUBSET OrgId
    /\ job \in [Threads -> Jobs] /\ requests \in 0..MaxRequests /\ crashes \in 0..MaxCrashes
    /\ founded \in [OrgId -> Person \cup {None}] /\ granted \in SUBSET (Person \X OrgId)
    /\ taken \in [Code -> Nat] /\ late \in SUBSET OrgId

AccountsInit ==
    /\ orgs = {} /\ teams = {} /\ domains = [d \in Domain |-> None]
    /\ actors = [p \in Person |-> None] /\ identities = [p \in Person |-> None]
    /\ invites = [c \in Code |-> None]
    /\ rows = {} /\ raws = {} /\ blobs = {}
    /\ pending = {} /\ sessions = {} /\ agents = {}
    /\ job = [t \in Threads |-> Idle] /\ requests = 0 /\ crashes = 0
    /\ founded = [o \in OrgId |-> None] /\ granted = {} /\ taken = [c \in Code |-> 0] /\ late = {}

Request ==
    /\ Exclusive => \A t \in Threads : job[t] = Idle
    /\ requests < MaxRequests
    /\ requests' = requests + 1

Serve(t, j) == job' = [job EXCEPT ![t] = j]
Start(t, j) == job[t] = Idle /\ Request /\ Serve(t, j)
Writes(o) == late' = IF o \in orgs THEN late ELSE late \cup {o}

\* What a founder may do, and the operator's admin token may do for any org.
FounderOf(o) == \E s \in sessions : s.org = o /\ s.role = "founder"
Holds(p, o, role) == [who |-> p, org |-> o, role |-> role, stale |-> FALSE]

-----------------------------------------------------------------------------
\* Sign-in

\* domain_org_for: the org the person's own domain belongs to.
domain_org_for(p) == IF DomainOf[p] = None THEN None ELSE domains[DomainOf[p]]

\* auth_callback: someone known keeps their org and role, whatever the invite.
SignInKnown(p) ==
    /\ identities[p] # None /\ Request
    /\ sessions' = sessions \cup {Holds(p, identities[p].org, identities[p].role)}
    /\ UNCHANGED <<orgs, teams, people, invites, content, pending, agents, job, crashes, history>>

SignInNew(p) ==
    /\ identities[p] = None /\ Request
    /\ pending' = pending \cup {p}
    /\ UNCHANGED <<orgs, teams, people, invites, content, sessions, agents, job, crashes, history>>

\* Mutant of Redeeming: the one who redeems is given the role of one who creates.
Redeeming_AsFounder(t, c, who) ==
    /\ invites[c] # None
    /\ Start(t, [Job("redeem", who, "founder", invites[c].org) EXCEPT !.code = c])
    /\ UNCHANGED <<orgs, teams, people, invites, content, cookies, crashes, history>>

\* Someone new with an invite, or a laptop: the invite is looked up, then redeemed.
Redeeming(t, c, who) ==
    /\ invites[c] # None
    /\ Start(t, [Job("redeem", who, "engineer", invites[c].org) EXCEPT !.code = c])
    /\ UNCHANGED <<orgs, teams, people, invites, content, cookies, crashes, history>>

SignInInvited(t, p, c) == identities[p] = None /\ Redeeming(t, c, p)
Enroll(t, c) == Redeeming(t, c, None)

\* The answer deletes the pending cookie; a browser may have sent it again before.
Choosing(t, p, pc, role, o) ==
    /\ p \in pending /\ (Careful => identities[p] = None)
    /\ Start(t, Job(pc, p, role, o))
    /\ pending' = IF Careful THEN pending \ {p} ELSE pending
    /\ UNCHANGED <<orgs, teams, people, invites, content, sessions, agents, crashes, history>>

\* Mutant of Create: the one who creates is given the role of one who joins.
Create_AsEngineer(t, p) == Choosing(t, p, "claim", "engineer", 1)

Create(t, p) == Choosing(t, p, "claim", "founder", 1)
Join(t, p) == domain_org_for(p) # None /\ Choosing(t, p, "actor", "engineer", domain_org_for(p))

PendingExpires(p) ==
    /\ p \in pending /\ pending' = pending \ {p}
    /\ UNCHANGED <<orgs, teams, people, invites, content, sessions, agents, job, requests, crashes, history>>

-----------------------------------------------------------------------------
\* The steps of a request

Step(t, pc) == job[t].pc = pc
Goto(t, pc) == Serve(t, [job[t] EXCEPT !.pc = pc])
Reading(t, pc, value) == Serve(t, [job[t] EXCEPT !.pc = pc, !.seen = value])

Open(row) == row # None /\ row.uses > 0 /\ row.live

\* redeem_invite: a use is counted down from what was read.
RedeemRead(t) ==
    /\ Step(t, "redeem")
    /\ LET row == invites[job[t].code]
       IN IF Open(row) THEN Reading(t, "consume", row.uses) ELSE Serve(t, Idle)
    /\ UNCHANGED <<orgs, teams, people, invites, content, cookies, requests, crashes, history>>

\* Mutant of RedeemWrite: the count read is written back as it was.
RedeemWrite_Uncounted(t) ==
    LET j == job[t]
    IN  /\ Step(t, "consume")
        /\ IF invites[j.code] = None
           THEN Serve(t, Idle) /\ UNCHANGED <<invites, taken>>
           ELSE /\ invites' = [invites EXCEPT ![j.code].uses = j.seen]
                /\ taken' = [taken EXCEPT ![j.code] = @ + 1]
                /\ Goto(t, IF j.who = None THEN "token" ELSE "actor")
        /\ UNCHANGED <<orgs, teams, people, content, cookies, requests, crashes, founded, granted, late>>

RedeemWrite(t) ==
    LET j == job[t]
    IN  /\ Step(t, "consume")
        /\ IF invites[j.code] = None
           THEN Serve(t, Idle) /\ UNCHANGED <<invites, taken>>
           ELSE /\ invites' = [invites EXCEPT ![j.code].uses = j.seen - 1]
                /\ taken' = [taken EXCEPT ![j.code] = @ + 1]
                /\ Goto(t, IF j.who = None THEN "token" ELSE "actor")
        /\ UNCHANGED <<orgs, teams, people, content, cookies, requests, crashes, founded, granted, late>>

IssueTeamToken(t) ==
    /\ Step(t, "token")
    /\ agents' = agents \cup {job[t].org}
    /\ Serve(t, Idle)
    /\ UNCHANGED <<orgs, teams, people, invites, content, pending, sessions, requests, crashes, history>>

\* claim_org_id: the first candidate whose row can be inserted.
ClaimOrgId(t) ==
    LET j == job[t]
    IN  /\ Step(t, "claim")
        /\ IF j.org \notin orgs
           THEN /\ orgs' = orgs \cup {j.org}
                /\ founded' = [founded EXCEPT ![j.org] = j.who]
                /\ granted' = granted \cup {<<j.who, j.org>>}
                /\ late' = late \ {j.org}
                /\ Goto(t, "team")
           ELSE /\ IF j.org = MaxOrgIdAttempts
                   THEN Serve(t, Idle) ELSE Serve(t, [j EXCEPT !.org = @ + 1])
                /\ UNCHANGED <<orgs, founded, granted, late>>
        /\ UNCHANGED <<teams, people, invites, content, cookies, requests, crashes, taken>>

CreateTeam(t) ==
    /\ Step(t, "team")
    /\ teams' = teams \cup {job[t].org}
    /\ Writes(job[t].org)
    /\ Goto(t, IF DomainOf[job[t].who] = None THEN "actor" ELSE "domain")
    /\ UNCHANGED <<orgs, people, invites, content, cookies, requests, crashes, founded, granted, taken>>

\* claim_domain: the first org keeps it; one that lost the insert fails the request.
DomainRead(t) ==
    /\ Step(t, "domain")
    /\ IF domain_org_for(job[t].who) = None THEN Goto(t, "claimed") ELSE Goto(t, "actor")
    /\ UNCHANGED <<orgs, teams, people, invites, content, cookies, requests, crashes, history>>

DomainWrite(t) ==
    LET j == job[t]
    IN  /\ Step(t, "claimed")
        /\ IF domain_org_for(j.who) = None
           THEN /\ domains' = [domains EXCEPT ![DomainOf[j.who]] = j.org]
                /\ Writes(j.org) /\ Goto(t, "actor")
           ELSE Serve(t, Idle) /\ UNCHANGED <<domains, late>>
        /\ UNCHANGED <<orgs, teams, actors, identities, invites, content, cookies, requests, crashes,
                       founded, granted, taken>>

UpsertActor(t) ==
    /\ Step(t, "actor")
    /\ actors' = [actors EXCEPT ![job[t].who] = job[t].org]
    /\ Writes(job[t].org)
    /\ Goto(t, "identity")
    /\ UNCHANGED <<orgs, teams, domains, identities, invites, content, cookies, requests, crashes,
                   founded, granted, taken>>

\* upsert_identity: a row that was there keeps its org and role; a new one is merged,
\* over one inserted since as well.
IdentityRead(t) ==
    /\ Step(t, "identity")
    /\ Goto(t, IF identities[job[t].who] = None THEN "known" ELSE "session")
    /\ UNCHANGED <<orgs, teams, people, invites, content, cookies, requests, crashes, history>>

IdentityWrite(t) ==
    LET j == job[t]
    IN  /\ Step(t, "known")
        /\ identities' = [identities EXCEPT ![j.who] = [org |-> j.org, role |-> j.role]]
        /\ Writes(j.org)
        /\ Goto(t, "session")
        /\ UNCHANGED <<orgs, teams, domains, actors, invites, content, cookies, requests, crashes,
                       founded, granted, taken>>

\* set_session_cookie with the org this request was about.
IssueSession(t) ==
    LET j == job[t]
    IN  /\ Step(t, "session")
        /\ sessions' = sessions \cup {Holds(j.who, j.org, j.role)}
        /\ Serve(t, Idle)
        /\ UNCHANGED <<orgs, teams, people, invites, content, pending, agents, requests, crashes, history>>

-----------------------------------------------------------------------------
\* What founders and the operator do

\* create_invite: named after one person it serves once.
CreateInvite(c, o, bound) ==
    /\ invites[c] = None /\ taken[c] = 0 /\ Request
    /\ invites' = [invites EXCEPT ![c] =
          [org |-> o, bound |-> bound, uses |-> IF bound THEN 1 ELSE INVITE_USES, live |-> TRUE]]
    /\ Writes(o)
    /\ UNCHANGED <<orgs, teams, people, content, cookies, job, crashes, founded, granted, taken>>

\* live_invite: the welcome page shows an invite that still serves, or makes one.
Welcome(c, o) ==
    /\ FounderOf(o)
    /\ \A other \in Code : Open(invites[other]) /\ ~invites[other].bound => invites[other].org # o
    /\ CreateInvite(c, o, FALSE)

InviteByFounder(c, o, bound) == FounderOf(o) /\ CreateInvite(c, o, bound)

RevokeInvite(c, o) ==
    /\ FounderOf(o) /\ Request
    /\ invites[c] # None /\ invites[c].org = o
    /\ invites' = [invites EXCEPT ![c] = None]
    /\ UNCHANGED <<orgs, teams, people, content, cookies, job, crashes, history>>

InviteExpires(c) ==
    /\ invites[c] # None /\ invites[c].live
    /\ invites' = [invites EXCEPT ![c].live = FALSE]
    /\ UNCHANGED <<orgs, teams, people, content, cookies, job, requests, crashes, history>>

\* set_identity_role, of a member of the founder's org.
Promote(p, o) ==
    /\ FounderOf(o) /\ Request
    /\ identities[p] # None /\ identities[p].org = o
    /\ identities' = [identities EXCEPT ![p].role = "founder"]
    /\ granted' = granted \cup {<<p, o>>}
    /\ UNCHANGED <<orgs, teams, domains, actors, invites, content, cookies, job, crashes,
                   founded, taken, late>>

\* The operator makes an org and its team and hands out its tokens.
Onboard(o) ==
    /\ o \notin orgs /\ Request
    /\ orgs' = orgs \cup {o} /\ teams' = teams \cup {o}
    /\ agents' = agents \cup {o}
    /\ sessions' = sessions \cup {Holds(None, o, "founder")}
    /\ founded' = [founded EXCEPT ![o] = None] /\ late' = late \ {o}
    /\ UNCHANGED <<people, invites, content, pending, job, crashes, granted, taken>>

-----------------------------------------------------------------------------
\* Laptops write with a token that is good until it expires, whatever became of the org

Ingest(o) ==
    /\ o \in agents /\ Request
    /\ rows' = rows \cup {o} /\ Writes(o)
    /\ UNCHANGED <<orgs, teams, people, invites, raws, blobs, cookies, job, crashes, founded, granted, taken>>

\* upload_raw: a known digest's transcript is put, then recorded.
UploadRaw(t, o) ==
    /\ o \in agents \cap rows
    /\ Start(t, Job("raw", None, "engineer", o))
    /\ blobs' = blobs \cup {o}
    /\ UNCHANGED <<orgs, teams, people, invites, rows, raws, cookies, crashes, history>>

RecordRaw(t) ==
    /\ Step(t, "raw")
    /\ raws' = raws \cup {job[t].org} /\ Writes(job[t].org)
    /\ Serve(t, Idle)
    /\ UNCHANGED <<orgs, teams, people, invites, rows, blobs, cookies, requests, crashes,
                   founded, granted, taken>>

-----------------------------------------------------------------------------
\* delete_org

Has(row, o) == row # None /\ row.org = o

\* org_footprint: the tables that hold anything of the org.
org_footprint(o) ==
    {k \in {"org", "team", "org_domain", "actor", "identity", "invite", "compaction", "raw"} :
        CASE k = "org" -> o \in orgs
          [] k = "team" -> o \in teams
          [] k = "org_domain" -> \E d \in Domain : domains[d] = o
          [] k = "actor" -> \E p \in Person : actors[p] = o
          [] k = "identity" -> \E p \in Person : Has(identities[p], o)
          [] k = "invite" -> \E c \in Code : Has(invites[c], o)
          [] k = "compaction" -> o \in rows
          [] k = "raw" -> o \in raws}

\* raw_object_keys, before any blob goes: how many there are.
DeleteOrg(t, o) ==
    /\ org_footprint(o) # {}
    /\ Start(t, [Job("blobs", None, "engineer", o) EXCEPT !.seen = IF o \in raws THEN 1 ELSE 0])
    /\ UNCHANGED <<orgs, teams, people, invites, content, cookies, crashes, history>>

\* Mutant of DeleteBlobs: the rows go whatever became of the blobs.
DeleteBlobs_Regardless(t) ==
    /\ Step(t, "blobs")
    /\ \/ blobs' = IF job[t].seen > 0 THEN blobs \ {job[t].org} ELSE blobs
       \/ job[t].seen > 0 /\ UNCHANGED blobs
    /\ Goto(t, "sweep")
    /\ UNCHANGED <<orgs, teams, people, invites, rows, raws, cookies, requests, crashes, history>>

\* A blob the store would not delete keeps every row.
DeleteBlobs(t) ==
    /\ Step(t, "blobs")
    /\ \/ /\ blobs' = IF job[t].seen > 0 THEN blobs \ {job[t].org} ELSE blobs
          /\ Goto(t, "sweep")
       \/ job[t].seen > 0 /\ Serve(t, Idle) /\ UNCHANGED blobs
    /\ UNCHANGED <<orgs, teams, people, invites, rows, raws, cookies, requests, crashes, history>>

\* store.delete_org: every table with an org_id, one transaction.
SweepOrg(t) ==
    LET o == job[t].org
        Gone(table) == [k \in DOMAIN table |-> IF table[k] = o THEN None ELSE table[k]]
        Drop(table) == [k \in DOMAIN table |-> IF Has(table[k], o) THEN None ELSE table[k]]
    IN  /\ Step(t, "sweep")
        /\ orgs' = orgs \ {o} /\ teams' = teams \ {o}
        /\ domains' = Gone(domains) /\ actors' = Gone(actors)
        /\ identities' = Drop(identities) /\ invites' = Drop(invites)
        /\ rows' = rows \ {o} /\ raws' = raws \ {o}
        /\ sessions' = {IF s.org = o THEN [s EXCEPT !.stale = TRUE] ELSE s : s \in sessions}
        /\ late' = late \ {o}
        /\ Serve(t, Idle)
        /\ UNCHANGED <<blobs, pending, agents, requests, crashes, founded, granted, taken>>

\* The server restarts: its requests are lost.
Crash ==
    /\ crashes < MaxCrashes
    /\ \E t \in Threads : job[t] # Idle
    /\ crashes' = crashes + 1
    /\ job' = [t \in Threads |-> Idle]
    /\ UNCHANGED <<orgs, teams, people, invites, content, cookies, requests, history>>

AccountsNext ==
    \/ \E p \in Person : SignInKnown(p) \/ SignInNew(p) \/ PendingExpires(p)
    \/ \E t \in Threads, p \in Person :
          Create(t, p) \/ Join(t, p) \/ \E c \in Code : SignInInvited(t, p, c)
    \/ \E t \in Threads, c \in Code : Enroll(t, c)
    \/ \E t \in Threads :
          \/ RedeemRead(t) \/ RedeemWrite(t) \/ IssueTeamToken(t)
          \/ ClaimOrgId(t) \/ CreateTeam(t) \/ DomainRead(t) \/ DomainWrite(t)
          \/ UpsertActor(t) \/ IdentityRead(t) \/ IdentityWrite(t) \/ IssueSession(t)
          \/ RecordRaw(t) \/ DeleteBlobs(t) \/ SweepOrg(t)
    \/ \E t \in Threads, o \in OrgId : UploadRaw(t, o) \/ DeleteOrg(t, o)
    \/ \E c \in Code, o \in OrgId :
          \/ Welcome(c, o) \/ RevokeInvite(c, o)
          \/ \E bound \in BOOLEAN : InviteByFounder(c, o, bound)
    \/ \E c \in Code : InviteExpires(c)
    \/ \E p \in Person, o \in OrgId : Promote(p, o)
    \/ \E o \in OrgId : Onboard(o) \/ Ingest(o)
    \/ Crash

AccountsSpec == AccountsInit /\ [][AccountsNext]_avars

-----------------------------------------------------------------------------
\* Properties

Settled == \A t \in Threads : job[t] = Idle

\* Nobody is a founder who did not make the org or get promoted in it, however
\* sign-ins, joins, invites and promotions interleave.
FoundersWereMade ==
    \A p \in Person : identities[p] # None /\ identities[p].role = "founder" =>
        <<p, identities[p].org>> \in granted

\* An invite lets in as many as it was made for.
InviteNotReplayed ==
    \A c \in Code : invites[c] # None =>
        taken[c] + invites[c].uses <= IF invites[c].bound THEN 1 ELSE INVITE_USES

\* A self-serve org that was not cut short has the founder it was made for: nobody
\* is left outside the organisation they created, or inside two.
OrgHasFounder ==
    Settled /\ crashes = 0 => \A o \in orgs : founded[o] # None =>
        identities[founded[o]] = [org |-> o, role |-> "founder"]

\* A session opens the org its holder is a member of, with no more than their role,
\* until that org is deleted.
SessionAgrees ==
    Settled => \A s \in sessions : s.who # None /\ ~s.stale =>
        /\ identities[s.who] # None /\ identities[s.who].org = s.org
        /\ s.role = "founder" => identities[s.who].role = "founder"

\* What an organisation's people are and what their sessions may do agree.
MembersAgree == OrgHasFounder /\ SessionAgrees

\* Deleting an org leaves nothing of it, until somebody with a token writes again,
\* and no blob is ever left that no row points at.
DeletedLeavesNothing ==
    Settled /\ crashes = 0 =>
        /\ \A o \in OrgId : o \notin orgs \cup late => org_footprint(o) = {}
        /\ blobs \subseteq raws
=============================================================================
