--------------------------- MODULE AccountsProofs ---------------------------
(***************************************************************************)
(* Theorems about who belongs to an organisation, for any people, domains, *)
(* invites and threads and any bounds.  That founders were made holds for  *)
(* every interleaving; the others for requests that do not overlap, where  *)
(* what a request has read still holds when it writes.                     *)
(***************************************************************************)
EXTENDS Accounts, TLAPS

USE AccountsAssumption

-----------------------------------------------------------------------------
\* The inductive invariants

Makes == {"claim", "team", "domain", "claimed"}
Enters == {"actor", "identity", "known"}

\* What a request knows of whom and what it serves.
JobOK(j) ==
    /\ j.pc # "idle" => j.org \in OrgId
    /\ j.pc \in Makes \cup Enters \cup {"session"} => j.who \in Person
    /\ j.pc \in {"domain", "claimed"} => DomainOf[j.who] # None
    /\ j.pc \in {"redeem", "consume"} => j.code \in Code
    /\ j.pc = "consume" => j.seen \in 1..INVITE_USES
    /\ j.pc = "blobs" => j.seen \in Nat

Types == AccountsTypeOK /\ \A t \in Threads : JobOK(job[t])

\* Whoever a request will write down as a founder has been made one, but for the
\* request that is still looking for an org to make.
Granted(j) == j.role = "founder" => j.pc = "claim" \/ <<j.who, j.org>> \in granted
Founded == FoundersWereMade /\ \A t \in Threads : Granted(job[t])
GrantInv == Types /\ Founded

\* One request at a time.
Alone == \A s, t \in Threads : job[s] # Idle /\ job[t] # Idle => s = t

\* What a request has read is still so.
StillSo(j) ==
    /\ j.pc = "consume" => invites[j.code] # None /\ invites[j.code].uses = j.seen
    /\ j.pc \in Makes => j.role = "founder"
    /\ j.pc = "claimed" => domains[DomainOf[j.who]] = None
    /\ Careful =>
          /\ j.pc \in Makes \cup Enters \cup {"redeem", "consume"} /\ j.who # None => identities[j.who] = None
          /\ j.pc = "session" => identities[j.who] = [org |-> j.org, role |-> j.role]
    /\ crashes = 0 =>
          /\ j.pc = "blobs" => j.seen = IF j.org \in raws THEN 1 ELSE 0
          /\ j.pc = "sweep" => j.org \notin blobs
Steady == \A t \in Threads : StillSo(job[t])

\* A web session that is good is a member's.
GoodSessions ==
    Careful => \A s \in sessions : s.who # None /\ ~s.stale =>
        /\ identities[s.who] # None /\ identities[s.who].org = s.org
        /\ s.role = "founder" => identities[s.who].role = "founder"

\* The founder of an org is one, or becomes one by the request that made the org.
Becoming(j, o) ==
    j.pc \in (Makes \ {"claim"}) \cup Enters /\ j.who = founded[o] /\ j.org = o /\ j.role = "founder"
FoundersRemain ==
    Careful /\ crashes = 0 => \A o \in orgs : founded[o] # None =>
        \/ identities[founded[o]] = [org |-> o, role |-> "founder"]
        \/ \E t \in Threads : Becoming(job[t], o)

NothingLeft == \A o \in OrgId : o \notin orgs \cup late => org_footprint(o) = {}
BlobsKnown ==
    crashes = 0 => \A o \in blobs : o \in raws \/ \E t \in Threads : job[t].pc = "raw" /\ job[t].org = o

SerialInv ==
    /\ Types /\ Alone /\ Steady
    /\ InviteNotReplayed /\ GoodSessions /\ FoundersRemain /\ NothingLeft /\ BlobsKnown

-----------------------------------------------------------------------------
\* A request that goes on leaves the others alone.
LEMMA Served ==
    ASSUME Types, NEW t \in Threads, NEW j \in Jobs, JobOK(j), Serve(t, j)
    PROVE  job' \in [Threads -> Jobs] /\ \A s \in Threads : JobOK(job'[s])
  BY DEF Types, AccountsTypeOK, Serve

LEMMA IdleOK == Idle \in Jobs /\ JobOK(Idle) /\ Idle.pc = "idle"
  BY DEF Idle, Job, Jobs, Role, JobOK, Makes, Enters

LEMMA HoldsOK ==
    ASSUME NEW p \in Person \cup {None}, NEW o \in OrgId, NEW r \in Role
    PROVE  Holds(p, o, r) \in Session
  BY DEF Holds, Session

LEMMA StaleOK == \A s \in Session : [s EXCEPT !.stale = TRUE] \in Session
  BY DEF Session

LEMMA ExpiredOK == \A i \in Invite : [i EXCEPT !.live = FALSE] \in Invite
  BY DEF Invite

LEMMA TypesStep ==
    ASSUME Types, [AccountsNext]_avars
    PROVE  Types'
  <1>1. ASSUME NEW p \in Person, SignInKnown(p)
        PROVE  Types'
    <2>1. Holds(p, identities[p].org, identities[p].role) \in Session
      BY <1>1, HoldsOK DEF SignInKnown, Types, AccountsTypeOK, Identity
    <2>2. QED
      BY <1>1, <2>1 DEF Types, AccountsTypeOK, people, content, cookies, history, SignInKnown, Request
  <1>2. ASSUME NEW p \in Person, SignInNew(p)
        PROVE  Types'
    BY <1>2 DEF Types, AccountsTypeOK, people, content, cookies, history, SignInNew, Request
  <1>3. ASSUME NEW p \in Person, PendingExpires(p)
        PROVE  Types'
    BY <1>3 DEF Types, AccountsTypeOK, people, content, cookies, history, PendingExpires
  <1>4. ASSUME NEW t \in Threads, NEW p \in Person, Create(t, p)
        PROVE  Types'
    <2>1. PICK j \in Jobs : JobOK(j) /\ Serve(t, j)
      <3>1. /\ Job("claim", p, "founder", 1) \in Jobs
            /\ JobOK(Job("claim", p, "founder", 1))
        BY DEF Job, Jobs, Running, Role, OrgId, JobOK, Makes, Enters
      <3>2. QED
        BY <1>4, <3>1 DEF Create, Choosing, Start
    <2>2. job' \in [Threads -> Jobs] /\ \A s \in Threads : JobOK(job'[s])
      BY <2>1, Served
    <2>3. QED
      BY <1>4, <2>2 DEF Types, AccountsTypeOK, people, content, cookies, history, Create, Choosing, Start, Request
  <1>5. ASSUME NEW t \in Threads, NEW p \in Person, Join(t, p)
        PROVE  Types'
    <2>1. PICK j \in Jobs : JobOK(j) /\ Serve(t, j)
      BY <1>5 DEF Types, AccountsTypeOK, JobOK, Jobs, Running, Role, Makes, Enters, Join, Choosing, Start, domain_org_for, Job, OrgId
    <2>2. job' \in [Threads -> Jobs] /\ \A s \in Threads : JobOK(job'[s])
      BY <2>1, Served
    <2>3. QED
      BY <1>5, <2>2 DEF Types, AccountsTypeOK, people, content, cookies, history, Join, Choosing, Start, Request
  <1>6. ASSUME NEW t \in Threads, NEW p \in Person, NEW c \in Code, SignInInvited(t, p, c)
        PROVE  Types'
    <2>1. PICK j \in Jobs : JobOK(j) /\ Serve(t, j)
      BY ZenonT(60), <1>6 DEF Types, AccountsTypeOK, JobOK, Jobs, Running, Role, Makes, Enters, SignInInvited, Redeeming, Start, Invite, Job, OrgId
    <2>2. job' \in [Threads -> Jobs] /\ \A s \in Threads : JobOK(job'[s])
      BY <2>1, Served
    <2>3. QED
      BY <1>6, <2>2 DEF Types, AccountsTypeOK, people, content, cookies, history, SignInInvited, Redeeming, Start, Request
  <1>7. ASSUME NEW t \in Threads, NEW c \in Code, Enroll(t, c)
        PROVE  Types'
    <2>1. PICK j \in Jobs : JobOK(j) /\ Serve(t, j)
      BY <1>7 DEF Types, AccountsTypeOK, JobOK, Jobs, Running, Role, Makes, Enters, Enroll, Redeeming, Start, Invite, Job, OrgId
    <2>2. job' \in [Threads -> Jobs] /\ \A s \in Threads : JobOK(job'[s])
      BY <2>1, Served
    <2>3. QED
      BY <1>7, <2>2 DEF Types, AccountsTypeOK, people, content, cookies, history, Enroll, Redeeming, Start, Request
  <1>8. ASSUME NEW t \in Threads, RedeemRead(t)
        PROVE  Types'
    <2>1. PICK j \in Jobs : JobOK(j) /\ Serve(t, j)
      <3>1. CASE Open(invites[job[t].code])
        <4> DEFINE n == invites[job[t].code].uses
                   j == [job[t] EXCEPT !.pc = "consume", !.seen = n]
        <4>1. job[t] \in Jobs /\ JobOK(job[t]) /\ job[t].pc = "redeem"
          BY <1>8 DEF RedeemRead, Step, Types, AccountsTypeOK
        <4>2. n \in 1..INVITE_USES /\ n \in Nat
          BY <3>1, <4>1 DEF Types, AccountsTypeOK, JobOK, Invite, Open
        <4>3. Serve(t, j)
          BY <1>8, <3>1 DEF RedeemRead, Reading
        <4> HIDE DEF n
        <4>4. j \in Jobs /\ JobOK(j)
          BY <4>1, <4>2 DEF JobOK, Jobs, Running, Makes, Enters
        <4>5. QED
          BY <4>3, <4>4
      <3>2. CASE ~Open(invites[job[t].code])
        BY <1>8, <3>2, IdleOK DEF RedeemRead
      <3>3. QED
        BY <3>1, <3>2
    <2>2. job' \in [Threads -> Jobs] /\ \A s \in Threads : JobOK(job'[s])
      BY <2>1, Served
    <2>3. QED
      BY <1>8, <2>2 DEF Types, AccountsTypeOK, people, content, cookies, history, RedeemRead
  <1>9. ASSUME NEW t \in Threads, RedeemWrite(t)
        PROVE  Types'
    <2>1. PICK j \in Jobs : JobOK(j) /\ Serve(t, j)
      <3>1. CASE invites[job[t].code] = None
        BY <1>9, <3>1, IdleOK DEF RedeemWrite
      <3>2. CASE invites[job[t].code] # None
        <4> DEFINE j == [job[t] EXCEPT !.pc = IF job[t].who = None THEN "token" ELSE "actor"]
        <4>1. j \in Jobs /\ JobOK(j)
          BY <1>9 DEF RedeemWrite, Step, Types, AccountsTypeOK, JobOK, Jobs, Running, Makes, Enters
        <4>2. Serve(t, j)
          BY <1>9, <3>2 DEF RedeemWrite, Goto
        <4>3. QED
          BY <4>1, <4>2
      <3>3. QED
        BY <3>1, <3>2
    <2>2. job' \in [Threads -> Jobs] /\ \A s \in Threads : JobOK(job'[s])
      BY <2>1, Served
    <2>3. QED
      BY SMTT(30), <1>9, <2>2 DEF Types, AccountsTypeOK, people, content, cookies, history, RedeemWrite, Invite, JobOK, Step
  <1>10. ASSUME NEW t \in Threads, IssueTeamToken(t)
        PROVE  Types'
    <2>1. PICK j \in Jobs : JobOK(j) /\ Serve(t, j)
      BY <1>10 DEF Types, AccountsTypeOK, JobOK, Jobs, Running, Role, Makes, Enters, IssueTeamToken, Step, Idle, Job, OrgId
    <2>2. job' \in [Threads -> Jobs] /\ \A s \in Threads : JobOK(job'[s])
      BY <2>1, Served
    <2>3. QED
      BY <1>10, <2>2 DEF Types, AccountsTypeOK, people, content, cookies, history, IssueTeamToken, Step, JobOK
  <1>11. ASSUME NEW t \in Threads, ClaimOrgId(t)
        PROVE  Types'
    <2>1. PICK j \in Jobs : JobOK(j) /\ Serve(t, j)
      <3>1. CASE job[t].org \notin orgs
        BY <1>11, <3>1 DEF ClaimOrgId, Step, Goto, Types, AccountsTypeOK, JobOK, Jobs, Running, Makes, Enters
      <3>2. CASE job[t].org \in orgs /\ job[t].org = MaxOrgIdAttempts
        BY <1>11, <3>2, IdleOK DEF ClaimOrgId
      <3>3. CASE job[t].org \in orgs /\ job[t].org # MaxOrgIdAttempts
        <4> DEFINE next == job[t].org + 1
        <4>1. job[t] \in Jobs /\ JobOK(job[t]) /\ job[t].pc = "claim"
          BY <1>11 DEF ClaimOrgId, Step, Types, AccountsTypeOK
        <4>2. next \in OrgId
          BY <3>3, <4>1 DEF JobOK, OrgId
        <4>3. Serve(t, [job[t] EXCEPT !.org = next])
          BY <1>11, <3>3 DEF ClaimOrgId
        <4> HIDE DEF next
        <4>4. [job[t] EXCEPT !.org = next] \in Jobs /\ JobOK([job[t] EXCEPT !.org = next])
          BY <4>1, <4>2 DEF JobOK, Jobs, Makes, Enters
        <4>5. QED
          BY <4>3, <4>4
      <3>4. QED
        BY <3>1, <3>2, <3>3
    <2>2. job' \in [Threads -> Jobs] /\ \A s \in Threads : JobOK(job'[s])
      BY <2>1, Served
    <2>3. QED
      BY <1>11, <2>2 DEF Types, AccountsTypeOK, people, content, cookies, history, ClaimOrgId, Step, JobOK, Makes
  <1>12. ASSUME NEW t \in Threads, CreateTeam(t)
        PROVE  Types'
    <2>1. PICK j \in Jobs : JobOK(j) /\ Serve(t, j)
      BY <1>12 DEF Types, AccountsTypeOK, JobOK, Jobs, Running, Role, Makes, Enters, CreateTeam, Step, Goto
    <2>2. job' \in [Threads -> Jobs] /\ \A s \in Threads : JobOK(job'[s])
      BY <2>1, Served
    <2>3. QED
      BY <1>12, <2>2 DEF Types, AccountsTypeOK, people, content, cookies, history, CreateTeam, Step, JobOK, Writes
  <1>13. ASSUME NEW t \in Threads, DomainRead(t)
        PROVE  Types'
    <2>1. PICK j \in Jobs : JobOK(j) /\ Serve(t, j)
      BY <1>13 DEF Types, AccountsTypeOK, JobOK, Jobs, Running, Role, Makes, Enters, DomainRead, Step, Goto
    <2>2. job' \in [Threads -> Jobs] /\ \A s \in Threads : JobOK(job'[s])
      BY <2>1, Served
    <2>3. QED
      BY <1>13, <2>2 DEF Types, AccountsTypeOK, people, content, cookies, history, DomainRead
  <1>14. ASSUME NEW t \in Threads, DomainWrite(t)
        PROVE  Types'
    <2>1. PICK j \in Jobs : JobOK(j) /\ Serve(t, j)
      <3>1. CASE domain_org_for(job[t].who) = None
        BY <1>14, <3>1 DEF DomainWrite, Step, Goto, Types, AccountsTypeOK, JobOK, Jobs, Running, Makes, Enters
      <3>2. CASE domain_org_for(job[t].who) # None
        BY <1>14, <3>2, IdleOK DEF DomainWrite
      <3>3. QED
        BY <3>1, <3>2
    <2>2. job' \in [Threads -> Jobs] /\ \A s \in Threads : JobOK(job'[s])
      BY <2>1, Served
    <2>3. QED
      BY <1>14, <2>2 DEF Types, AccountsTypeOK, people, content, cookies, history, DomainWrite, Step, Writes, JobOK
  <1>15. ASSUME NEW t \in Threads, UpsertActor(t)
        PROVE  Types'
    <2>1. PICK j \in Jobs : JobOK(j) /\ Serve(t, j)
      BY <1>15 DEF Types, AccountsTypeOK, JobOK, Jobs, Running, Role, Makes, Enters, UpsertActor, Step, Goto
    <2>2. job' \in [Threads -> Jobs] /\ \A s \in Threads : JobOK(job'[s])
      BY <2>1, Served
    <2>3. QED
      BY <1>15, <2>2 DEF Types, AccountsTypeOK, people, content, cookies, history, UpsertActor, Step, Writes, JobOK, Enters
  <1>16. ASSUME NEW t \in Threads, IdentityRead(t)
        PROVE  Types'
    <2>1. PICK j \in Jobs : JobOK(j) /\ Serve(t, j)
      BY <1>16 DEF Types, AccountsTypeOK, JobOK, Jobs, Running, Role, Makes, Enters, IdentityRead, Step, Goto
    <2>2. job' \in [Threads -> Jobs] /\ \A s \in Threads : JobOK(job'[s])
      BY <2>1, Served
    <2>3. QED
      BY <1>16, <2>2 DEF Types, AccountsTypeOK, people, content, cookies, history, IdentityRead
  <1>17. ASSUME NEW t \in Threads, IdentityWrite(t)
        PROVE  Types'
    <2>1. PICK j \in Jobs : JobOK(j) /\ Serve(t, j)
      BY <1>17 DEF Types, AccountsTypeOK, JobOK, Jobs, Running, Role, Makes, Enters, IdentityWrite, Step, Goto
    <2>2. job' \in [Threads -> Jobs] /\ \A s \in Threads : JobOK(job'[s])
      BY <2>1, Served
    <2>3. QED
      BY <1>17, <2>2 DEF Types, AccountsTypeOK, people, content, cookies, history, IdentityWrite, Step, Writes, JobOK, Jobs, Identity, Enters
  <1>18. ASSUME NEW t \in Threads, IssueSession(t)
        PROVE  Types'
    <2>1. PICK j \in Jobs : JobOK(j) /\ Serve(t, j)
      BY <1>18 DEF Types, AccountsTypeOK, JobOK, Jobs, Running, Role, Makes, Enters, IssueSession, Step, Idle, Job, OrgId
    <2>2. job' \in [Threads -> Jobs] /\ \A s \in Threads : JobOK(job'[s])
      BY <2>1, Served
    <2>3. Holds(job[t].who, job[t].org, job[t].role) \in Session
      BY <1>18, HoldsOK DEF IssueSession, Step, Types, AccountsTypeOK, JobOK, Jobs
    <2>4. QED
      BY <1>18, <2>2, <2>3 DEF Types, AccountsTypeOK, people, content, cookies, history, IssueSession
  <1>19. ASSUME NEW t \in Threads, RecordRaw(t)
        PROVE  Types'
    <2>1. PICK j \in Jobs : JobOK(j) /\ Serve(t, j)
      BY <1>19 DEF Types, AccountsTypeOK, JobOK, Jobs, Running, Role, Makes, Enters, RecordRaw, Step, Idle, Job, OrgId
    <2>2. job' \in [Threads -> Jobs] /\ \A s \in Threads : JobOK(job'[s])
      BY <2>1, Served
    <2>3. QED
      BY <1>19, <2>2 DEF Types, AccountsTypeOK, people, content, cookies, history, RecordRaw, Step, Writes, JobOK
  <1>20. ASSUME NEW t \in Threads, DeleteBlobs(t)
        PROVE  Types'
    <2>1. PICK j \in Jobs : JobOK(j) /\ Serve(t, j)
      <3>1. CASE Goto(t, "sweep")
        BY <1>20, <3>1 DEF DeleteBlobs, Step, Goto, Types, AccountsTypeOK, JobOK, Jobs, Running, Makes, Enters
      <3>2. CASE Serve(t, Idle)
        BY <3>2, IdleOK
      <3>3. QED
        BY <1>20, <3>1, <3>2 DEF DeleteBlobs
    <2>2. job' \in [Threads -> Jobs] /\ \A s \in Threads : JobOK(job'[s])
      BY <2>1, Served
    <2>3. QED
      BY <1>20, <2>2 DEF Types, AccountsTypeOK, people, content, cookies, history, DeleteBlobs
  <1>21. ASSUME NEW t \in Threads, SweepOrg(t)
        PROVE  Types'
    <2>1. PICK j \in Jobs : JobOK(j) /\ Serve(t, j)
      BY <1>21 DEF Types, AccountsTypeOK, JobOK, Jobs, Running, Role, Makes, Enters, SweepOrg, Step, Idle, Job, OrgId
    <2>2. job' \in [Threads -> Jobs] /\ \A s \in Threads : JobOK(job'[s])
      BY <2>1, Served
    <2>3. sessions' \in SUBSET Session
      <3>1. \A s \in sessions : [s EXCEPT !.stale = TRUE] \in Session
        BY StaleOK DEF Types, AccountsTypeOK
      <3>2. QED
        BY <1>21, <3>1 DEF SweepOrg, Types, AccountsTypeOK
    <2>4. domains' \in [Domain -> OrgId \cup {None}] /\ actors' \in [Person -> OrgId \cup {None}]
      BY <1>21 DEF SweepOrg, Types, AccountsTypeOK
    <2>5. identities' \in [Person -> Identity \cup {None}] /\ invites' \in [Code -> Invite \cup {None}]
      BY <1>21 DEF SweepOrg, Types, AccountsTypeOK
    <2>6. QED
      BY <1>21, <2>2, <2>3, <2>4, <2>5 DEF Types, AccountsTypeOK, people, content, cookies, history, SweepOrg
  <1>22. ASSUME NEW t \in Threads, NEW o \in OrgId, UploadRaw(t, o)
        PROVE  Types'
    <2>1. PICK j \in Jobs : JobOK(j) /\ Serve(t, j)
      BY <1>22 DEF Types, AccountsTypeOK, JobOK, Jobs, Running, Role, Makes, Enters, UploadRaw, Start, Job, OrgId
    <2>2. job' \in [Threads -> Jobs] /\ \A s \in Threads : JobOK(job'[s])
      BY <2>1, Served
    <2>3. QED
      BY <1>22, <2>2 DEF Types, AccountsTypeOK, people, content, cookies, history, UploadRaw, Start, Request
  <1>23. ASSUME NEW t \in Threads, NEW o \in OrgId, DeleteOrg(t, o)
        PROVE  Types'
    <2>1. PICK j \in Jobs : JobOK(j) /\ Serve(t, j)
      BY <1>23 DEF Types, AccountsTypeOK, JobOK, Jobs, Running, Role, Makes, Enters, DeleteOrg, Start, Job, OrgId
    <2>2. job' \in [Threads -> Jobs] /\ \A s \in Threads : JobOK(job'[s])
      BY <2>1, Served
    <2>3. QED
      BY <1>23, <2>2 DEF Types, AccountsTypeOK, people, content, cookies, history, DeleteOrg, Start, Request
  <1>24. ASSUME NEW c \in Code, NEW o \in OrgId, Welcome(c, o)
        PROVE  Types'
    BY <1>24 DEF Types, AccountsTypeOK, people, content, cookies, history, Welcome, CreateInvite, Request, Invite, Writes
  <1>25. ASSUME NEW c \in Code, NEW o \in OrgId, NEW b \in BOOLEAN, InviteByFounder(c, o, b)
        PROVE  Types'
    BY <1>25 DEF Types, AccountsTypeOK, people, content, cookies, history, InviteByFounder, CreateInvite, Request, Invite, Writes
  <1>26. ASSUME NEW c \in Code, NEW o \in OrgId, RevokeInvite(c, o)
        PROVE  Types'
    BY <1>26 DEF Types, AccountsTypeOK, people, content, cookies, history, RevokeInvite, Request
  <1>27. ASSUME NEW c \in Code, InviteExpires(c)
        PROVE  Types'
    <2>1. [invites[c] EXCEPT !.live = FALSE] \in Invite
      BY <1>27, ExpiredOK DEF InviteExpires, Types, AccountsTypeOK
    <2>2. invites' \in [Code -> Invite \cup {None}]
      BY <1>27, <2>1 DEF InviteExpires, Types, AccountsTypeOK
    <2>3. QED
      BY <1>27, <2>2 DEF Types, AccountsTypeOK, people, content, cookies, history, InviteExpires
  <1>28. ASSUME NEW p \in Person, NEW o \in OrgId, Promote(p, o)
        PROVE  Types'
    BY <1>28 DEF Types, AccountsTypeOK, people, content, cookies, history, Promote, Request, Identity, Role
  <1>29. ASSUME NEW o \in OrgId, Onboard(o)
        PROVE  Types'
    <2>1. Holds(None, o, "founder") \in Session
      BY HoldsOK DEF Role
    <2>2. QED
      BY <1>29, <2>1 DEF Types, AccountsTypeOK, people, content, cookies, history, Onboard, Request
  <1>30. ASSUME NEW o \in OrgId, Ingest(o)
        PROVE  Types'
    BY <1>30 DEF Types, AccountsTypeOK, people, content, cookies, history, Ingest, Request, Writes
  <1>31. ASSUME Crash
        PROVE  Types'
    BY <1>31 DEF Types, AccountsTypeOK, people, content, cookies, history, Crash, Idle, Job, Jobs, JobOK, Makes, Enters, Running, Role, OrgId
  <1>32. CASE UNCHANGED avars
    BY <1>32 DEF Types, AccountsTypeOK, people, content, cookies, history, avars
  <1> QED
    BY <1>1, <1>2, <1>3, <1>4, <1>5, <1>6, <1>7, <1>8, <1>9, <1>10, <1>11, <1>12, <1>13, <1>14, <1>15, <1>16, <1>17, <1>18, <1>19, <1>20, <1>21, <1>22, <1>23, <1>24, <1>25, <1>26, <1>27, <1>28, <1>29, <1>30, <1>31, <1>32 DEF AccountsNext

\* A request that begins: as an engineer's, or looking for an org to make.
LEMMA Began ==
    ASSUME GrantInv, NEW t \in Threads, NEW j, Serve(t, j), j.role = "founder" => j.pc = "claim",
           UNCHANGED <<identities, granted>>
    PROVE  Founded'
  BY DEF GrantInv, Types, AccountsTypeOK, Founded, FoundersWereMade, Granted, Serve

\* One that ends.
LEMMA Ended ==
    ASSUME GrantInv, NEW t \in Threads, Serve(t, Idle), UNCHANGED <<identities, granted>>
    PROVE  Founded'
  BY Began DEF Idle, Job

\* One that goes on.
LEMMA WentOn ==
    ASSUME GrantInv, NEW t \in Threads, NEW j, Serve(t, j), UNCHANGED <<identities, granted>>,
           job[t].pc # "claim", j.who = job[t].who, j.role = job[t].role, j.org = job[t].org
    PROVE  Founded'
  BY DEF GrantInv, Types, AccountsTypeOK, Founded, FoundersWereMade, Granted, Serve

LEMMA WentTo ==
    ASSUME GrantInv, NEW t \in Threads, NEW pc, Goto(t, pc), job[t].pc # "claim",
           UNCHANGED <<identities, granted>>
    PROVE  Founded'
  BY WentOn DEF GrantInv, Types, AccountsTypeOK, Jobs, Goto

LEMMA GrantStep ==
    ASSUME GrantInv, [AccountsNext]_avars
    PROVE  Founded'
  <1>1. ASSUME NEW p \in Person, SignInKnown(p)
        PROVE  Founded'
    BY <1>1 DEF GrantInv, Granted, Founded, FoundersWereMade, SignInKnown, people, history, Request
  <1>2. ASSUME NEW p \in Person, SignInNew(p)
        PROVE  Founded'
    BY <1>2 DEF GrantInv, Granted, Founded, FoundersWereMade, SignInNew, people, history
  <1>3. ASSUME NEW p \in Person, PendingExpires(p)
        PROVE  Founded'
    BY <1>3 DEF GrantInv, Granted, Founded, FoundersWereMade, PendingExpires, people, history
  <1>4. ASSUME NEW t \in Threads, NEW p \in Person, Create(t, p)
        PROVE  Founded'
    <2> DEFINE j == Job("claim", p, "founder", 1)
    <2>1. Serve(t, j) /\ UNCHANGED <<identities, granted>>
      BY <1>4 DEF Create, Choosing, Start, people, history
    <2>2. j.role = "founder" => j.pc = "claim"
      BY DEF Job
    <2> HIDE DEF j
    <2>3. QED
      BY <2>1, <2>2, Began
  <1>5. ASSUME NEW t \in Threads, NEW p \in Person, Join(t, p)
        PROVE  Founded'
    <2> DEFINE j == Job("actor", p, "engineer", domain_org_for(p))
    <2>1. Serve(t, j) /\ UNCHANGED <<identities, granted>>
      BY <1>5 DEF Join, Choosing, Start, people, history
    <2>2. j.role = "founder" => j.pc = "claim"
      BY DEF Job
    <2> HIDE DEF j
    <2>3. QED
      BY <2>1, <2>2, Began
  <1>6. ASSUME NEW t \in Threads, NEW p \in Person, NEW c \in Code, SignInInvited(t, p, c)
        PROVE  Founded'
    <2> DEFINE j == [Job("redeem", p, "engineer", invites[c].org) EXCEPT !.code = c]
    <2>1. Serve(t, j) /\ UNCHANGED <<identities, granted>>
      BY <1>6 DEF SignInInvited, Redeeming, Start, people, history
    <2>2. j.role = "founder" => j.pc = "claim"
      BY DEF Job
    <2> HIDE DEF j
    <2>3. QED
      BY <2>1, <2>2, Began
  <1>7. ASSUME NEW t \in Threads, NEW c \in Code, Enroll(t, c)
        PROVE  Founded'
    <2> DEFINE j == [Job("redeem", None, "engineer", invites[c].org) EXCEPT !.code = c]
    <2>1. Serve(t, j) /\ UNCHANGED <<identities, granted>>
      BY <1>7 DEF Enroll, Redeeming, Start, people, history
    <2>2. j.role = "founder" => j.pc = "claim"
      BY DEF Job
    <2> HIDE DEF j
    <2>3. QED
      BY <2>1, <2>2, Began
  <1>8. ASSUME NEW t \in Threads, RedeemRead(t)
        PROVE  Founded'
    <2>1. CASE Open(invites[job[t].code])
      <3> DEFINE j == [job[t] EXCEPT !.pc = "consume", !.seen = invites[job[t].code].uses]
      <3>1. Serve(t, j) /\ job[t].pc = "redeem" /\ UNCHANGED <<identities, granted>>
        BY <1>8, <2>1 DEF RedeemRead, Reading, Step, people, history
      <3>2. j.who = job[t].who /\ j.role = job[t].role /\ j.org = job[t].org
        BY DEF GrantInv, Types, AccountsTypeOK, Jobs
      <3> HIDE DEF j
      <3>3. QED
        BY <3>1, <3>2, WentOn
    <2>2. CASE ~Open(invites[job[t].code])
      BY <1>8, <2>2, Ended DEF RedeemRead, people, history
    <2>3. QED
      BY <2>1, <2>2
  <1>9. ASSUME NEW t \in Threads, RedeemWrite(t)
        PROVE  Founded'
    BY <1>9, WentTo, Ended DEF RedeemWrite, Step, people, history
  <1>10. ASSUME NEW t \in Threads, IssueTeamToken(t)
        PROVE  Founded'
    BY <1>10, Ended DEF IssueTeamToken, people, history
  <1>11. ASSUME NEW t \in Threads, ClaimOrgId(t)
        PROVE  Founded'
    <2>1. CASE job[t].org \notin orgs
      <3>1. /\ UNCHANGED identities /\ granted' = granted \cup {<<job[t].who, job[t].org>>}
            /\ Goto(t, "team")
        BY <1>11, <2>1 DEF ClaimOrgId, people
      <3>2. job'[t].who = job[t].who /\ job'[t].org = job[t].org /\ \A s \in Threads \ {t} : job'[s] = job[s]
        BY <3>1 DEF Goto, Serve, GrantInv, Types, AccountsTypeOK, Jobs
      <3>3. QED
        BY <3>1, <3>2 DEF GrantInv, Founded, FoundersWereMade, Granted
    <2>2. CASE job[t].org \in orgs /\ job[t].org = MaxOrgIdAttempts
      BY <1>11, <2>2, Ended DEF ClaimOrgId, people
    <2>3. CASE job[t].org \in orgs /\ job[t].org # MaxOrgIdAttempts
      <3> DEFINE j == [job[t] EXCEPT !.org = job[t].org + 1]
      <3>1. Serve(t, j) /\ job[t].pc = "claim" /\ UNCHANGED <<identities, granted>>
        BY <1>11, <2>3 DEF ClaimOrgId, Step, people
      <3>2. j.pc = job[t].pc
        BY DEF GrantInv, Types, AccountsTypeOK, Jobs
      <3> HIDE DEF j
      <3>3. QED
        BY <3>1, <3>2, Began
    <2>4. QED
      BY <2>1, <2>2, <2>3
  <1>12. ASSUME NEW t \in Threads, CreateTeam(t)
        PROVE  Founded'
    BY <1>12, WentTo DEF CreateTeam, Step, people, history
  <1>13. ASSUME NEW t \in Threads, DomainRead(t)
        PROVE  Founded'
    BY <1>13, WentTo DEF DomainRead, Step, people, history
  <1>14. ASSUME NEW t \in Threads, DomainWrite(t)
        PROVE  Founded'
    BY <1>14, WentTo, Ended DEF DomainWrite, Step, people, history
  <1>15. ASSUME NEW t \in Threads, UpsertActor(t)
        PROVE  Founded'
    BY <1>15, WentTo DEF UpsertActor, Step, people, history
  <1>16. ASSUME NEW t \in Threads, IdentityRead(t)
        PROVE  Founded'
    BY <1>16, WentTo DEF IdentityRead, Step, people, history
  <1>17. ASSUME NEW t \in Threads, IdentityWrite(t)
        PROVE  Founded'
    <2> DEFINE row == [org |-> job[t].org, role |-> job[t].role]
    <2>1. /\ job[t].pc = "known" /\ identities' = [identities EXCEPT ![job[t].who] = row]
          /\ Goto(t, "session") /\ UNCHANGED granted
      BY <1>17 DEF IdentityWrite, Step
    <2>2. row.org = job[t].org /\ row.role = job[t].role
      OBVIOUS
    <2> HIDE DEF row
    <2>3. FoundersWereMade'
      BY <2>1, <2>2 DEF GrantInv, Types, AccountsTypeOK, Founded, FoundersWereMade, Granted
    <2>4. \A s \in Threads : Granted(job[s])'
      BY <2>1 DEF GrantInv, Types, AccountsTypeOK, Jobs, Founded, Granted, Goto, Serve
    <2>5. QED
      BY <2>3, <2>4 DEF Founded
  <1>18. ASSUME NEW t \in Threads, IssueSession(t)
        PROVE  Founded'
    BY <1>18, Ended DEF IssueSession, people, history
  <1>19. ASSUME NEW t \in Threads, RecordRaw(t)
        PROVE  Founded'
    BY <1>19, Ended DEF RecordRaw, people, history
  <1>20. ASSUME NEW t \in Threads, DeleteBlobs(t)
        PROVE  Founded'
    BY <1>20, WentTo, Ended DEF DeleteBlobs, Step, people, history
  <1>21. ASSUME NEW t \in Threads, SweepOrg(t)
        PROVE  Founded'
    <2>1. /\ \A p \in Person : identities'[p] \in {None, identities[p]}
          /\ UNCHANGED granted /\ Serve(t, Idle)
      BY <1>21 DEF SweepOrg, GrantInv, Types, AccountsTypeOK
    <2>2. \A s \in Threads : job'[s] = job[s] \/ job'[s] = Idle
      BY <2>1 DEF Serve, GrantInv, Types, AccountsTypeOK
    <2>3. Idle.role # "founder"
      BY DEF Idle, Job
    <2>4. QED
      BY <2>1, <2>2, <2>3 DEF GrantInv, Founded, FoundersWereMade, Granted
  <1>22. ASSUME NEW t \in Threads, NEW o \in OrgId, UploadRaw(t, o)
        PROVE  Founded'
    <2> DEFINE j == Job("raw", None, "engineer", o)
    <2>1. Serve(t, j) /\ UNCHANGED <<identities, granted>>
      BY <1>22 DEF UploadRaw, Start, people, history
    <2>2. j.role = "founder" => j.pc = "claim"
      BY DEF Job
    <2> HIDE DEF j
    <2>3. QED
      BY <2>1, <2>2, Began
  <1>23. ASSUME NEW t \in Threads, NEW o \in OrgId, DeleteOrg(t, o)
        PROVE  Founded'
    <2> DEFINE j == [Job("blobs", None, "engineer", o) EXCEPT !.seen = IF o \in raws THEN 1 ELSE 0]
    <2>1. Serve(t, j) /\ UNCHANGED <<identities, granted>>
      BY <1>23 DEF DeleteOrg, Start, people, history
    <2>2. j.role = "founder" => j.pc = "claim"
      BY DEF Job
    <2> HIDE DEF j
    <2>3. QED
      BY <2>1, <2>2, Began
  <1>24. ASSUME NEW c \in Code, NEW o \in OrgId, Welcome(c, o)
        PROVE  Founded'
    BY <1>24 DEF GrantInv, Granted, Founded, FoundersWereMade, Welcome, people, history, CreateInvite
  <1>25. ASSUME NEW c \in Code, NEW o \in OrgId, NEW b \in BOOLEAN, InviteByFounder(c, o, b)
        PROVE  Founded'
    BY <1>25 DEF GrantInv, Granted, Founded, FoundersWereMade, InviteByFounder, people, history, CreateInvite
  <1>26. ASSUME NEW c \in Code, NEW o \in OrgId, RevokeInvite(c, o)
        PROVE  Founded'
    BY <1>26 DEF GrantInv, Granted, Founded, FoundersWereMade, RevokeInvite, people, history
  <1>27. ASSUME NEW c \in Code, InviteExpires(c)
        PROVE  Founded'
    BY <1>27 DEF GrantInv, Granted, Founded, FoundersWereMade, InviteExpires, people, history
  <1>28. ASSUME NEW p \in Person, NEW o \in OrgId, Promote(p, o)
        PROVE  Founded'
    BY <1>28 DEF GrantInv, Granted, Founded, FoundersWereMade, Promote, people, history
  <1>29. ASSUME NEW o \in OrgId, Onboard(o)
        PROVE  Founded'
    BY <1>29 DEF GrantInv, Granted, Founded, FoundersWereMade, Onboard, people, history
  <1>30. ASSUME NEW o \in OrgId, Ingest(o)
        PROVE  Founded'
    BY <1>30 DEF GrantInv, Granted, Founded, FoundersWereMade, Ingest, people, history
  <1>31. ASSUME Crash
        PROVE  Founded'
    BY <1>31 DEF GrantInv, Founded, FoundersWereMade, Granted, Crash, Idle, Job, people, history
  <1>32. CASE UNCHANGED avars
    BY <1>32 DEF GrantInv, Granted, Founded, FoundersWereMade, avars, people, history
  <1> QED
    BY <1>1, <1>2, <1>3, <1>4, <1>5, <1>6, <1>7, <1>8, <1>9, <1>10, <1>11, <1>12, <1>13, <1>14, <1>15, <1>16, <1>17, <1>18, <1>19, <1>20, <1>21, <1>22, <1>23, <1>24, <1>25, <1>26, <1>27, <1>28, <1>29, <1>30, <1>31, <1>32 DEF AccountsNext

\* A request that starts finds every thread at rest, ...
LEMMA Resting ==
    ASSUME Exclusive, Request
    PROVE  \A t \in Threads : job[t] = Idle
  BY DEF Request

\* ... and while it runs the others are.
LEMMA OthersRest ==
    ASSUME Alone, NEW t \in Threads, job[t].pc # "idle"
    PROVE  \A s \in Threads \ {t} : job[s] = Idle
  BY DEF Alone, Idle, Job

LEMMA Rest ==
    ASSUME \A t \in Threads : job'[t] = Idle
    PROVE  Alone' /\ Steady'
  BY DEF Alone, Steady, StillSo, Makes, Enters, Idle, Job

LEMMA Turn ==
    ASSUME Types, NEW t \in Threads, NEW j, Serve(t, j), \A s \in Threads \ {t} : job[s] = Idle,
           StillSo(job[t])'
    PROVE  Alone' /\ Steady'
  <1>1. \A s \in Threads \ {t} : job'[s] = Idle
    BY DEF Types, AccountsTypeOK, Serve
  <1>2. \A s \in Threads \ {t} : StillSo(job[s])'
    BY <1>1 DEF StillSo, Makes, Enters, Idle, Job
  <1>3. QED
    BY <1>1, <1>2 DEF Alone, Steady

LEMMA Went ==
    ASSUME Types, NEW t \in Threads, NEW pc, Goto(t, pc)
    PROVE  /\ job'[t].pc = pc /\ job'[t].who = job[t].who /\ job'[t].role = job[t].role
           /\ job'[t].org = job[t].org /\ job'[t].code = job[t].code /\ job'[t].seen = job[t].seen
  BY DEF Types, AccountsTypeOK, Jobs, Goto, Serve

LEMMA SteadyStep ==
    ASSUME SerialInv, Exclusive, [AccountsNext]_avars
    PROVE  Alone' /\ Steady'
  <1> USE DEF SerialInv
  <1>1. ASSUME NEW p \in Person, SignInKnown(p)
        PROVE  Alone' /\ Steady'
    BY <1>1, Resting, Rest DEF SignInKnown
  <1>2. ASSUME NEW p \in Person, SignInNew(p)
        PROVE  Alone' /\ Steady'
    BY <1>2, Resting, Rest DEF SignInNew
  <1>3. ASSUME NEW p \in Person, PendingExpires(p)
        PROVE  Alone' /\ Steady'
    BY <1>3 DEF PendingExpires, Alone, Steady, StillSo, people, content
  <1>4. ASSUME NEW t \in Threads, NEW p \in Person, Create(t, p)
        PROVE  Alone' /\ Steady'
    <2>1. Serve(t, Job("claim", p, "founder", 1)) /\ Request
      BY <1>4 DEF Create, Choosing, Start
    <2>2. StillSo(job[t])'
      BY <1>4 DEF Create, Choosing, Start, Serve, Job, StillSo, Makes, Enters, Types, AccountsTypeOK, people, content, cookies, history
    <2>3. QED
      BY <2>1, <2>2, Resting, Turn
  <1>5. ASSUME NEW t \in Threads, NEW p \in Person, Join(t, p)
        PROVE  Alone' /\ Steady'
    <2>1. Serve(t, Job("actor", p, "engineer", domain_org_for(p))) /\ Request
      BY <1>5 DEF Join, Choosing, Start
    <2>2. StillSo(job[t])'
      BY <1>5 DEF Join, Choosing, Start, Serve, Job, StillSo, Makes, Enters, Types, AccountsTypeOK, people, content, cookies, history
    <2>3. QED
      BY <2>1, <2>2, Resting, Turn
  <1>6. ASSUME NEW t \in Threads, NEW p \in Person, NEW c \in Code, SignInInvited(t, p, c)
        PROVE  Alone' /\ Steady'
    <2>1. Serve(t, [Job("redeem", p, "engineer", invites[c].org) EXCEPT !.code = c]) /\ Request
      BY <1>6 DEF SignInInvited, Redeeming, Start
    <2>2. StillSo(job[t])'
      BY <1>6 DEF SignInInvited, Redeeming, Start, Serve, Job, StillSo, Makes, Enters, Types, AccountsTypeOK, people, content, cookies, history
    <2>3. QED
      BY <2>1, <2>2, Resting, Turn
  <1>7. ASSUME NEW t \in Threads, NEW c \in Code, Enroll(t, c)
        PROVE  Alone' /\ Steady'
    <2>1. Serve(t, [Job("redeem", None, "engineer", invites[c].org) EXCEPT !.code = c]) /\ Request
      BY <1>7 DEF Enroll, Redeeming, Start
    <2>2. StillSo(job[t])'
      BY <1>7 DEF Enroll, Redeeming, Start, Serve, Job, StillSo, Makes, Enters, Types, AccountsTypeOK, people, content, cookies, history
    <2>3. QED
      BY <2>1, <2>2, Resting, Turn
  <1>8. ASSUME NEW t \in Threads, RedeemRead(t)
        PROVE  Alone' /\ Steady'
    <2>1. PICK j : Serve(t, j)
      BY <1>8 DEF RedeemRead, Step, Goto, Reading
    <2>2. job[t].pc # "idle"
      BY <1>8 DEF RedeemRead, Step
    <2>3. StillSo(job[t])'
      <3>1. CASE Open(invites[job[t].code])
        <4>1. job'[t] = [job[t] EXCEPT !.pc = "consume", !.seen = invites[job[t].code].uses]
          BY <1>8, <3>1 DEF RedeemRead, Reading, Serve, Types, AccountsTypeOK
        <4>2. /\ job'[t].pc = "consume" /\ job'[t].seen = invites[job[t].code].uses
              /\ job'[t].who = job[t].who /\ job'[t].code = job[t].code
          BY <4>1 DEF Types, AccountsTypeOK, Jobs
        <4>3. QED
          BY <1>8, <3>1, <4>2 DEF RedeemRead, Step, Open, Steady, StillSo, Makes, Enters, people
      <3>2. CASE ~Open(invites[job[t].code])
        BY <1>8, <3>2 DEF RedeemRead, Serve, Types, AccountsTypeOK, StillSo, Makes, Enters, Idle, Job
      <3>3. QED
        BY <3>1, <3>2
    <2>4. QED
      BY <2>1, <2>2, <2>3, OthersRest, Turn
  <1>9. ASSUME NEW t \in Threads, RedeemWrite(t)
        PROVE  Alone' /\ Steady'
    <2>1. PICK j : Serve(t, j)
      BY <1>9 DEF RedeemWrite, Step, Goto, Reading
    <2>2. job[t].pc # "idle"
      BY <1>9 DEF RedeemWrite, Step
    <2>3. StillSo(job[t])'
      BY <1>9 DEF RedeemWrite, Step, Steady, StillSo, Makes, Enters, Goto, Reading, Serve, Idle, Job, Types, AccountsTypeOK, Jobs, JobOK, people, content, cookies, history
    <2>4. QED
      BY <2>1, <2>2, <2>3, OthersRest, Turn
  <1>10. ASSUME NEW t \in Threads, IssueTeamToken(t)
        PROVE  Alone' /\ Steady'
    <2>1. PICK j : Serve(t, j)
      BY <1>10 DEF IssueTeamToken, Step, Goto, Reading
    <2>2. job[t].pc # "idle"
      BY <1>10 DEF IssueTeamToken, Step
    <2>3. StillSo(job[t])'
      BY <1>10 DEF IssueTeamToken, Step, Steady, StillSo, Makes, Enters, Goto, Reading, Serve, Idle, Job, Types, AccountsTypeOK, Jobs, JobOK, people, content, cookies, history
    <2>4. QED
      BY <2>1, <2>2, <2>3, OthersRest, Turn
  <1>11. ASSUME NEW t \in Threads, ClaimOrgId(t)
        PROVE  Alone' /\ Steady'
    <2>1. PICK j : Serve(t, j)
      BY <1>11 DEF ClaimOrgId, Step, Goto, Reading
    <2>2. job[t].pc # "idle"
      BY <1>11 DEF ClaimOrgId, Step
    <2>3. StillSo(job[t])'
      <3>1. CASE Goto(t, "team")
        BY <1>11, <3>1, Went DEF ClaimOrgId, Step, Steady, StillSo, Makes, Enters, people
      <3>2. CASE Serve(t, Idle)
        BY <3>2 DEF Serve, Types, AccountsTypeOK, StillSo, Makes, Enters, Idle, Job
      <3>3. CASE Serve(t, [job[t] EXCEPT !.org = @ + 1])
        <4>1. /\ job'[t].pc = job[t].pc /\ job'[t].who = job[t].who /\ job'[t].role = job[t].role
          BY <3>3 DEF Serve, Types, AccountsTypeOK, Jobs
        <4>2. QED
          BY <1>11, <4>1 DEF ClaimOrgId, Step, Steady, StillSo, Makes, Enters, people
      <3>4. QED
        BY <1>11, <3>1, <3>2, <3>3 DEF ClaimOrgId
    <2>4. QED
      BY <2>1, <2>2, <2>3, OthersRest, Turn
  <1>12. ASSUME NEW t \in Threads, CreateTeam(t)
        PROVE  Alone' /\ Steady'
    <2>1. PICK j : Serve(t, j)
      BY <1>12 DEF CreateTeam, Step, Goto, Reading
    <2>2. job[t].pc # "idle"
      BY <1>12 DEF CreateTeam, Step
    <2>3. StillSo(job[t])'
      BY <1>12, Went DEF CreateTeam, Step, Steady, StillSo, Makes, Enters, Types, JobOK, people, content, cookies, history
    <2>4. QED
      BY <2>1, <2>2, <2>3, OthersRest, Turn
  <1>13. ASSUME NEW t \in Threads, DomainRead(t)
        PROVE  Alone' /\ Steady'
    <2>1. PICK j : Serve(t, j)
      BY <1>13 DEF DomainRead, Step, Goto, Reading
    <2>2. job[t].pc # "idle"
      BY <1>13 DEF DomainRead, Step
    <2>3. StillSo(job[t])'
      <3>1. /\ job[t].pc = "domain" /\ UNCHANGED <<domains, identities>>
            /\ \/ domain_org_for(job[t].who) = None /\ Goto(t, "claimed")
               \/ Goto(t, "actor")
        BY <1>13 DEF DomainRead, Step, people
      <3>2. domain_org_for(job[t].who) = None => domains[DomainOf[job[t].who]] = None
        BY <3>1 DEF domain_org_for, Types, JobOK
      <3>3. QED
        BY <3>1, <3>2, Went DEF Steady, StillSo, Makes, Enters
    <2>4. QED
      BY <2>1, <2>2, <2>3, OthersRest, Turn
  <1>14. ASSUME NEW t \in Threads, DomainWrite(t)
        PROVE  Alone' /\ Steady'
    <2>1. PICK j : Serve(t, j)
      BY <1>14 DEF DomainWrite, Step, Goto, Reading
    <2>2. job[t].pc # "idle"
      BY <1>14 DEF DomainWrite, Step
    <2>3. StillSo(job[t])'
      BY <1>14 DEF DomainWrite, Step, Steady, StillSo, Makes, Enters, Goto, Reading, Serve, Idle, Job, Types, AccountsTypeOK, Jobs, JobOK, people, content, cookies, history
    <2>4. QED
      BY <2>1, <2>2, <2>3, OthersRest, Turn
  <1>15. ASSUME NEW t \in Threads, UpsertActor(t)
        PROVE  Alone' /\ Steady'
    <2>1. PICK j : Serve(t, j)
      BY <1>15 DEF UpsertActor, Step, Goto, Reading
    <2>2. job[t].pc # "idle"
      BY <1>15 DEF UpsertActor, Step
    <2>3. StillSo(job[t])'
      BY <1>15, Went DEF UpsertActor, Step, Steady, StillSo, Makes, Enters, Types, JobOK, people, content, cookies, history
    <2>4. QED
      BY <2>1, <2>2, <2>3, OthersRest, Turn
  <1>16. ASSUME NEW t \in Threads, IdentityRead(t)
        PROVE  Alone' /\ Steady'
    <2>1. PICK j : Serve(t, j)
      BY <1>16 DEF IdentityRead, Step, Goto, Reading
    <2>2. job[t].pc # "idle"
      BY <1>16 DEF IdentityRead, Step
    <2>3. StillSo(job[t])'
      BY <1>16 DEF IdentityRead, Step, Steady, StillSo, Makes, Enters, Goto, Reading, Serve, Idle, Job, Types, AccountsTypeOK, Jobs, JobOK, people, content, cookies, history
    <2>4. QED
      BY <2>1, <2>2, <2>3, OthersRest, Turn
  <1>17. ASSUME NEW t \in Threads, IdentityWrite(t)
        PROVE  Alone' /\ Steady'
    <2>1. PICK j : Serve(t, j)
      BY <1>17 DEF IdentityWrite, Step, Goto, Reading
    <2>2. job[t].pc # "idle"
      BY <1>17 DEF IdentityWrite, Step
    <2>3. StillSo(job[t])'
      BY <1>17 DEF IdentityWrite, Step, Steady, StillSo, Makes, Enters, Goto, Reading, Serve, Idle, Job, Types, AccountsTypeOK, Jobs, JobOK, people, content, cookies, history
    <2>4. QED
      BY <2>1, <2>2, <2>3, OthersRest, Turn
  <1>18. ASSUME NEW t \in Threads, IssueSession(t)
        PROVE  Alone' /\ Steady'
    <2>1. PICK j : Serve(t, j)
      BY <1>18 DEF IssueSession, Step, Goto, Reading
    <2>2. job[t].pc # "idle"
      BY <1>18 DEF IssueSession, Step
    <2>3. StillSo(job[t])'
      BY <1>18 DEF IssueSession, Step, Steady, StillSo, Makes, Enters, Goto, Reading, Serve, Idle, Job, Types, AccountsTypeOK, Jobs, JobOK, people, content, cookies, history
    <2>4. QED
      BY <2>1, <2>2, <2>3, OthersRest, Turn
  <1>19. ASSUME NEW t \in Threads, RecordRaw(t)
        PROVE  Alone' /\ Steady'
    <2>1. PICK j : Serve(t, j)
      BY <1>19 DEF RecordRaw, Step, Goto, Reading
    <2>2. job[t].pc # "idle"
      BY <1>19 DEF RecordRaw, Step
    <2>3. StillSo(job[t])'
      BY <1>19 DEF RecordRaw, Step, Steady, StillSo, Makes, Enters, Goto, Reading, Serve, Idle, Job, Types, AccountsTypeOK, Jobs, JobOK, people, content, cookies, history
    <2>4. QED
      BY <2>1, <2>2, <2>3, OthersRest, Turn
  <1>20. ASSUME NEW t \in Threads, DeleteBlobs(t)
        PROVE  Alone' /\ Steady'
    <2>1. PICK j : Serve(t, j)
      BY <1>20 DEF DeleteBlobs, Step, Goto, Reading
    <2>2. job[t].pc # "idle"
      BY <1>20 DEF DeleteBlobs, Step
    <2>3. StillSo(job[t])'
      <3>1. CASE Serve(t, Idle)
        BY <3>1 DEF Serve, Types, AccountsTypeOK, StillSo, Makes, Enters, Idle, Job
      <3>2. CASE Goto(t, "sweep") /\ blobs' = IF job[t].seen > 0 THEN blobs \ {job[t].org} ELSE blobs
        <4>1. crashes = 0 /\ job[t].org \notin raws => job[t].org \notin blobs
          BY <1>20, <2>2, OthersRest DEF DeleteBlobs, Step, BlobsKnown, Idle, Job
        <4>2. crashes = 0 => job[t].org \notin blobs'
          <5>1. CASE job[t].seen > 0
            BY <3>2, <5>1
          <5>2. CASE ~(job[t].seen > 0)
            <6>1. crashes = 0 => job[t].seen = IF job[t].org \in raws THEN 1 ELSE 0
              BY <1>20 DEF DeleteBlobs, Step, Steady, StillSo
            <6>2. crashes = 0 => job[t].org \notin raws
              BY <5>2, <6>1
            <6>3. QED
              BY <3>2, <4>1, <5>2, <6>2
          <5>3. QED
            BY <5>1, <5>2
        <4>3. QED
          BY <1>20, <3>2, <4>2, Went DEF DeleteBlobs, StillSo, Makes, Enters
      <3>3. QED
        BY <1>20, <3>1, <3>2 DEF DeleteBlobs
    <2>4. QED
      BY <2>1, <2>2, <2>3, OthersRest, Turn
  <1>21. ASSUME NEW t \in Threads, SweepOrg(t)
        PROVE  Alone' /\ Steady'
    <2>1. PICK j : Serve(t, j)
      BY <1>21 DEF SweepOrg, Step, Goto, Reading
    <2>2. job[t].pc # "idle"
      BY <1>21 DEF SweepOrg, Step
    <2>3. StillSo(job[t])'
      BY <1>21 DEF SweepOrg, Step, Steady, StillSo, Makes, Enters, Goto, Reading, Serve, Idle, Job, Types, AccountsTypeOK, Jobs, JobOK, people, content, cookies, history
    <2>4. QED
      BY <2>1, <2>2, <2>3, OthersRest, Turn
  <1>22. ASSUME NEW t \in Threads, NEW o \in OrgId, UploadRaw(t, o)
        PROVE  Alone' /\ Steady'
    <2>1. Serve(t, Job("raw", None, "engineer", o)) /\ Request
      BY <1>22 DEF UploadRaw, Start
    <2>2. StillSo(job[t])'
      BY <1>22 DEF UploadRaw, Start, Serve, Job, StillSo, Makes, Enters, Types, AccountsTypeOK, people, content, cookies, history
    <2>3. QED
      BY <2>1, <2>2, Resting, Turn
  <1>23. ASSUME NEW t \in Threads, NEW o \in OrgId, DeleteOrg(t, o)
        PROVE  Alone' /\ Steady'
    <2>1. Serve(t, [Job("blobs", None, "engineer", o) EXCEPT !.seen = IF o \in raws THEN 1 ELSE 0]) /\ Request
      BY <1>23 DEF DeleteOrg, Start
    <2>2. StillSo(job[t])'
      BY <1>23 DEF DeleteOrg, Start, Serve, Job, StillSo, Makes, Enters, Types, AccountsTypeOK, people, content, cookies, history
    <2>3. QED
      BY <2>1, <2>2, Resting, Turn
  <1>24. ASSUME NEW c \in Code, NEW o \in OrgId, Welcome(c, o)
        PROVE  Alone' /\ Steady'
    BY <1>24, Resting, Rest DEF Welcome, CreateInvite
  <1>25. ASSUME NEW c \in Code, NEW o \in OrgId, NEW b \in BOOLEAN, InviteByFounder(c, o, b)
        PROVE  Alone' /\ Steady'
    BY <1>25, Resting, Rest DEF InviteByFounder, CreateInvite
  <1>26. ASSUME NEW c \in Code, NEW o \in OrgId, RevokeInvite(c, o)
        PROVE  Alone' /\ Steady'
    BY <1>26, Resting, Rest DEF RevokeInvite
  <1>27. ASSUME NEW c \in Code, InviteExpires(c)
        PROVE  Alone' /\ Steady'
    <2>1. \A k \in Code : /\ invites[k] # None => invites'[k] # None
                        /\ invites'[k].uses = invites[k].uses
      BY <1>27, ExpiredOK DEF InviteExpires, Types, AccountsTypeOK, Invite
    <2>2. \A s \in Threads : job[s].pc = "consume" => job[s].code \in Code
      BY DEF Types, JobOK
    <2>3. QED
      BY <1>27, <2>1, <2>2 DEF InviteExpires, Alone, Steady, StillSo, people, content
  <1>28. ASSUME NEW p \in Person, NEW o \in OrgId, Promote(p, o)
        PROVE  Alone' /\ Steady'
    BY <1>28, Resting, Rest DEF Promote
  <1>29. ASSUME NEW o \in OrgId, Onboard(o)
        PROVE  Alone' /\ Steady'
    BY <1>29, Resting, Rest DEF Onboard
  <1>30. ASSUME NEW o \in OrgId, Ingest(o)
        PROVE  Alone' /\ Steady'
    BY <1>30, Resting, Rest DEF Ingest
  <1>31. ASSUME Crash
        PROVE  Alone' /\ Steady'
    BY <1>31, Rest DEF Crash
  <1>32. CASE UNCHANGED avars
    BY <1>32 DEF Alone, Steady, StillSo, avars, people, content
  <1> QED
    BY <1>1, <1>2, <1>3, <1>4, <1>5, <1>6, <1>7, <1>8, <1>9, <1>10, <1>11, <1>12, <1>13, <1>14, <1>15, <1>16, <1>17, <1>18, <1>19, <1>20, <1>21, <1>22, <1>23, <1>24, <1>25, <1>26, <1>27, <1>28, <1>29, <1>30, <1>31, <1>32 DEF AccountsNext

-----------------------------------------------------------------------------
\* What a step disturbs, and what it leaves alone

InvitesAlone ==
    \/ UNCHANGED <<invites, taken>>
    \/ \E t \in Threads : RedeemWrite(t) \/ SweepOrg(t)
    \/ \E c \in Code : InviteExpires(c) \/ \E o \in OrgId : RevokeInvite(c, o)
    \/ \E c \in Code, o \in OrgId, b \in BOOLEAN : CreateInvite(c, o, b)

SessionsAlone ==
    \/ UNCHANGED <<sessions, identities>>
    \/ \E p \in Person : SignInKnown(p) \/ \E o \in OrgId : Promote(p, o)
    \/ \E t \in Threads : IdentityWrite(t) \/ IssueSession(t) \/ SweepOrg(t)
    \/ \E o \in OrgId : Onboard(o)

FoundersAlone ==
    \/ /\ UNCHANGED <<orgs, founded, identities, crashes>>
       /\ \A s \in Threads : job[s].pc \in (Makes \ {"claim"}) \cup Enters => job'[s] = job[s]
    \/ \E t \in Threads :
          \/ ClaimOrgId(t) \/ CreateTeam(t) \/ DomainRead(t) \/ DomainWrite(t)
          \/ UpsertActor(t) \/ IdentityRead(t) \/ IdentityWrite(t) \/ SweepOrg(t)
    \/ \E p \in Person, o \in OrgId : Promote(p, o)
    \/ \E o \in OrgId : Onboard(o)
    \/ Crash

TablesAlone ==
    \/ UNCHANGED <<orgs, teams, people, invites, rows, raws, late>>
    \/ \E t \in Threads :
          \/ RedeemWrite(t) \/ ClaimOrgId(t) \/ CreateTeam(t) \/ DomainWrite(t) \/ UpsertActor(t)
          \/ IdentityWrite(t) \/ RecordRaw(t) \/ SweepOrg(t)
    \/ \E c \in Code : InviteExpires(c) \/ \E o \in OrgId : RevokeInvite(c, o)
    \/ \E c \in Code, o \in OrgId, b \in BOOLEAN : CreateInvite(c, o, b)
    \/ \E p \in Person, o \in OrgId : Promote(p, o)
    \/ \E o \in OrgId : Onboard(o) \/ Ingest(o)

BlobsAlone ==
    \/ /\ UNCHANGED <<raws, blobs, crashes>>
       /\ \A s \in Threads : job[s].pc = "raw" => job'[s] = job[s]
    \/ \E t \in Threads : RecordRaw(t) \/ DeleteBlobs(t) \/ SweepOrg(t)
    \/ \E t \in Threads, o \in OrgId : UploadRaw(t, o)
    \/ Crash

AllAlone == InvitesAlone /\ SessionsAlone /\ FoundersAlone /\ TablesAlone /\ BlobsAlone

LEMMA Disturbs ==
    ASSUME Types, [AccountsNext]_avars
    PROVE  AllAlone
  <1> USE DEF AllAlone
  <1>1. ASSUME NEW p \in Person, SignInKnown(p)
        PROVE  AllAlone
    <2>1. InvitesAlone /\ FoundersAlone /\ TablesAlone /\ BlobsAlone
      BY <1>1 DEF InvitesAlone, FoundersAlone, TablesAlone, BlobsAlone, SignInKnown, people, content, cookies, history
    <2>2. SessionsAlone
      BY <1>1 DEF SessionsAlone
    <2>3. QED
      BY <2>1, <2>2
  <1>2. ASSUME NEW p \in Person, SignInNew(p)
        PROVE  AllAlone
    <2>1. InvitesAlone /\ SessionsAlone /\ FoundersAlone /\ TablesAlone /\ BlobsAlone
      BY <1>2 DEF InvitesAlone, SessionsAlone, FoundersAlone, TablesAlone, BlobsAlone, SignInNew, people, content, cookies, history
    <2>2. QED
      BY <2>1
  <1>3. ASSUME NEW p \in Person, PendingExpires(p)
        PROVE  AllAlone
    <2>1. InvitesAlone /\ SessionsAlone /\ FoundersAlone /\ TablesAlone /\ BlobsAlone
      BY <1>3 DEF InvitesAlone, SessionsAlone, FoundersAlone, TablesAlone, BlobsAlone, PendingExpires, people, content, cookies, history
    <2>2. QED
      BY <2>1
  <1>4. ASSUME NEW t \in Threads, NEW p \in Person, Create(t, p)
        PROVE  AllAlone
    <2>1. InvitesAlone /\ SessionsAlone /\ FoundersAlone /\ TablesAlone /\ BlobsAlone
      BY <1>4 DEF InvitesAlone, SessionsAlone, FoundersAlone, TablesAlone, BlobsAlone, Create, Choosing, Start, Serve, Step, Goto, Reading, Idle, Job, Types, AccountsTypeOK, Makes, Enters, people, content, cookies, history
    <2>2. QED
      BY <2>1
  <1>5. ASSUME NEW t \in Threads, NEW p \in Person, Join(t, p)
        PROVE  AllAlone
    <2>1. InvitesAlone /\ SessionsAlone /\ FoundersAlone /\ TablesAlone /\ BlobsAlone
      BY <1>5 DEF InvitesAlone, SessionsAlone, FoundersAlone, TablesAlone, BlobsAlone, Join, Choosing, Start, Serve, Step, Goto, Reading, Idle, Job, Types, AccountsTypeOK, Makes, Enters, people, content, cookies, history
    <2>2. QED
      BY <2>1
  <1>6. ASSUME NEW t \in Threads, NEW p \in Person, NEW c \in Code, SignInInvited(t, p, c)
        PROVE  AllAlone
    <2>1. InvitesAlone /\ SessionsAlone /\ FoundersAlone /\ TablesAlone /\ BlobsAlone
      BY <1>6 DEF InvitesAlone, SessionsAlone, FoundersAlone, TablesAlone, BlobsAlone, SignInInvited, Redeeming, Start, Serve, Step, Goto, Reading, Idle, Job, Types, AccountsTypeOK, Makes, Enters, people, content, cookies, history
    <2>2. QED
      BY <2>1
  <1>7. ASSUME NEW t \in Threads, NEW c \in Code, Enroll(t, c)
        PROVE  AllAlone
    <2>1. InvitesAlone /\ SessionsAlone /\ FoundersAlone /\ TablesAlone /\ BlobsAlone
      BY <1>7 DEF InvitesAlone, SessionsAlone, FoundersAlone, TablesAlone, BlobsAlone, Enroll, Redeeming, Start, Serve, Step, Goto, Reading, Idle, Job, Types, AccountsTypeOK, Makes, Enters, people, content, cookies, history
    <2>2. QED
      BY <2>1
  <1>8. ASSUME NEW t \in Threads, RedeemRead(t)
        PROVE  AllAlone
    <2>1. InvitesAlone /\ SessionsAlone /\ FoundersAlone /\ TablesAlone /\ BlobsAlone
      BY <1>8 DEF InvitesAlone, SessionsAlone, FoundersAlone, TablesAlone, BlobsAlone, RedeemRead, Serve, Step, Goto, Reading, Idle, Job, Types, AccountsTypeOK, Makes, Enters, people, content, cookies, history
    <2>2. QED
      BY <2>1
  <1>9. ASSUME NEW t \in Threads, RedeemWrite(t)
        PROVE  AllAlone
    <2>1. SessionsAlone /\ FoundersAlone /\ BlobsAlone
      BY <1>9 DEF SessionsAlone, FoundersAlone, BlobsAlone, RedeemWrite, Serve, Step, Goto, Reading, Idle, Job, Types, AccountsTypeOK, Makes, Enters, people, content, cookies, history
    <2>2. InvitesAlone /\ TablesAlone
      BY <1>9 DEF InvitesAlone, TablesAlone
    <2>3. QED
      BY <2>1, <2>2
  <1>10. ASSUME NEW t \in Threads, IssueTeamToken(t)
        PROVE  AllAlone
    <2>1. InvitesAlone /\ SessionsAlone /\ FoundersAlone /\ TablesAlone /\ BlobsAlone
      BY <1>10 DEF InvitesAlone, SessionsAlone, FoundersAlone, TablesAlone, BlobsAlone, IssueTeamToken, Serve, Step, Goto, Reading, Idle, Job, Types, AccountsTypeOK, Makes, Enters, people, content, cookies, history
    <2>2. QED
      BY <2>1
  <1>11. ASSUME NEW t \in Threads, ClaimOrgId(t)
        PROVE  AllAlone
    <2>1. InvitesAlone /\ SessionsAlone /\ BlobsAlone
      BY <1>11 DEF InvitesAlone, SessionsAlone, BlobsAlone, ClaimOrgId, Serve, Step, Goto, Reading, Idle, Job, Types, AccountsTypeOK, Makes, Enters, people, content, cookies, history
    <2>2. FoundersAlone /\ TablesAlone
      BY <1>11 DEF FoundersAlone, TablesAlone
    <2>3. QED
      BY <2>1, <2>2
  <1>12. ASSUME NEW t \in Threads, CreateTeam(t)
        PROVE  AllAlone
    <2>1. InvitesAlone /\ SessionsAlone /\ BlobsAlone
      BY <1>12 DEF InvitesAlone, SessionsAlone, BlobsAlone, CreateTeam, Serve, Step, Goto, Reading, Idle, Job, Types, AccountsTypeOK, Makes, Enters, people, content, cookies, history
    <2>2. FoundersAlone /\ TablesAlone
      BY <1>12 DEF FoundersAlone, TablesAlone
    <2>3. QED
      BY <2>1, <2>2
  <1>13. ASSUME NEW t \in Threads, DomainRead(t)
        PROVE  AllAlone
    <2>1. InvitesAlone /\ SessionsAlone /\ TablesAlone /\ BlobsAlone
      BY <1>13 DEF InvitesAlone, SessionsAlone, TablesAlone, BlobsAlone, DomainRead, Serve, Step, Goto, Reading, Idle, Job, Types, AccountsTypeOK, Makes, Enters, people, content, cookies, history
    <2>2. FoundersAlone
      BY <1>13 DEF FoundersAlone
    <2>3. QED
      BY <2>1, <2>2
  <1>14. ASSUME NEW t \in Threads, DomainWrite(t)
        PROVE  AllAlone
    <2>1. InvitesAlone /\ SessionsAlone /\ BlobsAlone
      BY <1>14 DEF InvitesAlone, SessionsAlone, BlobsAlone, DomainWrite, Serve, Step, Goto, Reading, Idle, Job, Types, AccountsTypeOK, Makes, Enters, people, content, cookies, history
    <2>2. FoundersAlone /\ TablesAlone
      BY <1>14 DEF FoundersAlone, TablesAlone
    <2>3. QED
      BY <2>1, <2>2
  <1>15. ASSUME NEW t \in Threads, UpsertActor(t)
        PROVE  AllAlone
    <2>1. InvitesAlone /\ SessionsAlone /\ BlobsAlone
      BY <1>15 DEF InvitesAlone, SessionsAlone, BlobsAlone, UpsertActor, Serve, Step, Goto, Reading, Idle, Job, Types, AccountsTypeOK, Makes, Enters, people, content, cookies, history
    <2>2. FoundersAlone /\ TablesAlone
      BY <1>15 DEF FoundersAlone, TablesAlone
    <2>3. QED
      BY <2>1, <2>2
  <1>16. ASSUME NEW t \in Threads, IdentityRead(t)
        PROVE  AllAlone
    <2>1. InvitesAlone /\ SessionsAlone /\ TablesAlone /\ BlobsAlone
      BY <1>16 DEF InvitesAlone, SessionsAlone, TablesAlone, BlobsAlone, IdentityRead, Serve, Step, Goto, Reading, Idle, Job, Types, AccountsTypeOK, Makes, Enters, people, content, cookies, history
    <2>2. FoundersAlone
      BY <1>16 DEF FoundersAlone
    <2>3. QED
      BY <2>1, <2>2
  <1>17. ASSUME NEW t \in Threads, IdentityWrite(t)
        PROVE  AllAlone
    <2>1. InvitesAlone /\ BlobsAlone
      BY <1>17 DEF InvitesAlone, BlobsAlone, IdentityWrite, Serve, Step, Goto, Reading, Idle, Job, Types, AccountsTypeOK, Makes, Enters, people, content, cookies, history
    <2>2. SessionsAlone /\ FoundersAlone /\ TablesAlone
      BY <1>17 DEF SessionsAlone, FoundersAlone, TablesAlone
    <2>3. QED
      BY <2>1, <2>2
  <1>18. ASSUME NEW t \in Threads, IssueSession(t)
        PROVE  AllAlone
    <2>1. InvitesAlone /\ FoundersAlone /\ TablesAlone /\ BlobsAlone
      BY <1>18 DEF InvitesAlone, FoundersAlone, TablesAlone, BlobsAlone, IssueSession, Serve, Step, Goto, Reading, Idle, Job, Types, AccountsTypeOK, Makes, Enters, people, content, cookies, history
    <2>2. SessionsAlone
      BY <1>18 DEF SessionsAlone
    <2>3. QED
      BY <2>1, <2>2
  <1>19. ASSUME NEW t \in Threads, RecordRaw(t)
        PROVE  AllAlone
    <2>1. InvitesAlone /\ SessionsAlone /\ FoundersAlone
      BY <1>19 DEF InvitesAlone, SessionsAlone, FoundersAlone, RecordRaw, Serve, Step, Goto, Reading, Idle, Job, Types, AccountsTypeOK, Makes, Enters, people, content, cookies, history
    <2>2. TablesAlone /\ BlobsAlone
      BY <1>19 DEF TablesAlone, BlobsAlone
    <2>3. QED
      BY <2>1, <2>2
  <1>20. ASSUME NEW t \in Threads, DeleteBlobs(t)
        PROVE  AllAlone
    <2>1. InvitesAlone /\ SessionsAlone /\ FoundersAlone /\ TablesAlone
      BY <1>20 DEF InvitesAlone, SessionsAlone, FoundersAlone, TablesAlone, DeleteBlobs, Serve, Step, Goto, Reading, Idle, Job, Types, AccountsTypeOK, Makes, Enters, people, content, cookies, history
    <2>2. BlobsAlone
      BY <1>20 DEF BlobsAlone
    <2>3. QED
      BY <2>1, <2>2
  <1>21. ASSUME NEW t \in Threads, SweepOrg(t)
        PROVE  AllAlone
    <2>1. InvitesAlone /\ SessionsAlone /\ FoundersAlone /\ TablesAlone /\ BlobsAlone
      BY <1>21 DEF InvitesAlone, SessionsAlone, FoundersAlone, TablesAlone, BlobsAlone
    <2>2. QED
      BY <2>1
  <1>22. ASSUME NEW t \in Threads, NEW o \in OrgId, UploadRaw(t, o)
        PROVE  AllAlone
    <2>1. InvitesAlone /\ SessionsAlone /\ FoundersAlone /\ TablesAlone
      BY <1>22 DEF InvitesAlone, SessionsAlone, FoundersAlone, TablesAlone, UploadRaw, Start, Serve, Step, Goto, Reading, Idle, Job, Types, AccountsTypeOK, Makes, Enters, people, content, cookies, history
    <2>2. BlobsAlone
      BY <1>22 DEF BlobsAlone
    <2>3. QED
      BY <2>1, <2>2
  <1>23. ASSUME NEW t \in Threads, NEW o \in OrgId, DeleteOrg(t, o)
        PROVE  AllAlone
    <2>1. InvitesAlone /\ SessionsAlone /\ FoundersAlone /\ TablesAlone /\ BlobsAlone
      BY <1>23 DEF InvitesAlone, SessionsAlone, FoundersAlone, TablesAlone, BlobsAlone, DeleteOrg, Start, Serve, Step, Goto, Reading, Idle, Job, Types, AccountsTypeOK, Makes, Enters, people, content, cookies, history
    <2>2. QED
      BY <2>1
  <1>24. ASSUME NEW c \in Code, NEW o \in OrgId, Welcome(c, o)
        PROVE  AllAlone
    <2>1. SessionsAlone /\ FoundersAlone /\ BlobsAlone
      BY <1>24 DEF SessionsAlone, FoundersAlone, BlobsAlone, Welcome, CreateInvite, people, content, cookies, history
    <2>2. InvitesAlone /\ TablesAlone
      BY <1>24 DEF Welcome, InvitesAlone, TablesAlone
    <2>3. QED
      BY <2>1, <2>2
  <1>25. ASSUME NEW c \in Code, NEW o \in OrgId, NEW b \in BOOLEAN, InviteByFounder(c, o, b)
        PROVE  AllAlone
    <2>1. SessionsAlone /\ FoundersAlone /\ BlobsAlone
      BY <1>25 DEF SessionsAlone, FoundersAlone, BlobsAlone, InviteByFounder, CreateInvite, people, content, cookies, history
    <2>2. InvitesAlone /\ TablesAlone
      BY <1>25 DEF InviteByFounder, InvitesAlone, TablesAlone
    <2>3. QED
      BY <2>1, <2>2
  <1>26. ASSUME NEW c \in Code, NEW o \in OrgId, RevokeInvite(c, o)
        PROVE  AllAlone
    <2>1. SessionsAlone /\ FoundersAlone /\ BlobsAlone
      BY <1>26 DEF SessionsAlone, FoundersAlone, BlobsAlone, RevokeInvite, people, content, cookies, history
    <2>2. InvitesAlone /\ TablesAlone
      BY <1>26 DEF InvitesAlone, TablesAlone
    <2>3. QED
      BY <2>1, <2>2
  <1>27. ASSUME NEW c \in Code, InviteExpires(c)
        PROVE  AllAlone
    <2>1. SessionsAlone /\ FoundersAlone /\ BlobsAlone
      BY <1>27 DEF SessionsAlone, FoundersAlone, BlobsAlone, InviteExpires, people, content, cookies, history
    <2>2. InvitesAlone /\ TablesAlone
      BY <1>27 DEF InvitesAlone, TablesAlone
    <2>3. QED
      BY <2>1, <2>2
  <1>28. ASSUME NEW p \in Person, NEW o \in OrgId, Promote(p, o)
        PROVE  AllAlone
    <2>1. InvitesAlone /\ BlobsAlone
      BY <1>28 DEF InvitesAlone, BlobsAlone, Promote, people, content, cookies, history
    <2>2. SessionsAlone /\ FoundersAlone /\ TablesAlone
      BY <1>28 DEF SessionsAlone, FoundersAlone, TablesAlone
    <2>3. QED
      BY <2>1, <2>2
  <1>29. ASSUME NEW o \in OrgId, Onboard(o)
        PROVE  AllAlone
    <2>1. InvitesAlone /\ BlobsAlone
      BY <1>29 DEF InvitesAlone, BlobsAlone, Onboard, people, content, cookies, history
    <2>2. SessionsAlone /\ FoundersAlone /\ TablesAlone
      BY <1>29 DEF SessionsAlone, FoundersAlone, TablesAlone
    <2>3. QED
      BY <2>1, <2>2
  <1>30. ASSUME NEW o \in OrgId, Ingest(o)
        PROVE  AllAlone
    <2>1. InvitesAlone /\ SessionsAlone /\ FoundersAlone /\ BlobsAlone
      BY <1>30 DEF InvitesAlone, SessionsAlone, FoundersAlone, BlobsAlone, Ingest, people, content, cookies, history
    <2>2. TablesAlone
      BY <1>30 DEF TablesAlone
    <2>3. QED
      BY <2>1, <2>2
  <1>31. ASSUME Crash
        PROVE  AllAlone
    <2>1. InvitesAlone /\ SessionsAlone /\ TablesAlone
      BY <1>31 DEF InvitesAlone, SessionsAlone, TablesAlone, Crash, Serve, Step, Goto, Reading, Idle, Job, Types, AccountsTypeOK, Makes, Enters, people, content, cookies, history
    <2>2. FoundersAlone /\ BlobsAlone
      BY <1>31 DEF FoundersAlone, BlobsAlone
    <2>3. QED
      BY <2>1, <2>2
  <1>32. CASE UNCHANGED avars
    BY <1>32 DEF InvitesAlone, SessionsAlone, FoundersAlone, TablesAlone, BlobsAlone, avars, people, content, cookies, history
  <1> QED
    BY <1>1, <1>2, <1>3, <1>4, <1>5, <1>6, <1>7, <1>8, <1>9, <1>10, <1>11, <1>12, <1>13, <1>14, <1>15, <1>16, <1>17, <1>18, <1>19, <1>20, <1>21, <1>22, <1>23, <1>24, <1>25, <1>26, <1>27, <1>28, <1>29, <1>30, <1>31, <1>32 DEF AccountsNext
-----------------------------------------------------------------------------
\* One conjunct of the invariant at a time

LEMMA UsesOK ==
    ASSUME Types, NEW c \in Code, invites[c] # None
    PROVE  /\ invites[c].org \in OrgId /\ invites[c].bound \in BOOLEAN
           /\ invites[c].uses \in 0..INVITE_USES /\ invites[c].live \in BOOLEAN
  BY DEF Types, AccountsTypeOK, Invite

LEMMA InvitesStep ==
    ASSUME SerialInv, Exclusive, [AccountsNext]_avars
    PROVE  InviteNotReplayed'
  <1> USE DEF SerialInv
  <1>1. CASE UNCHANGED <<invites, taken>>
    BY <1>1 DEF InviteNotReplayed
  <1>2. ASSUME NEW t \in Threads, RedeemWrite(t)
        PROVE  InviteNotReplayed'
    <2> DEFINE c == job[t].code
    <2>1. CASE invites[c] = None
      BY <1>2, <2>1 DEF RedeemWrite, InviteNotReplayed
    <2>2. CASE invites[c] # None
      <3>1. /\ c \in Code /\ job[t].seen \in 1..INVITE_USES /\ invites[c].uses = job[t].seen
        BY <1>2, <2>2 DEF RedeemWrite, Step, Types, JobOK, Steady, StillSo
      <3>2. /\ invites' = [invites EXCEPT ![c].uses = job[t].seen - 1]
            /\ taken' = [taken EXCEPT ![c] = @ + 1]
        BY <1>2, <2>2 DEF RedeemWrite
      <3>3. /\ invites[c] \in Invite /\ taken[c] \in Nat
        BY <2>2, <3>1 DEF Types, AccountsTypeOK
      <3>4. /\ invites'[c].uses = invites[c].uses - 1 /\ invites'[c].bound = invites[c].bound
            /\ taken'[c] = taken[c] + 1
        BY <3>1, <3>2, <3>3 DEF Types, AccountsTypeOK, Invite
      <3>5. ASSUME NEW d \in Code, d # c
            PROVE  invites'[d] = invites[d] /\ taken'[d] = taken[d]
        BY <3>1, <3>2, <3>5 DEF Types, AccountsTypeOK
      <3>6. taken[c] + invites[c].uses <= IF invites[c].bound THEN 1 ELSE INVITE_USES
        BY <2>2, <3>1 DEF InviteNotReplayed
      <3>7. taken'[c] + invites'[c].uses <= IF invites'[c].bound THEN 1 ELSE INVITE_USES
        BY <3>1, <3>3, <3>4, <3>6
      <3> HIDE DEF c
      <3>8. QED
        BY <3>5, <3>7 DEF InviteNotReplayed
    <2>3. QED
      BY <2>1, <2>2
  <1>3. ASSUME NEW t \in Threads, SweepOrg(t)
        PROVE  InviteNotReplayed'
    <2>1. taken' = taken /\ \A c \in Code : invites'[c] = None \/ invites'[c] = invites[c]
      BY <1>3 DEF SweepOrg, Types, AccountsTypeOK
    <2>2. QED
      BY <2>1 DEF InviteNotReplayed
  <1>4. ASSUME NEW c \in Code, InviteExpires(c)
        PROVE  InviteNotReplayed'
    <2>1. taken' = taken /\ invites' = [invites EXCEPT ![c].live = FALSE] /\ invites[c] # None
      BY <1>4 DEF InviteExpires, history
    <2>2. invites'[c].uses = invites[c].uses /\ invites'[c].bound = invites[c].bound
      BY <2>1 DEF Types, AccountsTypeOK, Invite
    <2>3. \A d \in Code \ {c} : invites'[d] = invites[d]
      BY <2>1 DEF Types, AccountsTypeOK
    <2>4. QED
      BY <2>1, <2>2, <2>3 DEF InviteNotReplayed
  <1>5. ASSUME NEW c \in Code, NEW o \in OrgId, RevokeInvite(c, o)
        PROVE  InviteNotReplayed'
    BY <1>5 DEF RevokeInvite, history, InviteNotReplayed, Types, AccountsTypeOK
  <1>6. ASSUME NEW c \in Code, NEW o \in OrgId, NEW b \in BOOLEAN, CreateInvite(c, o, b)
        PROVE  InviteNotReplayed'
    <2> DEFINE i == [org |-> o, bound |-> b, uses |-> IF b THEN 1 ELSE INVITE_USES, live |-> TRUE]
    <2>1. taken' = taken /\ taken[c] = 0 /\ invites' = [invites EXCEPT ![c] = i]
      BY <1>6 DEF CreateInvite, history
    <2>2. i.bound = b /\ i.uses = IF b THEN 1 ELSE INVITE_USES
      OBVIOUS
    <2> HIDE DEF i
    <2>3. invites'[c] = i /\ \A d \in Code \ {c} : invites'[d] = invites[d]
      BY <2>1 DEF Types, AccountsTypeOK
    <2>4. taken'[c] + invites'[c].uses <= IF invites'[c].bound THEN 1 ELSE INVITE_USES
      BY <2>1, <2>2, <2>3
    <2>5. QED
      BY <2>1, <2>3, <2>4 DEF InviteNotReplayed
  <1>7. QED
    BY <1>1, <1>2, <1>3, <1>4, <1>5, <1>6, Disturbs DEF AllAlone, InvitesAlone

LEMMA SessionsStep ==
    ASSUME SerialInv, Exclusive, [AccountsNext]_avars
    PROVE  GoodSessions'
  <1> USE DEF SerialInv
  <1> SUFFICES ASSUME Careful
               PROVE  GoodSessions'
    BY DEF GoodSessions
  <1> DEFINE Good(s) == s.who # None /\ ~s.stale =>
                          /\ identities[s.who] # None /\ identities[s.who].org = s.org
                          /\ s.role = "founder" => identities[s.who].role = "founder"
  <1>0. \A s \in sessions : Good(s)
    BY DEF GoodSessions
  <1>1. CASE UNCHANGED <<sessions, identities>>
    BY <1>1 DEF GoodSessions
  <1>2. ASSUME NEW p \in Person, SignInKnown(p)
        PROVE  GoodSessions'
    <2> DEFINE new == Holds(p, identities[p].org, identities[p].role)
    <2>1. sessions' = sessions \cup {new} /\ identities' = identities /\ identities[p] # None
      BY <1>2 DEF SignInKnown, people
    <2>2. Good(new)
      BY <2>1 DEF Holds
    <2> HIDE DEF new
    <2>3. QED
      BY <1>0, <2>1, <2>2 DEF GoodSessions
  <1>3. ASSUME NEW p \in Person, NEW o \in OrgId, Promote(p, o)
        PROVE  GoodSessions'
    <2>1. /\ sessions' = sessions /\ identities' = [identities EXCEPT ![p].role = "founder"]
          /\ identities[p] # None
      BY <1>3 DEF Promote, cookies
    <2>2. /\ identities'[p] # None /\ identities'[p].org = identities[p].org
          /\ identities'[p].role = "founder"
      <3>1. identities'[p] = [identities[p] EXCEPT !.role = "founder"] /\ identities[p] \in Identity
        BY <2>1 DEF Types, AccountsTypeOK
      <3>2. identities'[p] \in Identity
        BY <3>1 DEF Identity, Role
      <3>3. QED
        BY <3>1, <3>2 DEF Identity
    <2>3. \A q \in Person \ {p} : identities'[q] = identities[q]
      BY <2>1 DEF Types, AccountsTypeOK
    <2>4. ASSUME NEW s \in sessions
          PROVE  Good(s)'
      <3>1. s.who \in Person \cup {None}
        BY DEF Types, AccountsTypeOK, Session
      <3>2. Good(s)
        BY <1>0
      <3>3. QED
        BY <2>2, <2>3, <3>1, <3>2
    <2>5. QED
      BY <2>1, <2>4 DEF GoodSessions
  <1>4. ASSUME NEW t \in Threads, IdentityWrite(t)
        PROVE  GoodSessions'
    <2> DEFINE p == job[t].who
    <2>1. p \in Person /\ identities[p] = None
      <3>1. job[t].pc = "known"
        BY <1>4 DEF IdentityWrite, Step
      <3>2. p \in Person
        BY <3>1 DEF Types, JobOK, Enters
      <3>3. StillSo(job[t])
        BY DEF Steady
      <3>4. QED
        BY <3>1, <3>2, <3>3 DEF StillSo, Enters
    <2>2. /\ sessions' = sessions
          /\ identities' = [identities EXCEPT ![p] = [org |-> job[t].org, role |-> job[t].role]]
      BY <1>4 DEF IdentityWrite, cookies
    <2> HIDE DEF p
    <2>3. \A q \in Person \ {p} : identities'[q] = identities[q]
      BY <2>2 DEF Types, AccountsTypeOK
    <2>4. ASSUME NEW s \in sessions
          PROVE  Good(s)'
      <3>1. s.who \in Person \cup {None}
        BY DEF Types, AccountsTypeOK, Session
      <3>2. Good(s)
        BY <1>0
      <3>3. QED
        BY <2>1, <2>3, <3>1, <3>2
    <2>5. QED
      BY <2>2, <2>4 DEF GoodSessions
  <1>5. ASSUME NEW t \in Threads, IssueSession(t)
        PROVE  GoodSessions'
    <2> DEFINE new == Holds(job[t].who, job[t].org, job[t].role)
    <2>1. sessions' = sessions \cup {new} /\ identities' = identities
      BY <1>5 DEF IssueSession, people
    <2>2. identities[job[t].who] = [org |-> job[t].org, role |-> job[t].role]
      BY <1>5 DEF IssueSession, Step, Steady, StillSo
    <2>3. identities[job[t].who] # None
      <3>1. job[t].org \in OrgId /\ job[t].role \in Role
        BY <1>5 DEF IssueSession, Step, Types, JobOK, AccountsTypeOK, Jobs
      <3>2. [org |-> job[t].org, role |-> job[t].role] \in Identity
        BY <3>1 DEF Identity
      <3>3. QED
        BY <2>2, <3>2
    <2>4. Good(new)
      BY <2>2, <2>3 DEF Holds
    <2> HIDE DEF new
    <2>5. QED
      BY <1>0, <2>1, <2>4 DEF GoodSessions
  <1>6. ASSUME NEW t \in Threads, SweepOrg(t)
        PROVE  GoodSessions'
    <2> DEFINE o == job[t].org
    <2>1. sessions' = {IF s.org = o THEN [s EXCEPT !.stale = TRUE] ELSE s : s \in sessions}
      BY <1>6 DEF SweepOrg
    <2>2. \A p \in Person : identities'[p] = IF Has(identities[p], o) THEN None ELSE identities[p]
      BY <1>6 DEF SweepOrg, Types, AccountsTypeOK
    <2> HIDE DEF o
    <2>3. ASSUME NEW r \in sessions', r.who # None, ~r.stale
          PROVE  Good(r)'
      <3>1. PICK s \in sessions : r = IF s.org = o THEN [s EXCEPT !.stale = TRUE] ELSE s
        BY <2>1
      <3>2. s \in Session
        BY DEF Types, AccountsTypeOK
      <3>3. s.org # o
        BY <2>3, <3>1, <3>2 DEF Session
      <3>4. r = s /\ Good(s) /\ s.who \in Person
        BY <1>0, <2>3, <3>1, <3>2, <3>3 DEF Session
      <3>5. ~Has(identities[s.who], o)
        BY <2>3, <3>3, <3>4 DEF Has
      <3>6. QED
        BY <2>2, <3>4, <3>5
    <2>4. QED
      BY <2>3 DEF GoodSessions
  <1>7. ASSUME NEW o \in OrgId, Onboard(o)
        PROVE  GoodSessions'
    <2> DEFINE new == Holds(None, o, "founder")
    <2>1. sessions' = sessions \cup {new} /\ identities' = identities
      BY <1>7 DEF Onboard, people
    <2>2. new.who = None
      BY DEF Holds
    <2> HIDE DEF new
    <2>3. QED
      BY <1>0, <2>1, <2>2 DEF GoodSessions
  <1>8. QED
    BY <1>1, <1>2, <1>3, <1>4, <1>5, <1>6, <1>7, Disturbs DEF AllAlone, SessionsAlone

\* What FoundersRemain says of one org.
Remains(o) ==
    \/ identities[founded[o]] = [org |-> o, role |-> "founder"]
    \/ \E t \in Threads : Becoming(job[t], o)

\* At rest, the founder of an org is one.
LEMMA Founders ==
    ASSUME SerialInv, Careful, crashes = 0, NEW o \in orgs, founded[o] # None,
           \A t \in Threads : ~Becoming(job[t], o)
    PROVE  identities[founded[o]] = [org |-> o, role |-> "founder"]
  BY DEF SerialInv, FoundersRemain

\* A request that goes on from making an org towards its founder's entry.
LEMMA StillBecoming ==
    ASSUME SerialInv, Careful, crashes = 0, NEW t \in Threads, NEW o \in orgs, founded[o] # None,
           UNCHANGED <<founded, identities>>, job[t].pc # "idle",
           NEW pc \in (Makes \ {"claim"}) \cup Enters, Goto(t, pc)
    PROVE  Remains(o)'
  <1> USE DEF SerialInv
  <1>1. CASE Becoming(job[t], o)
    <2>1. Becoming(job[t], o)'
      BY <1>1, Went DEF Becoming
    <2>2. QED
      BY <2>1 DEF Remains
  <1>2. CASE ~Becoming(job[t], o)
    <2>1. \A s \in Threads : ~Becoming(job[s], o)
      BY <1>2, OthersRest DEF Becoming, Makes, Enters, Idle, Job
    <2>2. QED
      BY <2>1, Founders DEF Remains
  <1>3. QED
    BY <1>1, <1>2

LEMMA FoundersStep ==
    ASSUME SerialInv, Exclusive, [AccountsNext]_avars
    PROVE  FoundersRemain'
  <1> USE DEF SerialInv
  <1> SUFFICES ASSUME Careful, crashes' = 0, NEW o \in orgs', founded'[o] # None
               PROVE  Remains(o)'
    BY DEF FoundersRemain, Remains
  <1>0. /\ founded \in [OrgId -> Person \cup {None}] /\ orgs \in SUBSET OrgId
        /\ identities \in [Person -> Identity \cup {None}]
    BY DEF Types, AccountsTypeOK
  <1>1. CASE /\ UNCHANGED <<orgs, founded, identities, crashes>>
             /\ \A s \in Threads : job[s].pc \in (Makes \ {"claim"}) \cup Enters => job'[s] = job[s]
    <2>1. CASE \E s \in Threads : Becoming(job[s], o)
      <3>1. PICK s \in Threads : Becoming(job[s], o)
        BY <2>1
      <3>2. Becoming(job[s], o)'
        BY <1>1, <3>1 DEF Becoming
      <3>3. QED
        BY <3>2 DEF Remains
    <2>2. CASE \A s \in Threads : ~Becoming(job[s], o)
      BY <1>1, <2>2, Founders DEF Remains
    <2>3. QED
      BY <2>1, <2>2
  <1>2. ASSUME NEW t \in Threads, ClaimOrgId(t)
        PROVE  Remains(o)'
    <2>1. job[t].pc = "claim" /\ crashes = 0 /\ identities' = identities
      BY <1>2 DEF ClaimOrgId, Step, people
    <2>2. \A s \in Threads, n \in OrgId : ~Becoming(job[s], n)
      BY <2>1, OthersRest DEF Becoming, Makes, Enters, Idle, Job
    <2>3. CASE o \in orgs /\ founded'[o] = founded[o]
      BY <2>1, <2>2, <2>3, <1>0, Founders DEF Remains
    <2>4. CASE ~(o \in orgs /\ founded'[o] = founded[o])
      <3>1. job[t].org \notin orgs
        BY <1>2, <2>4 DEF ClaimOrgId
      <3>2. /\ orgs' = orgs \cup {job[t].org} /\ Goto(t, "team")
            /\ founded' = [founded EXCEPT ![job[t].org] = job[t].who]
        BY <1>2, <3>1 DEF ClaimOrgId
      <3>3. o = job[t].org /\ o \in OrgId
        <4>1. o \in OrgId
          <5>1. job[t].org \in OrgId
            BY <2>1 DEF Types, JobOK
          <5>2. QED
            BY <5>1, <3>2, <1>0
        <4>2. QED
          BY <1>0, <2>4, <3>2, <4>1
      <3>4. founded'[o] = job[t].who
        BY <1>0, <3>2, <3>3
      <3>5. job[t].role = "founder"
        BY <2>1 DEF Steady, StillSo, Makes
      <3>6. Becoming(job[t], o)'
        BY <3>2, <3>3, <3>4, <3>5, Went DEF Becoming, Makes
      <3>7. QED
        BY <3>6 DEF Remains
    <2>5. QED
      BY <2>3, <2>4
  <1>3. ASSUME NEW t \in Threads, CreateTeam(t)
        PROVE  Remains(o)'
    <2>1. PICK pc \in {"actor", "domain"} : Goto(t, pc)
      BY <1>3 DEF CreateTeam
    <2>2. job[t].pc # "idle" /\ UNCHANGED <<orgs, founded, identities, crashes>>
      BY <1>3 DEF CreateTeam, Step, people, history
    <2>3. QED
      BY <2>1, <2>2, StillBecoming DEF Makes, Enters
  <1>4. ASSUME NEW t \in Threads, DomainRead(t)
        PROVE  Remains(o)'
    <2>1. PICK pc \in {"claimed", "actor"} : Goto(t, pc)
      BY <1>4 DEF DomainRead
    <2>2. job[t].pc # "idle" /\ UNCHANGED <<orgs, founded, identities, crashes>>
      BY <1>4 DEF DomainRead, Step, people, history
    <2>3. QED
      BY <2>1, <2>2, StillBecoming DEF Makes, Enters
  <1>5. ASSUME NEW t \in Threads, DomainWrite(t)
        PROVE  Remains(o)'
    <2>1. job[t].pc = "claimed" /\ UNCHANGED <<orgs, founded, identities, crashes>>
      BY <1>5 DEF DomainWrite, Step
    <2>2. domain_org_for(job[t].who) = None
      <3>1. StillSo(job[t]) /\ JobOK(job[t])
        BY DEF Steady, Types
      <3>2. QED
        BY <2>1, <3>1 DEF StillSo, JobOK, domain_org_for
    <2>3. Goto(t, "actor")
      BY <1>5, <2>2 DEF DomainWrite
    <2>4. QED
      BY <2>1, <2>3, StillBecoming DEF Makes, Enters
  <1>6. ASSUME NEW t \in Threads, UpsertActor(t)
        PROVE  Remains(o)'
    <2>1. PICK pc \in {"identity"} : Goto(t, pc)
      BY <1>6 DEF UpsertActor
    <2>2. job[t].pc # "idle" /\ UNCHANGED <<orgs, founded, identities, crashes>>
      BY <1>6 DEF UpsertActor, Step, people, history
    <2>3. QED
      BY <2>1, <2>2, StillBecoming DEF Makes, Enters
  <1>7. ASSUME NEW t \in Threads, IdentityRead(t)
        PROVE  Remains(o)'
    <2>1. job[t].pc = "identity" /\ UNCHANGED <<orgs, founded, identities, crashes>>
      BY <1>7 DEF IdentityRead, Step, people, history
    <2>2. identities[job[t].who] = None
      <3>1. StillSo(job[t]) /\ JobOK(job[t])
        BY DEF Steady, Types
      <3>2. QED
        BY <2>1, <3>1 DEF StillSo, JobOK, Enters
    <2>3. Goto(t, "known")
      BY <1>7, <2>2 DEF IdentityRead
    <2>4. QED
      BY <2>1, <2>3, StillBecoming DEF Makes, Enters
  <1>8. ASSUME NEW t \in Threads, IdentityWrite(t)
        PROVE  Remains(o)'
    <2>1. job[t].pc = "known" /\ UNCHANGED <<orgs, founded, crashes>>
      BY <1>8 DEF IdentityWrite, Step
    <2>2. job[t].who \in Person /\ identities[job[t].who] = None
      <3>1. StillSo(job[t]) /\ JobOK(job[t])
        BY DEF Steady, Types
      <3>2. QED
        BY <2>1, <3>1 DEF StillSo, JobOK, Enters
    <2>3. identities' = [identities EXCEPT ![job[t].who] = [org |-> job[t].org, role |-> job[t].role]]
      BY <1>8 DEF IdentityWrite
    <2>4. CASE Becoming(job[t], o)
      BY <1>0, <2>1, <2>2, <2>3, <2>4 DEF Becoming, Remains
    <2>5. CASE ~Becoming(job[t], o)
      <3>1. \A s \in Threads : ~Becoming(job[s], o)
        BY <2>1, <2>5, OthersRest DEF Becoming, Makes, Enters, Idle, Job
      <3>2. identities[founded[o]] = [org |-> o, role |-> "founder"]
        BY <2>1, <3>1, Founders
      <3>3. [org |-> o, role |-> "founder"] # None
        <4>1. [org |-> o, role |-> "founder"] \in Identity
          BY <1>0, <2>1 DEF Identity, Role
        <4>2. QED
          BY <4>1
      <3>4. founded[o] # job[t].who
        BY <2>2, <3>2, <3>3
      <3>5. identities'[founded[o]] = identities[founded[o]]
        BY <1>0, <2>1, <2>3, <3>4
      <3>6. QED
        BY <2>1, <3>2, <3>5 DEF Remains
    <2>6. QED
      BY <2>4, <2>5
  <1>9. ASSUME NEW t \in Threads, SweepOrg(t)
        PROVE  Remains(o)'
    <2>1. /\ job[t].pc = "sweep" /\ UNCHANGED <<founded, crashes>>
          /\ orgs' = orgs \ {job[t].org}
          /\ identities' = [p \in Person |-> IF Has(identities[p], job[t].org) THEN None ELSE identities[p]]
      BY <1>0, <1>9 DEF SweepOrg, Step
    <2>2. \A s \in Threads : ~Becoming(job[s], o)
      BY <2>1, OthersRest DEF Becoming, Makes, Enters, Idle, Job
    <2>3. identities[founded[o]] = [org |-> o, role |-> "founder"]
      BY <2>1, <2>2, Founders
    <2>4. ~Has(identities[founded[o]], job[t].org)
      BY <2>1, <2>3 DEF Has
    <2>5. identities'[founded[o]] = identities[founded[o]]
      BY <1>0, <2>1, <2>4
    <2>6. QED
      BY <2>1, <2>3, <2>5 DEF Remains
  <1>10. ASSUME NEW p \in Person, NEW n \in OrgId, Promote(p, n)
        PROVE  Remains(o)'
    <2>1. /\ UNCHANGED <<orgs, founded, crashes>> /\ Request
          /\ identities' = [identities EXCEPT ![p].role = "founder"]
      BY <1>10 DEF Promote
    <2>2. \A s \in Threads : ~Becoming(job[s], o)
      BY <2>1, Resting DEF Becoming, Makes, Enters, Idle, Job
    <2>3. identities[founded[o]] = [org |-> o, role |-> "founder"]
      BY <2>1, <2>2, Founders
    <2>4. founded[o] \in Person
      BY <1>0, <2>1
    <2>5. identities'[founded[o]] = identities[founded[o]]
      <3>1. CASE founded[o] = p
        <4>1. identities'[p] = [identities[p] EXCEPT !.role = "founder"]
          BY <1>0, <2>1
        <4>2. [[org |-> o, role |-> "founder"] EXCEPT !.role = "founder"] = [org |-> o, role |-> "founder"]
          OBVIOUS
        <4>3. QED
          BY <2>3, <3>1, <4>1, <4>2
      <3>2. CASE founded[o] # p
        BY <1>0, <2>1, <2>4, <3>2
      <3>3. QED
        BY <3>1, <3>2
    <2>6. QED
      BY <2>1, <2>3, <2>5 DEF Remains
  <1>11. ASSUME NEW n \in OrgId, Onboard(n)
        PROVE  Remains(o)'
    <2>1. /\ UNCHANGED <<identities, crashes>> /\ Request
          /\ orgs' = orgs \cup {n} /\ founded' = [founded EXCEPT ![n] = None]
      BY <1>11 DEF Onboard, people
    <2>2. \A s \in Threads : ~Becoming(job[s], o)
      BY <2>1, Resting DEF Becoming, Makes, Enters, Idle, Job
    <2>3. o # n /\ o \in orgs /\ founded'[o] = founded[o]
      BY <1>0, <2>1
    <2>4. QED
      BY <2>1, <2>2, <2>3, Founders DEF Remains
  <1>12. ASSUME Crash
        PROVE  FALSE
    BY <1>12 DEF Crash, Types, AccountsTypeOK
  <1>13. QED
    BY <1>1, <1>2, <1>3, <1>4, <1>5, <1>6, <1>7, <1>8, <1>9, <1>10, <1>11, <1>12, Disturbs
       DEF AllAlone, FoundersAlone

\* What is left of an org beside its own row.
Left(o) ==
    \/ o \in teams \/ o \in rows \/ o \in raws
    \/ \E d \in Domain : domains[d] = o
    \/ \E p \in Person : actors[p] = o \/ Has(identities[p], o)
    \/ \E c \in Code : Has(invites[c], o)

LEMMA Footprint ==
    ASSUME NEW o \in OrgId
    PROVE  org_footprint(o) = {} <=> o \notin orgs /\ ~Left(o)
  <1> DEFINE K == {"org", "team", "org_domain", "actor", "identity", "invite", "compaction", "raw"}
             In(k) == CASE k = "org" -> o \in orgs
                        [] k = "team" -> o \in teams
                        [] k = "org_domain" -> \E d \in Domain : domains[d] = o
                        [] k = "actor" -> \E p \in Person : actors[p] = o
                        [] k = "identity" -> \E p \in Person : Has(identities[p], o)
                        [] k = "invite" -> \E c \in Code : Has(invites[c], o)
                        [] k = "compaction" -> o \in rows
                        [] k = "raw" -> o \in raws
  <1>1. org_footprint(o) = {k \in K : In(k)}
    BY DEF org_footprint
  <1>2. /\ In("org") <=> o \in orgs
        /\ In("team") <=> o \in teams
        /\ In("org_domain") <=> \E d \in Domain : domains[d] = o
        /\ In("actor") <=> \E p \in Person : actors[p] = o
    OBVIOUS
  <1>3. /\ In("identity") <=> \E p \in Person : Has(identities[p], o)
        /\ In("invite") <=> \E c \in Code : Has(invites[c], o)
        /\ In("compaction") <=> o \in rows
        /\ In("raw") <=> o \in raws
    OBVIOUS
  <1> HIDE DEF In
  <1>4. {k \in K : In(k)} = {} <=> \A k \in K : ~In(k)
    OBVIOUS
  <1>5. QED
    BY <1>1, <1>2, <1>3, <1>4 DEF Left

\* An org that had nothing left, or whose row or late write accounts for it, still does.
LEMMA StillAccounted ==
    ASSUME NothingLeft, orgs \cup late \subseteq orgs' \cup late',
           \A o \in OrgId : Left(o)' => Left(o) \/ o \in orgs' \cup late'
    PROVE  NothingLeft'
  <1> SUFFICES ASSUME NEW o \in OrgId, o \notin orgs' \cup late'
               PROVE  (org_footprint(o) = {})'
    BY DEF NothingLeft
  <1>1. o \notin orgs /\ ~Left(o)
    BY Footprint DEF NothingLeft
  <1>2. ~Left(o)'
    BY <1>1
  <1>3. (org_footprint(o) = {} <=> o \notin orgs /\ ~Left(o))'
    BY Footprint, PTL
  <1>4. QED
    BY <1>2, <1>3

LEMMA WritesCover ==
    ASSUME NEW o, Writes(o), orgs' = orgs
    PROVE  o \in orgs' \cup late' /\ orgs \cup late \subseteq orgs' \cup late'
  BY DEF Writes

LEMMA TablesStep ==
    ASSUME SerialInv, Exclusive, [AccountsNext]_avars
    PROVE  NothingLeft'
  <1> USE DEF SerialInv
  <1>0. None \notin OrgId
    BY DEF OrgId
  <1>1. CASE UNCHANGED <<orgs, teams, people, invites, rows, raws, late>>
    BY <1>1, StillAccounted DEF Left, Has, people
  <1>2. ASSUME NEW t \in Threads, RedeemWrite(t)
        PROVE  NothingLeft'
    <2>1. UNCHANGED <<orgs, teams, people, rows, raws, late>>
      BY <1>2 DEF RedeemWrite, content
    <2>2. ASSUME NEW o \in OrgId, NEW c \in Code, Has(invites'[c], o)
          PROVE  Has(invites[c], o)
      <3>1. CASE invites' = invites
        BY <2>2, <3>1
      <3>2. CASE invites' = [invites EXCEPT ![job[t].code].uses = job[t].seen - 1] /\ invites[job[t].code] # None
        <4>1. CASE c = job[t].code
          <5>1. invites[c] \in Invite
            BY <3>2, <4>1 DEF Types, AccountsTypeOK
          <5>2. invites'[c] = [invites[c] EXCEPT !.uses = job[t].seen - 1]
            BY <3>2, <4>1 DEF Types, AccountsTypeOK
          <5>3. invites'[c].org = invites[c].org
            BY <5>1, <5>2 DEF Invite
          <5>4. QED
            BY <2>2, <3>2, <4>1, <5>3 DEF Has
        <4>2. CASE c # job[t].code
          BY <2>2, <3>2, <4>2 DEF Types, AccountsTypeOK
        <4>3. QED
          BY <4>1, <4>2
      <3>3. QED
        BY <1>2, <3>1, <3>2 DEF RedeemWrite
    <2>3. QED
      BY <2>1, <2>2, StillAccounted DEF Left, people
  <1>3. ASSUME NEW t \in Threads, ClaimOrgId(t)
        PROVE  NothingLeft'
    <2>1. UNCHANGED <<teams, people, invites, rows, raws>>
      BY <1>3 DEF ClaimOrgId, content
    <2>2. orgs \cup late \subseteq orgs' \cup late'
      BY <1>3 DEF ClaimOrgId
    <2>3. QED
      BY <2>1, <2>2, StillAccounted DEF Left, people
  <1>4. ASSUME NEW t \in Threads, CreateTeam(t)
        PROVE  NothingLeft'
    <2>1. /\ UNCHANGED <<orgs, people, invites, rows, raws>> /\ Writes(job[t].org)
          /\ teams' = teams \cup {job[t].org}
      BY <1>4 DEF CreateTeam, content
    <2>2. QED
      BY <2>1, WritesCover, StillAccounted DEF Left, people
  <1>5. ASSUME NEW t \in Threads, RecordRaw(t)
        PROVE  NothingLeft'
    <2>1. /\ UNCHANGED <<orgs, teams, people, invites, rows>> /\ Writes(job[t].org)
          /\ raws' = raws \cup {job[t].org}
      BY <1>5 DEF RecordRaw
    <2>2. QED
      BY <2>1, WritesCover, StillAccounted DEF Left, people
  <1>6. ASSUME NEW o \in OrgId, Ingest(o)
        PROVE  NothingLeft'
    <2>1. UNCHANGED <<orgs, teams, people, invites, raws>> /\ Writes(o) /\ rows' = rows \cup {o}
      BY <1>6 DEF Ingest
    <2>2. QED
      BY <2>1, WritesCover, StillAccounted DEF Left, people
  <1>7. ASSUME NEW t \in Threads, DomainWrite(t)
        PROVE  NothingLeft'
    <2>1. UNCHANGED <<orgs, teams, actors, identities, invites, rows, raws>>
      BY <1>7 DEF DomainWrite, content
    <2>2. CASE UNCHANGED <<domains, late>>
      BY <2>1, <2>2, StillAccounted DEF Left
    <2>3. CASE Writes(job[t].org) /\ domains' = [domains EXCEPT ![DomainOf[job[t].who]] = job[t].org]
      <3>1. \A d \in Domain : domains'[d] = domains[d] \/ domains'[d] = job[t].org
        BY <2>3 DEF Types, AccountsTypeOK
      <3>2. QED
        BY <2>1, <2>3, <3>1, WritesCover, StillAccounted DEF Left
    <2>4. QED
      BY <1>7, <2>2, <2>3 DEF DomainWrite
  <1>8. ASSUME NEW t \in Threads, UpsertActor(t)
        PROVE  NothingLeft'
    <2>1. /\ UNCHANGED <<orgs, teams, domains, identities, invites, rows, raws>> /\ Writes(job[t].org)
          /\ actors' = [actors EXCEPT ![job[t].who] = job[t].org]
      BY <1>8 DEF UpsertActor, content
    <2>2. \A p \in Person : actors'[p] = actors[p] \/ actors'[p] = job[t].org
      BY <2>1 DEF Types, AccountsTypeOK
    <2>3. QED
      BY <2>1, <2>2, WritesCover, StillAccounted DEF Left
  <1>9. ASSUME NEW t \in Threads, IdentityWrite(t)
        PROVE  NothingLeft'
    <2> DEFINE new == [org |-> job[t].org, role |-> job[t].role]
    <2>1. /\ UNCHANGED <<orgs, teams, domains, actors, invites, rows, raws>> /\ Writes(job[t].org)
          /\ identities' = [identities EXCEPT ![job[t].who] = new]
      BY <1>9 DEF IdentityWrite, content
    <2>2. new.org = job[t].org
      OBVIOUS
    <2> HIDE DEF new
    <2>3. \A p \in Person : identities'[p] = identities[p] \/ identities'[p] = new
      BY <2>1 DEF Types, AccountsTypeOK
    <2>4. QED
      BY <2>1, <2>2, <2>3, WritesCover, StillAccounted DEF Left, Has
  <1>10. ASSUME NEW t \in Threads, SweepOrg(t)
        PROVE  NothingLeft'
    <2> DEFINE n == job[t].org
    <2>1. /\ orgs' = orgs \ {n} /\ teams' = teams \ {n} /\ rows' = rows \ {n} /\ raws' = raws \ {n}
          /\ late' = late \ {n}
      BY <1>10 DEF SweepOrg
    <2>2. /\ \A d \in Domain : domains'[d] = IF domains[d] = n THEN None ELSE domains[d]
          /\ \A p \in Person : actors'[p] = IF actors[p] = n THEN None ELSE actors[p]
      BY <1>10 DEF SweepOrg, Types, AccountsTypeOK
    <2>3. /\ \A p \in Person : identities'[p] = IF Has(identities[p], n) THEN None ELSE identities[p]
          /\ \A c \in Code : invites'[c] = IF Has(invites[c], n) THEN None ELSE invites[c]
      BY <1>10 DEF SweepOrg, Types, AccountsTypeOK
    <2> HIDE DEF n
    <2>4. ASSUME NEW o \in OrgId, o \notin orgs' \cup late'
          PROVE  ~Left(o)'
      <3>1. CASE o = n
        BY <1>0, <2>1, <2>2, <2>3, <3>1 DEF Left, Has
      <3>2. CASE o # n
        <4>1. ~Left(o)
          BY <2>1, <2>4, <3>2, Footprint DEF NothingLeft
        <4>2. QED
          BY <1>0, <2>1, <2>2, <2>3, <3>2, <4>1 DEF Left, Has
      <3>3. QED
        BY <3>1, <3>2
    <2>5. ASSUME NEW o \in OrgId, o \notin orgs' \cup late'
          PROVE  (org_footprint(o) = {})'
      <3>1. (org_footprint(o) = {} <=> o \notin orgs /\ ~Left(o))'
        BY Footprint, PTL
      <3>2. QED
        BY <2>4, <2>5, <3>1
    <2>6. QED
      BY <2>5 DEF NothingLeft
  <1>11. ASSUME NEW c \in Code, InviteExpires(c)
        PROVE  NothingLeft'
    <2>1. /\ UNCHANGED <<orgs, teams, people, rows, raws, late>>
          /\ invites' = [invites EXCEPT ![c].live = FALSE] /\ invites[c] # None
      BY <1>11 DEF InviteExpires, content, history
    <2>2. ASSUME NEW o \in OrgId, NEW d \in Code, Has(invites'[d], o)
          PROVE  Has(invites[d], o)
      <3>1. CASE d = c
        <4>1. invites[c] \in Invite /\ invites'[c] = [invites[c] EXCEPT !.live = FALSE]
          BY <2>1 DEF Types, AccountsTypeOK
        <4>2. invites'[c].org = invites[c].org
          BY <4>1 DEF Invite
        <4>3. QED
          BY <2>1, <2>2, <3>1, <4>2 DEF Has
      <3>2. CASE d # c
        BY <2>1, <2>2, <3>2 DEF Types, AccountsTypeOK
      <3>3. QED
        BY <3>1, <3>2
    <2>3. QED
      BY <2>1, <2>2, StillAccounted DEF Left, people
  <1>12. ASSUME NEW c \in Code, NEW n \in OrgId, RevokeInvite(c, n)
        PROVE  NothingLeft'
    <2>1. /\ UNCHANGED <<orgs, teams, people, rows, raws, late>>
          /\ invites' = [invites EXCEPT ![c] = None]
      BY <1>12 DEF RevokeInvite, content, history
    <2>2. \A d \in Code : invites'[d] = None \/ invites'[d] = invites[d]
      BY <2>1 DEF Types, AccountsTypeOK
    <2>3. QED
      BY <2>1, <2>2, StillAccounted DEF Left, Has, people
  <1>13. ASSUME NEW c \in Code, NEW n \in OrgId, NEW b \in BOOLEAN, CreateInvite(c, n, b)
        PROVE  NothingLeft'
    <2> DEFINE i == [org |-> n, bound |-> b, uses |-> IF b THEN 1 ELSE INVITE_USES, live |-> TRUE]
    <2>1. /\ UNCHANGED <<orgs, teams, people, rows, raws>> /\ Writes(n)
          /\ invites' = [invites EXCEPT ![c] = i]
      BY <1>13 DEF CreateInvite, content
    <2>2. i.org = n
      OBVIOUS
    <2> HIDE DEF i
    <2>3. \A d \in Code : invites'[d] = i \/ invites'[d] = invites[d]
      BY <2>1 DEF Types, AccountsTypeOK
    <2>4. QED
      BY <2>1, <2>2, <2>3, WritesCover, StillAccounted DEF Left, Has, people
  <1>14. ASSUME NEW p \in Person, NEW n \in OrgId, Promote(p, n)
        PROVE  NothingLeft'
    <2>1. /\ UNCHANGED <<orgs, teams, domains, actors, invites, rows, raws, late>>
          /\ identities' = [identities EXCEPT ![p].role = "founder"] /\ identities[p] # None
      BY <1>14 DEF Promote, content
    <2>2. ASSUME NEW o \in OrgId, NEW q \in Person, Has(identities'[q], o)
          PROVE  Has(identities[q], o)
      <3>1. CASE q = p
        <4>1. identities[p] \in Identity /\ identities'[p] = [identities[p] EXCEPT !.role = "founder"]
          BY <2>1 DEF Types, AccountsTypeOK
        <4>2. identities'[p].org = identities[p].org
          BY <4>1 DEF Identity
        <4>3. QED
          BY <2>1, <2>2, <3>1, <4>2 DEF Has
      <3>2. CASE q # p
        BY <2>1, <2>2, <3>2 DEF Types, AccountsTypeOK
      <3>3. QED
        BY <3>1, <3>2
    <2>3. QED
      BY <2>1, <2>2, StillAccounted DEF Left
  <1>15. ASSUME NEW n \in OrgId, Onboard(n)
        PROVE  NothingLeft'
    <2>1. /\ UNCHANGED <<people, invites, rows, raws>>
          /\ orgs' = orgs \cup {n} /\ teams' = teams \cup {n} /\ late' = late \ {n}
      BY <1>15 DEF Onboard, content
    <2>2. QED
      BY <2>1, StillAccounted DEF Left, people
  <1>16. QED
    BY <1>1, <1>2, <1>3, <1>4, <1>5, <1>6, <1>7, <1>8, <1>9, <1>10, <1>11, <1>12, <1>13, <1>14, <1>15, Disturbs
       DEF AllAlone, TablesAlone

LEMMA BlobsStep ==
    ASSUME SerialInv, Exclusive, [AccountsNext]_avars
    PROVE  BlobsKnown'
  <1> USE DEF SerialInv
  <1> SUFFICES ASSUME crashes' = 0, NEW o \in blobs', o \notin raws'
               PROVE  \E t \in Threads : job'[t].pc = "raw" /\ job'[t].org = o
    BY DEF BlobsKnown
  <1>1. CASE /\ UNCHANGED <<raws, blobs, crashes>>
             /\ \A s \in Threads : job[s].pc = "raw" => job'[s] = job[s]
    <2>1. PICK t \in Threads : job[t].pc = "raw" /\ job[t].org = o
      BY <1>1 DEF BlobsKnown
    <2>2. job'[t].pc = "raw" /\ job'[t].org = o
      BY <1>1, <2>1
    <2>3. QED
      BY <2>2
  <1>2. ASSUME NEW t \in Threads, RecordRaw(t)
        PROVE  FALSE
    <2>1. job[t].pc = "raw" /\ UNCHANGED <<blobs, crashes>> /\ raws' = raws \cup {job[t].org}
      BY <1>2 DEF RecordRaw, Step
    <2>2. PICK s \in Threads : job[s].pc = "raw" /\ job[s].org = o
      BY <2>1 DEF BlobsKnown
    <2>3. s = t
      BY <2>1, <2>2, OthersRest DEF Idle, Job
    <2>4. QED
      BY <2>1, <2>2, <2>3
  <1>3. ASSUME NEW t \in Threads, DeleteBlobs(t)
        PROVE  FALSE
    <2>1. job[t].pc = "blobs" /\ UNCHANGED <<raws, crashes>> /\ blobs' \subseteq blobs
      BY <1>3 DEF DeleteBlobs, Step
    <2>2. PICK s \in Threads : job[s].pc = "raw" /\ job[s].org = o
      BY <2>1 DEF BlobsKnown
    <2>3. QED
      BY <2>1, <2>2, OthersRest DEF Idle, Job
  <1>4. ASSUME NEW t \in Threads, SweepOrg(t)
        PROVE  FALSE
    <2>1. job[t].pc = "sweep" /\ UNCHANGED <<blobs, crashes>> /\ raws' = raws \ {job[t].org}
      BY <1>4 DEF SweepOrg, Step
    <2>2. job[t].org \notin blobs
      <3>1. StillSo(job[t])
        BY DEF Steady
      <3>2. QED
        BY <2>1, <3>1 DEF StillSo
    <2>3. PICK s \in Threads : job[s].pc = "raw" /\ job[s].org = o
      BY <2>1, <2>2 DEF BlobsKnown
    <2>4. QED
      BY <2>1, <2>3, OthersRest DEF Idle, Job
  <1>5. ASSUME NEW t \in Threads, NEW n \in OrgId, UploadRaw(t, n)
        PROVE  \E s \in Threads : job'[s].pc = "raw" /\ job'[s].org = o
    <2>1. /\ blobs' = blobs \cup {n} /\ UNCHANGED <<raws, crashes>> /\ Request
          /\ Serve(t, Job("raw", None, "engineer", n))
      BY <1>5 DEF UploadRaw, Start
    <2>2. o = n
      BY <2>1, Resting DEF BlobsKnown, Idle, Job
    <2>3. job'[t].pc = "raw" /\ job'[t].org = n
      BY <2>1 DEF Serve, Types, AccountsTypeOK, Job
    <2>4. QED
      BY <2>2, <2>3
  <1>6. ASSUME Crash
        PROVE  FALSE
    BY <1>6 DEF Crash, Types, AccountsTypeOK
  <1>7. QED
    BY <1>1, <1>2, <1>3, <1>4, <1>5, <1>6, Disturbs DEF AllAlone, BlobsAlone

-----------------------------------------------------------------------------
\* The theorems

LEMMA AtFirst == AccountsInit => GrantInv /\ SerialInv
  <1> SUFFICES ASSUME AccountsInit
               PROVE  GrantInv /\ SerialInv
    OBVIOUS
  <1>1. Types
    BY IdleOK DEF AccountsInit, Types, AccountsTypeOK
  <1>2. Founded
    BY DEF AccountsInit, Founded, FoundersWereMade, Granted, Idle, Job
  <1>3. Alone /\ Steady
    BY DEF AccountsInit, Alone, Steady, StillSo, Idle, Job, Makes, Enters
  <1>4. InviteNotReplayed /\ GoodSessions /\ FoundersRemain /\ BlobsKnown
    BY DEF AccountsInit, InviteNotReplayed, GoodSessions, FoundersRemain, BlobsKnown
  <1>5. NothingLeft
    <2>1. ASSUME NEW o \in OrgId
          PROVE  o \notin orgs /\ ~Left(o)
      <3>1. o # None
        BY DEF OrgId
      <3>2. QED
        BY <3>1 DEF AccountsInit, Left, Has
    <2>2. QED
      BY <2>1, Footprint DEF NothingLeft
  <1>6. QED
    BY <1>1, <1>2, <1>3, <1>4, <1>5 DEF GrantInv, SerialInv

\* The tables, cookies and requests in progress are always well typed, however the requests
\* interleave: what a handler read of a table it may use in a later transaction.
THEOREM AccountsTyped == AccountsSpec => []AccountsTypeOK
  <1>1. AccountsInit => Types
    BY AtFirst DEF GrantInv
  <1>2. Types /\ [AccountsNext]_avars => Types'
    BY TypesStep
  <1>3. Types => AccountsTypeOK
    BY DEF Types
  <1>4. QED
    BY <1>1, <1>2, <1>3, PTL DEF AccountsSpec

\* Nobody is ever a founder who did not make the org or was not promoted in it by one,
\* however the requests of any number of threads interleave and whenever the server
\* crashes: auth_callback, org_create, org_join and upsert_identity carry a role from
\* where it was given to where it is written.
THEOREM FoundersMade == AccountsSpec => []FoundersWereMade
  <1>1. AccountsInit => GrantInv
    BY AtFirst
  <1>2. GrantInv /\ [AccountsNext]_avars => GrantInv'
    BY TypesStep, GrantStep DEF GrantInv
  <1>3. GrantInv => FoundersWereMade
    BY DEF GrantInv, Founded
  <1>4. QED
    BY <1>1, <1>2, <1>3, PTL DEF AccountsSpec

LEMMA Serially == Exclusive /\ AccountsSpec => []SerialInv
  <1> SUFFICES ASSUME Exclusive
               PROVE  AccountsSpec => []SerialInv
    OBVIOUS
  <1>1. AccountsInit => SerialInv
    BY AtFirst
  <1>2. SerialInv /\ [AccountsNext]_avars => SerialInv'
    <2> SUFFICES ASSUME SerialInv, [AccountsNext]_avars
                 PROVE  SerialInv'
      OBVIOUS
    <2>1. Types'
      BY TypesStep DEF SerialInv
    <2>2. QED
      BY <2>1, SteadyStep, InvitesStep, SessionsStep, FoundersStep, TablesStep, BlobsStep DEF SerialInv
  <1>3. QED
    BY <1>1, <1>2, PTL DEF AccountsSpec

\* An invite lets in as many people and laptops as it was made for, when redeem_invite's
\* read of its uses and the write of one less belong to one request at a time.
THEOREM InviteServesItsUses == Exclusive /\ AccountsSpec => []InviteNotReplayed
  <1>1. SerialInv => InviteNotReplayed
    BY DEF SerialInv
  <1>2. QED
    BY <1>1, Serially, PTL

\* Once no request is running, an org has the founder it was made for and every good
\* session opens the org its holder is a member of: what create_org, upsert_identity
\* and set_session_cookie write one after the other agrees, when requests do not
\* overlap and a browser answers a pending sign-up once.
THEOREM MembersDoAgree == Exclusive /\ Careful /\ AccountsSpec => []MembersAgree
  <1> SUFFICES ASSUME Exclusive, Careful
               PROVE  AccountsSpec => []MembersAgree
    OBVIOUS
  <1>1. SerialInv => OrgHasFounder
    <2> SUFFICES ASSUME SerialInv, Settled, crashes = 0, NEW o \in orgs, founded[o] # None
                 PROVE  identities[founded[o]] = [org |-> o, role |-> "founder"]
      BY DEF OrgHasFounder
    <2>1. \A t \in Threads : ~Becoming(job[t], o)
      BY DEF Settled, Becoming, Makes, Enters, Idle, Job
    <2>2. QED
      BY <2>1, Founders
  <1>2. SerialInv => SessionAgrees
    BY DEF SerialInv, GoodSessions, SessionAgrees
  <1>3. SerialInv => MembersAgree
    BY <1>1, <1>2 DEF MembersAgree
  <1>4. QED
    BY <1>3, Serially, PTL

\* delete_org leaves nothing of an org in any table and no blob without its row: its
\* blobs go first, those whose rows it read, and the rows of every table after them,
\* when nobody uploads meanwhile and the server does not crash half way.
THEOREM DeletingLeavesNothing == Exclusive /\ AccountsSpec => []DeletedLeavesNothing
  <1>1. SerialInv => DeletedLeavesNothing
    <2> SUFFICES ASSUME SerialInv, Settled, crashes = 0
                 PROVE  blobs \subseteq raws
      BY DEF SerialInv, NothingLeft, DeletedLeavesNothing
    <2>1. QED
      BY DEF SerialInv, BlobsKnown, Settled, Idle, Job
  <1>2. QED
    BY <1>1, Serially, PTL

=============================================================================
