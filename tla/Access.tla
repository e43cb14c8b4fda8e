-------------------------------- MODULE Access --------------------------------
(***************************************************************************)
(* The doors to an organisation: the HTML console and the console API      *)
(* (a cookie), the founders' API (a bearer token or the operator's), the   *)
(* wiki and the laptops' API.  Tokens are minted, expire and are revoked;  *)
(* nothing is kept of them but the hashes of the revoked ones.  A question *)
(* of a founder reads the privacy mode, then the sessions, then writes the *)
(* audit row and only then answers, while privacy, tokens and tenants      *)
(* change between these steps.  Everything else a door does is one step.   *)
(***************************************************************************)
EXTENDS Questions, Sequences

CONSTANTS
    Tokens,        \* what can be minted: [id, scope, org, actor]
    Codes,         \* invite codes
    MemberOf,      \* [members -> orgs]
    SHARED_USES,   \* uses of an invite that names nobody
    privacy_mode,  \* the deployment's default, "open" or "k_anon"
    MaxActs,       \* bound: requests that change something, and expiries
    MaxVisits      \* bound: questions

ASSUME AccessAssumption ==
    /\ \A t \in Tokens : t.scope \in {"agent", "founder", "engineer"} /\ t.org \in Orgs
    /\ SHARED_USES \in Nat \ {0} /\ MaxActs \in Nat /\ MaxVisits \in Nat /\ privacy_mode \in {"open", "k_anon"}

VARIABLES
    tenants,  \* orgs with a row
    minted, expired, revoked,
    privacy,  \* the operator's choice for an org, or None
    offers,   \* invites by code
    roles,    \* roles of the members who signed in
    audit,    \* founder_query_audit rows of each org, oldest first
    visit,    \* the question being answered, or NoVisit
    acts, visits,
    handed,   \* history: answers handed out
    killed    \* history: tokens revoked at some time

tables == <<tenants, privacy, offers, roles, audit>>
tokens == <<minted, expired, revoked>>
accessvars == <<tables, tokens, visit, acts, visits, handed, killed>>

Operator == [id |-> "operator", scope |-> "admin", org |-> None, actor |-> None]
Credentials == minted \cup {Operator}
NoVisit == [step |-> "none"]

AccessInit ==
    /\ tenants = Orgs /\ minted \in {{}, Tokens} /\ expired = {} /\ revoked = {}
    /\ privacy = [o \in Orgs |-> None] /\ offers = [c \in Codes |-> None]
    /\ roles = [m \in DOMAIN MemberOf |-> "engineer"]
    /\ audit = [o \in Orgs |-> <<>>] /\ visit = NoVisit /\ acts = 0 /\ visits = 0
    /\ handed = {} /\ killed = {}

-----------------------------------------------------------------------------
\* Who is let in, and to which organisation: at most one, none when refused

\* verify_team_token, verify_founder_token, verify_engineer_token: their own scope only.
verified(t, role) == t \in minted \ expired /\ t.scope = role

\* Mutant of session_for: a revoked token still verifies.
session_for_Revoked(t) ==
    {[role |-> "admin", org |-> None] : o \in {t} \cap {Operator}} \cup
    {[role |-> r, org |-> t.org] : r \in {r \in {"founder", "engineer"} : verified(t, r)}}

session_for(t) ==
    {[role |-> "admin", org |-> None] : o \in {t} \cap {Operator}} \cup
    {[role |-> r, org |-> t.org] : r \in {r \in {"founder", "engineer"} : t \notin revoked /\ verified(t, r)}}

_founder_session(t) == {s \in session_for(t) : s.role # "engineer"}

html(t, requested) == {scope(s, requested) : s \in _founder_session(t)}
console(t, requested) == {scope(s, requested) : s \in _founder_session(t)} \ {None}
\* The operator who names no org reads the first there is.
wiki(t, requested) ==
    UNION {IF scope(s, requested) = None THEN tenants ELSE {scope(s, requested)} : s \in session_for(t)}

require_admin(t) == t = Operator
\* require_founder_access: the org is asked for by name, and a founder's must be theirs.
founder_api(t, requested) ==
    {o \in Orgs : /\ o = requested
                  /\ require_admin(t) \/ (t \notin revoked /\ verified(t, "founder") /\ o = t.org)}
require_team(t) == {t.org : x \in {x \in {t} : t \notin revoked /\ verified(t, "agent")}}

\* named: the org's own mode, or else the deployment's.
privacy_open(o) == (IF privacy[o] = None THEN privacy_mode ELSE privacy[o]) = "open"

-----------------------------------------------------------------------------
\* What the consoles show

visible_orgs(s) == IF s.org = None THEN tenants ELSE {s.org} \cap tenants
list_invites(o) == {c \in Codes : offers[c] # None /\ offers[c].org = o}
open_invites(o) == {c \in list_invites(o) : offers[c].uses > 0}
members(o) == {<<m, roles[m]>> : m \in {m \in DOMAIN MemberOf : MemberOf[m] = o /\ roles[m] # None}}
list_founder_audit(o, limit) ==
    SubSeq(audit[o], Len(audit[o]) - Min({limit, Len(audit[o])}) + 1, Len(audit[o]))
orgs_list(s) == {[org |-> o, compactions |-> count_compactions(o)] : o \in visible_orgs(s)}

\* The HTML console is one page of all this.
console_page(s) ==
    LET shown == visible_orgs(s)
    IN  [rows |-> {[org |-> o, compactions |-> count_compactions(o)] : o \in shown},
         audit |-> [o \in shown |-> list_founder_audit(o, 5)],
         known |-> UNION {list_actors(o) : o \in shown},
         invites |-> {c \in UNION {list_invites(o) : o \in shown} : offers[c].uses > 0},
         members |-> UNION {members(o) : o \in shown}]

me(s) == [role |-> s.role, orgs |-> visible_orgs(s)]
capi_audit(o) == list_founder_audit(o, 20)
founder_audit(o) == list_founder_audit(o, 100)

ui_sessions(t, requested, f) == UNION {console_sessions(o, f, privacy_open(o)) : o \in html(t, requested)}
ui_session_detail(t, requested, id) == UNION {session_detail(o, id, privacy_open(o)) : o \in html(t, requested)}
sessions_list(t, requested, f) == UNION {console_sessions(o, f, privacy_open(o)) : o \in console(t, requested)}

-----------------------------------------------------------------------------
\* What a request does at once

Acts == acts < MaxActs /\ acts' = acts + 1 /\ UNCHANGED visits

Mint(t) ==
    /\ t \in Tokens \ minted /\ minted' = minted \cup {t}
    /\ UNCHANGED <<tables, expired, revoked, visit, handed, killed>>

mint_token(by, t) == require_admin(by) /\ t.scope = "agent" /\ Acts /\ Mint(t)
mint_founder_token(by, t) == require_admin(by) /\ t.scope = "founder" /\ Acts /\ Mint(t)
api_token(by, t) ==
    /\ t.scope = "founder" /\ \E s \in _founder_session(by) : s.org = t.org
    /\ Acts /\ Mint(t)
MintsEngineer(by, t, o) == t.scope = "engineer" /\ t.org = o /\ Acts /\ Mint(t)
ui_engineer_token(by, requested, t) == \E o \in html(by, requested) : MintsEngineer(by, t, o)
engineer_token(by, requested, t) == \E o \in console(by, requested) : MintsEngineer(by, t, o)
mint_engineer_token(by, requested, t) == \E o \in founder_api(by, requested) : MintsEngineer(by, t, o)

Expire(t) ==
    /\ t \in minted \ expired /\ Acts
    /\ expired' = expired \cup {t}
    /\ UNCHANGED <<tables, minted, revoked, visit, handed, killed>>

\* Any token can be revoked, expired or not; the row is its hash.
revoke_token(by, t) ==
    /\ require_admin(by) /\ t \in minted /\ Acts
    /\ revoked' = revoked \cup {t} /\ killed' = killed \cup {t}
    /\ UNCHANGED <<tables, minted, expired, visit, handed>>
revoked_tokens(by) == {t \in revoked : require_admin(by)}

Offer(by, c, o, team, bound) ==
    /\ offers[c] = None /\ Acts
    /\ offers' = [offers EXCEPT ![c] = [org |-> o, team |-> team, uses |-> IF bound THEN 1 ELSE SHARED_USES]]
    /\ UNCHANGED <<tenants, privacy, roles, audit, tokens, visit, handed, killed>>

\* The HTML console and the founders' API name a team the console API looks up.
ui_invite(by, requested, c, bound) == \E o \in html(by, requested) : Offer(by, c, o, <<"core">>, bound)
_team_for(o) == <<o, "core">>
create_invite(by, requested, c, bound) == \E o \in console(by, requested) : Offer(by, c, o, _team_for(o), bound)
founder_create_invite(by, requested, c, bound) ==
    \E o \in founder_api(by, requested) : Offer(by, c, o, <<"core">>, bound)

revoke_invite(by, o, c) ==
    /\ c \in list_invites(o) /\ Acts
    /\ offers' = [offers EXCEPT ![c] = None]
    /\ UNCHANGED <<tenants, privacy, roles, audit, tokens, visit, handed, killed>>
ui_invite_revoke(by, requested, c) == \E o \in html(by, requested) : revoke_invite(by, o, c)
capi_revoke_invite(by, requested, c) == \E o \in console(by, requested) : revoke_invite(by, o, c)
founder_revoke_invite(by, requested, c) == \E o \in founder_api(by, requested) : revoke_invite(by, o, c)

\* enroll: the laptop's token is of the invite's org.
enroll(c, t) ==
    /\ offers[c] # None /\ offers[c].uses > 0
    /\ t.scope = "agent" /\ t.org = offers[c].org /\ t \in Tokens \ minted
    /\ Acts
    /\ offers' = [offers EXCEPT ![c].uses = @ - 1] /\ minted' = minted \cup {t}
    /\ UNCHANGED <<tenants, privacy, roles, audit, expired, revoked, visit, handed, killed>>

set_identity_role(by, o, m) ==
    /\ MemberOf[m] = o /\ roles[m] # None /\ Acts
    /\ roles' = [roles EXCEPT ![m] = "founder"]
    /\ UNCHANGED <<tenants, privacy, offers, audit, tokens, visit, handed, killed>>
\* The HTML console promotes for a founder only, the console API for the operator too.
ui_promote(by, m) == \E s \in _founder_session(by) : s.org # None /\ set_identity_role(by, s.org, m)
promote(by, requested, m) == \E o \in console(by, requested) : set_identity_role(by, o, m)

set_privacy(by, o, mode) ==
    /\ require_admin(by) /\ privacy[o] # mode /\ Acts
    /\ privacy' = [privacy EXCEPT ![o] = mode]
    /\ UNCHANGED <<tenants, offers, roles, audit, tokens, visit, handed, killed>>

create_org(by, o) ==
    /\ require_admin(by) /\ o \notin tenants /\ Acts
    /\ tenants' = tenants \cup {o}
    /\ UNCHANGED <<privacy, offers, roles, audit, tokens, visit, handed, killed>>

Emptied(o) ==
    /\ stored' = {d \in stored : d.org # o} /\ noted' = {n \in noted : n.org # o}
    /\ roster' = {r \in roster : r[1] # o}
    /\ edges' = {e \in edges : \E n \in NoteRows : n.id = e[1] /\ n.org # o}
    /\ UNCHANGED purged

\* Mutant of delete_org: the hashes of the org's revoked tokens are swept with the rest.
delete_org_Sweeps(by, o) ==
    /\ require_admin(by) /\ o \in tenants /\ Acts
    /\ tenants' = tenants \ {o} /\ privacy' = [privacy EXCEPT ![o] = None]
    /\ offers' = [c \in Codes |-> IF c \in list_invites(o) THEN None ELSE offers[c]]
    /\ roles' = [m \in DOMAIN roles |-> IF MemberOf[m] = o THEN None ELSE roles[m]]
    /\ audit' = [audit EXCEPT ![o] = <<>>]
    /\ visit' = IF visit # NoVisit /\ visit.org = o THEN [visit EXCEPT !.swept = TRUE] ELSE visit
    /\ handed' = {h \in handed : h.org # o}
    /\ Emptied(o)
    /\ revoked' = {t \in revoked : t.org # o}
    /\ UNCHANGED <<minted, expired, killed>>

\* Everything of the org goes, its audit too; revoked tokens stay revoked, and the others
\* still verify.
delete_org(by, o) ==
    /\ require_admin(by) /\ o \in tenants /\ Acts
    /\ tenants' = tenants \ {o} /\ privacy' = [privacy EXCEPT ![o] = None]
    /\ offers' = [c \in Codes |-> IF c \in list_invites(o) THEN None ELSE offers[c]]
    /\ roles' = [m \in DOMAIN roles |-> IF MemberOf[m] = o THEN None ELSE roles[m]]
    /\ audit' = [audit EXCEPT ![o] = <<>>]
    /\ visit' = IF visit # NoVisit /\ visit.org = o THEN [visit EXCEPT !.swept = TRUE] ELSE visit
    /\ handed' = {h \in handed : h.org # o}
    /\ Emptied(o)
    /\ UNCHANGED <<tokens, killed>>

-----------------------------------------------------------------------------
\* A founder's question, step by step

\* The consoles show topics, session lists and sessions ("browse") at once, with no audit row.
Kinds == {"query", "ask", "topics", "thread", "drill", "digest", "console_topics", "browse"}
Audited == Kinds \ {"digest", "console_topics", "browse"}
Doors(kind, t, requested) ==
    CASE kind = "query" -> html(t, requested) \cup console(t, requested) \cup founder_api(t, requested)
      [] kind = "digest" -> html(t, requested) \cup console(t, requested) \cup founder_api(t, requested)
      [] kind = "ask" -> wiki(t, requested) \cup founder_api(t, requested)
      [] kind \in {"console_topics", "browse"} -> html(t, requested) \cup console(t, requested)
      [] OTHER -> founder_api(t, requested)

Arrive(kind, t, requested) ==
    /\ visit = NoVisit /\ visits < MaxVisits /\ visits' = visits + 1
    /\ \E o \in Doors(kind, t, requested) :
          visit' = [step |-> "privacy", kind |-> kind, org |-> o, n |-> visits, late |-> t \in killed,
                    swept |-> FALSE, named |-> FALSE, names |-> {}, cites |-> {}]
    /\ UNCHANGED <<tables, tokens, acts, handed, killed>>

\* ask names people whatever the mode, the digest never does, and a drill shows turns.
ReadPrivacy ==
    /\ visit.step = "privacy"
    /\ visit' = [visit EXCEPT !.step = "read",
          !.named = visit.kind = "ask" \/ (visit.kind \notin {"digest", "drill"} /\ privacy_open(visit.org))]
    /\ UNCHANGED <<tables, tokens, acts, visits, handed, killed>>

\* thread: the slices of one transcript.
thread(o, key) == {d \in query_compactions(o, Anything, All) : d.thread = key}

\* The sessions a question is about, and what its answer may cite of them.
Matched(kind, o, named) ==
    CASE kind = "query" -> {run_query(o, spec, named).visible : spec \in Specs}
      [] kind = "ask" -> {query_compactions(o, spec, All) : spec \in Specs}
      [] kind \in {"topics", "console_topics"} -> {query_compactions(o, Anything, All)}
      [] kind = "browse" -> {query_compactions(o, spec, SESSION_LIMIT) : spec \in Specs}
                            \cup {get_compaction(d.id, o) : d \in Digests}
      [] kind = "digest" -> {UNION {s.visible : s \in digest_sections(o)}}
      [] kind = "thread" -> {thread(o, d.thread) : d \in Digests}
      [] OTHER -> {get_compaction(d.id, o) : d \in Digests}
Citable(kind, ids) ==
    CASE kind \in {"topics", "console_topics"} -> {{}}
      [] kind \in {"thread", "drill", "browse"} -> {ids}
      [] OTHER -> {_match_citations({piece}, ids) : piece \in PiecesOver(ids)}

\* The consoles show how many people a topic has, not who.
ReadSessions ==
    /\ visit.step = "read"
    /\ \E S \in Matched(visit.kind, visit.org, visit.named) :
          \E cited \in Citable(visit.kind, {d.id : d \in S}) :
             visit' = [visit EXCEPT !.step = IF visit.kind \in Audited THEN "record" ELSE "answer",
                          !.names = IF visit.named /\ visit.kind # "console_topics" THEN Contributors(S) ELSE {},
                          !.cites = cited]
    /\ UNCHANGED <<tables, tokens, acts, visits, handed, killed>>

\* Mutant of Individual: the privacy mode of the moment the row is written.
Individual_Now(v) == v.kind = "ask" \/ privacy_open(v.org)

\* Only a drill looks the mode up when it writes the row.
Individual(v) == IF v.kind = "drill" THEN privacy_open(v.org) ELSE v.named

\* record_founder_query, before the answer goes out.
RecordFounderQuery ==
    /\ visit.step = "record"
    /\ audit' = [audit EXCEPT ![visit.org] = Append(@,
          [n |-> visit.n, kind |-> visit.kind, individual |-> Individual(visit), cites |-> visit.cites,
           insufficient |-> visit.kind # "topics" /\ visit.cites = {}])]
    /\ visit' = [visit EXCEPT !.step = "answer"]
    /\ UNCHANGED <<tenants, privacy, offers, roles, tokens, acts, visits, handed, killed>>

HandOut ==
    /\ visit.step = "answer"
    /\ handed' = IF visit.swept THEN handed ELSE handed \cup
          {[n |-> visit.n, kind |-> visit.kind, org |-> visit.org, names |-> visit.names,
            cites |-> visit.cites, late |-> visit.late]}
    /\ visit' = NoVisit
    /\ UNCHANGED <<tables, tokens, acts, visits, killed>>

\* The quota is spent, the store raises or the server restarts: nobody is answered.
NoAnswer ==
    /\ visit # NoVisit /\ visit' = NoVisit
    /\ UNCHANGED <<tables, tokens, acts, visits, handed, killed>>

Asked(t, o) == \E kind \in Kinds : Arrive(kind, t, o)
Minted(by, t) ==
    \/ mint_token(by, t) \/ mint_founder_token(by, t) \/ api_token(by, t)
    \/ ui_engineer_token(by, t.org, t) \/ engineer_token(by, t.org, t) \/ mint_engineer_token(by, t.org, t)
Invited(by, o, c) ==
    \/ \E bound \in BOOLEAN :
          ui_invite(by, o, c, bound) \/ create_invite(by, o, c, bound) \/ founder_create_invite(by, o, c, bound)
    \/ ui_invite_revoke(by, o, c) \/ capi_revoke_invite(by, o, c) \/ founder_revoke_invite(by, o, c)

AccessNext ==
    \/ /\ \/ \E by \in Credentials, o \in Orgs :
                \/ Asked(by, o) \/ create_org(by, o)
                \/ \E c \in Codes : Invited(by, o, c)
                \/ \E m \in DOMAIN MemberOf : ui_promote(by, m) \/ promote(by, o, m)
                \/ \E mode \in {"open", "k_anon"} : set_privacy(by, o, mode)
          \/ \E by \in Credentials, t \in Tokens : Minted(by, t) \/ revoke_token(by, t)
          \/ \E t \in Tokens : Expire(t) \/ \E c \in Codes : enroll(c, t)
          \/ ReadPrivacy \/ ReadSessions \/ RecordFounderQuery \/ HandOut \/ NoAnswer
       /\ UNCHANGED pagevars
    \/ \E by \in Credentials, o \in Orgs : delete_org(by, o)

\* The doors while sessions and notes come and go and other questions are answered.
AccessSpec ==
    /\ AccessInit /\ question = Silent /\ answer = None
    /\ stored \subseteq Digests /\ noted \subseteq NoteRows
    /\ roster \subseteq Orgs \X Actors /\ \A d \in stored : <<d.org, d.actor>> \in roster
    /\ [][(AccessNext /\ UNCHANGED qvars) \/ (QuestionsNext /\ UNCHANGED accessvars)]_<<accessvars, pagevars, qvars>>

-----------------------------------------------------------------------------
\* Properties

\* Every answer to a query, an ask, a thread, a drill or the founders' API's topics is in
\* the audit that founders can read, as it was given, and as one that could name people
\* whenever it does, whatever became of the privacy mode while it was made.  The weekly
\* digest and the consoles' topics leave no row and name nobody; the consoles' session
\* lists leave none and do, where the mode is open (ui.py ui_query, app.py founder_topics).
AnswersAudited ==
    \A h \in handed :
        /\ h.kind \in Audited => \E e \in Range(founder_audit(h.org)) :
              /\ e.n = h.n /\ e.kind = h.kind /\ e.cites = h.cites
              /\ h.names # {} => e.individual
        /\ h.names # {} => h.kind \in Audited \cup {"browse"}

\* A question is answered only to a credential that was not revoked when it was asked,
\* even when its organisation has been deleted and made again since.
RevokedIsShut == \A h \in handed : ~h.late

\* Whoever holds a token is let in to their own organisation only, whatever they ask
\* for, and somebody let in by one founders' door can use all of them for it.
DoorsAgree ==
    \A t \in minted, o \in Orgs :
        /\ founder_api(t, o) # {} <=> console(t, o) = {o}
        /\ html(t, o) = console(t, o) /\ html(t, o) \subseteq wiki(t, o)
        /\ wiki(t, o) \cup require_team(t) \subseteq {t.org}
        /\ require_team(t) # {} => wiki(t, o) = {}

\* The HTML console and the console API show a session the same, and every session
\* they list opens.
ConsolesAgree ==
    \A t \in minted, o \in Orgs :
        /\ \A c \in ui_sessions(t, o, Anything) :
              /\ c \in sessions_list(t, o, Anything) /\ ui_session_detail(t, o, c.id) = {c}
        /\ \A s \in _founder_session(t) :
              LET page == console_page(s)
              IN  /\ page.rows = orgs_list(s)
                  /\ page.invites = UNION {open_invites(v) : v \in me(s).orgs}
                  /\ page.members = UNION {members(v) : v \in me(s).orgs}
                  /\ \A v \in me(s).orgs : Range(page.audit[v]) \subseteq Range(capi_audit(v))

\* A query's answer names nobody the privacy mode hides, and every answer of a door that
\* keeps an audit is accounted for.
AnswersHonest == KAnonymous /\ AnswersAudited
\* The pages of an organisation agree with each other, through every door.  Questions
\* change no row, so the pages are compared before the first.
SurfacesAgree ==
    /\ asked = 0 /\ visits = 0 => PagesAgree
    /\ DoorsAgree /\ ConsolesAgree /\ RevokedIsShut
=============================================================================
