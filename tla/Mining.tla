-------------------------------- MODULE Mining -------------------------------
(***************************************************************************)
(* Skill mining on the server: one click starts a background run, which    *)
(* reads the organisation's recent digests, groups alike ones, drafts a    *)
(* skill for each group of at least the miner's own floor of contributors  *)
(* and queues it for approval. The registry of runs lives in the server    *)
(* process. Also the pure parts that share its clusters and digests: the   *)
(* team's topics, gated by the server's configured floor, and the cost     *)
(* router.                                                                 *)
(***************************************************************************)
EXTENDS Common, Integers, FiniteSets, Sequences, FiniteSetsExt, SequencesExt

CONSTANTS
    Mined,         \* digests: [id, actor, session, at, tier, tokens, hard]; the later, the larger at
    Alike,         \* pairs of ids whose vectors are close enough
    Clickers,      \* request threads
    Days,         \* the window's first day
    MaxItems, MaxRuns, MaxRestarts, MaxPurged,
    min_cluster_size,
    KFloor,        \* K_ANON_FLOOR, fixed in the miner: what a skill needs
    KServer        \* the server's configured k_anon_floor: what a topic needs

ASSUME MiningAssumption ==
    /\ MaxItems \in Nat \ {0} /\ MaxRuns \in Nat /\ MaxRestarts \in Nat /\ MaxPurged \in Nat
    /\ min_cluster_size \in Nat /\ KFloor \in Nat /\ KServer \in Nat
    /\ \A p \in Alike : <<p[2], p[1]>> \in Alike
    /\ IsFiniteSet(Mined) /\ \A c, d \in Mined : c.id = d.id => c = d
    /\ \A c \in Mined : c.at \in Nat /\ c.tokens \in Nat \cup {None}
    /\ None \notin Nat \cup {"opus", "sonnet", "haiku"}
    /\ None \notin [name : {"slug", "long", "reserved", ""}, description : {"plain", "tagged", "long", ""},
                    body : {"steps", ""}]

VARIABLES released, spent, vectors, queue, runs, registry, mining, restarts,
          stranded       \* history: the runs whose click failed before its task was made
mvars == <<released, spent, vectors, queue, runs, registry, mining, restarts, stranded>>

MineRun == [state |-> "running", matched |-> 0, scanned |-> 0, queued |-> 0, proposals |-> 0]
NoJob == [pc |-> "idle", run |-> 0, listed |-> FALSE, items |-> {}, todo |-> <<>>, drafted |-> <<>>]

MiningInit ==
    /\ released = Mined /\ spent = FALSE
    /\ vectors = {} /\ queue = {} /\ runs = <<>> /\ registry = 0
    /\ mining = [t \in Clickers |-> NoJob] /\ restarts = 0
    /\ stranded = {}

(***************************************************************************)
(* Clusters.                                                               *)
(***************************************************************************)
_neighbor_sets(items) == [c \in items |-> {d \in items : d = c \/ <<c.id, d.id>> \in Alike}]

\* The largest neighbourhood comes first, of equal ones the newest digest's.
Larger(near, c, d) ==
    \/ Cardinality(near[d]) < Cardinality(near[c])
    \/ Cardinality(near[d]) = Cardinality(near[c]) /\ c.at >= d.at
Consider(near, round) ==
    LET c == CHOOSE c \in round.left : \A d \in round.left : Larger(near, c, d)
        fresh == near[c] \ UNION ToSet(round.found)
    IN  [left |-> round.left \ {c},
         found |-> IF Cardinality(fresh) >= min_cluster_size THEN Append(round.found, fresh) ELSE round.found]
\* Greedy and disjoint: each neighbourhood without what an earlier one took.
Rounds(items) ==
    LET near == _neighbor_sets(items)
        first == [left |-> {c \in items : Cardinality(near[c]) >= min_cluster_size}, found |-> <<>>]
        after[n \in 0..Cardinality(items)] ==
            IF n = 0 THEN first
            ELSE IF after[n - 1].left = {} THEN after[n - 1] ELSE Consider(near, after[n - 1])
    IN  after
community_detection(items) == Rounds(items)[Cardinality(items)].found

\* _cohesion in [0, 1]: only "all alike" is told apart here.
_cohesion(cluster) == \A c, d \in cluster : c = d \/ <<c.id, d.id>> \in Alike
Newest(items) == {c \in items : Cardinality({d \in items : d.at > c.at}) < MaxItems}
cluster_compactions(items) == community_detection(Newest(items))
ClusterContributors(cluster) == {c.actor : c \in cluster}
\* The clusters that recur keep their places.
recurring(clusters, contributors, enough) ==
    LET kept == {k \in DOMAIN clusters :
                   /\ Cardinality(ClusterContributors(clusters[k])) >= contributors
                   /\ Cardinality({c.session : c \in clusters[k]}) >= enough}
    IN  [k \in kept |-> clusters[k]]

(***************************************************************************)
(* One skill.                                                              *)
(***************************************************************************)
\* A draft as its validity sees it; a reply that cannot be parsed is None.
Names == {"slug", "long", "reserved", ""}
Descriptions == {"plain", "tagged", "long", ""}
Replies == [name : Names, description : Descriptions, body : {"steps", ""}] \cup {None}
validate_name(n) == IF n = "slug" THEN {} ELSE {<<"name", n>>}
validate_description(d) == IF d = "plain" THEN {} ELSE {<<"description", d>>}
validate_draft(d) ==
    validate_name(d.name) \cup validate_description(d.description)
    \cup IF d.body = "" THEN {<<"body", d.body>>} ELSE {}
slugify_name(n) == "slug"   \* a reserved, long or empty name becomes a valid slug
repair_draft(d) ==
    [d EXCEPT !.name = IF validate_name(d.name) = {} THEN d.name ELSE slugify_name(d.name),
              !.description = IF d.description = "" THEN "" ELSE "plain"]
fallback_draft == repair_draft([name |-> "long", description |-> "long", body |-> "steps"])

\* Any failure of the call, a refused budget included, falls back to a template.
synthesize(reply) ==
    IF reply = None \/ validate_draft(repair_draft(reply)) # {} THEN fallback_draft ELSE repair_draft(reply)

Drafts == {synthesize(reply) : reply \in Replies}

make_provenance(cluster) ==
    [contributor_count |-> Cardinality(ClusterContributors(cluster)), evidence |-> {c.id : c \in cluster},
     confident |-> _cohesion(cluster), session_count |-> Cardinality({c.session : c \in cluster})]
validate_provenance(p) == p.evidence # {} /\ p.contributor_count >= 0 /\ p.session_count >= 0

\* The miner's floor alone decides here; the deployment's does not reach it.
mine_org(items) == recurring(cluster_compactions(items), Max({KFloor, 1}), 1)
\* A function over the constants is a table; comparing it has TLC fill it in, once.
Table(f) == CHOOSE g \in {f} : g = f
Kept == Table([S \in SUBSET Mined |-> mine_org(S)])

(***************************************************************************)
(* A run.                                                                  *)
(***************************************************************************)
InWindow == {c \in released : c.at >= Days}
mining_scope == Newest(InWindow)
\* A vector is kept per digest; those missing are computed first.
ensure_vectors(items) == vectors \cup {c.id : c \in items}

Mine(t, j) == mining' = [mining EXCEPT ![t] = j]
check_quota == ~spent
is_running == registry # 0 /\ runs[registry].state = "running"
start(run) == runs' = Append(runs, run) /\ registry' = Len(runs) + 1
State(r, s) == runs' = [runs EXCEPT ![r].state = s]
Calm == UNCHANGED <<released, spent, restarts, stranded>>

\* The console's button: budget, then is_running, then start, then the provider, then
\* a background task. Nothing holds the registry between the look and the start.
mine(t) ==
    /\ mining[t].pc = "idle" /\ Len(runs) + 2 <= 2 * MaxRuns
    /\ check_quota /\ Mine(t, [NoJob EXCEPT !.pc = "look"])
    /\ UNCHANGED <<vectors, queue, runs, registry>> /\ Calm
Look(t) ==
    /\ mining[t].pc = "look"
    /\ Mine(t, IF is_running THEN NoJob ELSE [NoJob EXCEPT !.pc = "start"])
    /\ UNCHANGED <<vectors, queue, runs, registry>> /\ Calm
StartMine(t) ==
    /\ mining[t].pc = "start" /\ start(MineRun)
    /\ Mine(t, [NoJob EXCEPT !.pc = "provider", !.run = Len(runs) + 1, !.listed = TRUE])
    /\ UNCHANGED <<vectors, queue>> /\ Calm
Schedule(t) ==
    /\ mining[t].pc = "provider" /\ Mine(t, [mining[t] EXCEPT !.pc = "run"])
    /\ UNCHANGED <<vectors, queue, runs, registry>> /\ Calm
\* The provider reads the organisation's quota; when that raises, the click ends and the
\* run it registered stays "running", with nobody on it.
ProviderFails(t) ==
    /\ mining[t].pc = "provider" /\ Mine(t, NoJob)
    /\ stranded' = stranded \cup {mining[t].run}
    /\ UNCHANGED <<released, spent, vectors, queue, runs, registry, restarts>>
\* The administrator's request runs at once, outside the registry.
mine_skills(t) ==
    /\ mining[t].pc = "idle" /\ Len(runs) + 1 <= 2 * MaxRuns
    /\ Mine(t, [NoJob EXCEPT !.pc = "run"])
    /\ UNCHANGED <<vectors, queue, runs, registry>> /\ Calm

\* run_mining makes its own MineRun; a listed one replaces the placeholder.
run_mining(t) ==
    LET run == IF check_quota THEN MineRun ELSE [MineRun EXCEPT !.state = "quota"] IN
    /\ mining[t].pc = "run"
    /\ IF mining[t].listed THEN start(run) ELSE runs' = Append(runs, run) /\ UNCHANGED registry
    /\ Mine(t, IF check_quota THEN [mining[t] EXCEPT !.pc = "scope", !.run = Len(runs) + 1] ELSE NoJob)
    /\ UNCHANGED <<vectors, queue>> /\ Calm

Scope(t) ==
    LET r == mining[t].run IN
    /\ mining[t].pc = "scope"
    /\ runs' = [runs EXCEPT ![r].matched = Cardinality(InWindow), ![r].scanned = Cardinality(mining_scope),
                            ![r].state = IF mining_scope = {} THEN "done" ELSE @]
    /\ Mine(t, IF mining_scope = {} THEN NoJob ELSE [mining[t] EXCEPT !.pc = "cluster", !.items = mining_scope])
    /\ UNCHANGED <<vectors, queue, registry>> /\ Calm

\* SkillMiner.mine: vectors, clusters, then one model call for each kept cluster.
Cluster(t) ==
    /\ mining[t].pc = "cluster"
    /\ vectors' = ensure_vectors(mining[t].items)
    /\ Mine(t, [mining[t] EXCEPT !.pc = "draft", !.todo = Kept[mining[t].items], !.items = {}])
    /\ UNCHANGED <<queue, runs, registry>> /\ Calm
Draft(t) ==
    LET j == mining[t] first == Min(DOMAIN mining[t].todo) IN
    /\ j.pc = "draft" /\ DOMAIN j.todo # {}
    /\ \E draft \in IF spent THEN {synthesize(None)} ELSE Drafts :
         Mine(t, [j EXCEPT !.todo = Restrict(@, DOMAIN @ \ {first}), !.drafted = Append(@,
             [run |-> j.run, n |-> Len(@) + 1, draft |-> draft,
              provenance |-> make_provenance(j.todo[first])])])
    /\ UNCHANGED <<vectors, queue, runs, registry>> /\ Calm

enqueue_action(p) == queue \cup {p}
\* Proposals are queued one by one; the run counts them when all are in.
Enqueue(t) ==
    LET j == mining[t] IN
    /\ j.pc = "draft" /\ DOMAIN j.todo = {} /\ j.drafted # <<>>
    /\ queue' = enqueue_action(Head(j.drafted))
    /\ runs' = [runs EXCEPT ![j.run].proposals = @ + 1]
    /\ Mine(t, [j EXCEPT !.drafted = Tail(@)])
    /\ UNCHANGED <<vectors, registry>> /\ Calm
Done(t) ==
    LET j == mining[t] IN
    /\ j.pc = "draft" /\ DOMAIN j.todo = {} /\ j.drafted = <<>>
    /\ runs' = [runs EXCEPT ![j.run].state = "done", ![j.run].queued = @ + runs[j.run].proposals]
    /\ Mine(t, NoJob)
    /\ UNCHANGED <<vectors, queue, registry>> /\ Calm

\* Mutant of Failed: the exception ends the thread and leaves the run as it was.
Failed_Silent(t) ==
    /\ mining[t].pc \in {"scope", "cluster", "draft"}
    /\ Mine(t, NoJob)
    /\ UNCHANGED <<vectors, queue, runs, registry>> /\ Calm
\* Any exception ends the run as failed; what it queued stays queued.
Failed(t) ==
    /\ mining[t].pc \in {"scope", "cluster", "draft"}
    /\ State(mining[t].run, "failed") /\ Mine(t, NoJob)
    /\ UNCHANGED <<vectors, queue, registry>> /\ Calm

\* Somebody's call spends the month's budget (Ledger has the spending itself).
BudgetSpent ==
    /\ ~spent /\ spent' = TRUE
    /\ UNCHANGED <<released, vectors, queue, runs, registry, mining, restarts, stranded>>
Purged ==
    /\ Cardinality(Mined \ released) < MaxPurged
    /\ \E c \in released : released' = released \ {c} /\ vectors' = vectors \ {c.id}
    /\ UNCHANGED <<spent, queue, runs, registry, mining, restarts, stranded>>
\* A restart forgets the registry and every run; only the queue is stored.
Restart ==
    /\ restarts < MaxRestarts /\ restarts' = restarts + 1
    /\ registry' = 0 /\ mining' = [t \in Clickers |-> NoJob]
    /\ runs' = [r \in DOMAIN runs |-> MineRun]
    /\ stranded' = {}
    /\ UNCHANGED <<released, spent, vectors, queue>>

MiningNext ==
    \/ \E t \in Clickers :
         \/ mine(t) \/ Look(t) \/ StartMine(t) \/ Schedule(t) \/ ProviderFails(t)
         \/ mine_skills(t) \/ run_mining(t) \/ Scope(t) \/ Cluster(t) \/ Draft(t) \/ Enqueue(t) \/ Done(t) \/ Failed(t)
    \/ BudgetSpent \/ Purged \/ Restart

MiningSpec == MiningInit /\ [][MiningNext]_mvars

(***************************************************************************)
(* What the pages show of it.                                              *)
(***************************************************************************)
list_queue(r) == {p \in queue : p.run = r}
capped(run) == run.scanned < run.matched
coverage_note(run) == IF capped(run) THEN "the most recent" ELSE "all"
mine_status ==
    IF registry = 0 THEN None
    ELSE LET run == runs[registry]
         IN  [state |-> run.state, queued |-> run.queued, coverage |-> coverage_note(run),
              pending |-> Cardinality(queue)]
ui_mine_status == mine_status

topics(S, floor) == recurring(cluster_compactions(S), floor, 1)
Topics == Table([S \in SUBSET Mined |-> Table([named \in BOOLEAN |-> topics(S, IF named THEN 1 ELSE KServer)])])
team_topics(named) == Topics[released][named]
founder_topics(named) ==
    LET shown == team_topics(named)
    IN  [k \in DOMAIN shown |-> [count |-> Cardinality(ClusterContributors(shown[k])),
                                 people |-> IF named THEN ClusterContributors(shown[k]) ELSE {}]]

Cheaper == [opus |-> "sonnet", sonnet |-> "haiku", haiku |-> None]
Rate == [opus |-> 15, sonnet |-> 3, haiku |-> 1]
_price(c, tier) == c.tokens * Rate[tier]
_has_breakdown(c) == c.tokens # None
_safe_to_downgrade(c) == ~c.hard
target(c) == IF _safe_to_downgrade(c) THEN Cheaper[c.tier] ELSE None
projected(c) == _price(c, IF target(c) = None THEN c.tier ELSE target(c))
analyze_counterfactual_costs(S) ==
    LET priced == {c \in S : c.tier \in DOMAIN Rate /\ _has_breakdown(c)}
    IN  [sessions |-> Cardinality(S), priced |-> Cardinality(priced), skipped |-> Cardinality(S \ priced),
         current |-> SumFunction([c \in priced |-> _price(c, c.tier)]),
         projected |-> SumFunction([c \in priced |-> projected(c)])]

Costs == Table([S \in SUBSET Mined |-> analyze_counterfactual_costs(S)])

(***************************************************************************)
(* Properties.                                                             *)
(***************************************************************************)
\* A proposal speaks for at least as many contributors as the miner's fixed floor asks
\* for, whatever floor the server is configured with, in a valid skill, and no session is
\* evidence for two proposals of one run, whatever else is mined, purged or refused while
\* the run drafts (miner.py mine_org).
ProposalsSound ==
    /\ \A p \in queue :
         /\ p.provenance.contributor_count >= KFloor
         /\ validate_provenance(p.provenance) /\ validate_draft(p.draft) = {}
    /\ \A p, q \in queue : p.run = q.run /\ p # q => p.provenance.evidence \cap q.provenance.evidence = {}

\* What the status page says of the last run is so: running means a thread is on it or
\* about to be, unless the click that registered it failed before its task was made; done
\* means that what it queued is in the queue (mining.py run_mining, MineRunRegistry).
StatusHonest == mine_status # None =>
    /\ mine_status.state = "running" =>
         \/ \E t \in Clickers : mining[t].run = registry /\ mining[t].pc # "idle"
         \/ registry \in stranded
    /\ mine_status.state = "done" => mine_status.queued = Cardinality(list_queue(registry))
    /\ mine_status.queued <= ui_mine_status.pending

\* Topics name nobody below the floor, and the router's report accounts for
\* every session and never projects a dearer month.
ReportsSound ==
    /\ \A k \in DOMAIN founder_topics(FALSE) :
         founder_topics(FALSE)[k].count >= KServer /\ founder_topics(FALSE)[k].people = {}
    /\ LET r == Costs[released]
       IN  r.priced + r.skipped = r.sessions /\ r.projected <= r.current

\* Mining is honest about what it proposes, about its runs save those whose click failed,
\* and in its reports.
MiningHonest == ProposalsSound /\ StatusHonest /\ ReportsSound
=============================================================================
