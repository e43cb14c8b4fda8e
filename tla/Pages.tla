-------------------------------- MODULE Pages --------------------------------
(***************************************************************************)
(* What the server's read handlers show of an organisation: the store's    *)
(* queries, the projections both wikis are drawn from, the pages, and the  *)
(* graph of people and projects.  A digest is a record of what the pages   *)
(* tell apart; "at" is its time, and no two of an org share one.           *)
(***************************************************************************)
EXTENDS Common, Integers, FiniteSets, FiniteSetsExt, Functions

CONSTANTS
    Digests, NoteRows,   \* everything that can be in the tables
    Now,                 \* the time of the reader
    HOME_WINDOW_DAYS, PROJECT_WINDOW_DAYS, STALE_AFTER_DAYS,
    PAGE,                \* rows on a page
    RELATED             \* limit of related_people

ASSUME PagesAssumption ==
    /\ IsFiniteSet(Digests) /\ \A d \in Digests : d.at \in Nat /\ d.actor # None
    /\ \A d, e \in Digests : d.id = e.id => d = e
    /\ PAGE \in Nat \ {0} /\ None \notin Int /\ \A d \in Digests : d.org # None
    /\ Now \in Nat /\ HOME_WINDOW_DAYS \in Nat /\ PROJECT_WINDOW_DAYS \in Nat
    /\ HOME_WINDOW_DAYS <= PROJECT_WINDOW_DAYS

VARIABLES
    stored, noted,  \* the digests and the notes that are there
    roster,         \* the <<org, actor>> rows: everybody who ever synced
    edges           \* the <<note, entity>> edges consolidation wrote; they outlive their notes

Orgs == {d.org : d \in Digests}
Actors == {d.actor : d \in Digests}  \* numbered in the order of their names
Projects == {d.project : d \in Digests}

-----------------------------------------------------------------------------
\* The store's queries

\* Mutant of Newest: the order the other way round.
Newest_Oldest(S, n) == {d \in S : Cardinality({e \in S : e.at < d.at}) < n}

\* The newest n of what a query matches.
Newest(S, n) == {d \in S : Cardinality({e \in S : e.at > d.at}) < n}
All == 1000

\* A filter leaves None what it does not restrict; until is inclusive.
Anything == [project |-> None, outcome |-> None, actor |-> None, since |-> None, until |-> None]

Matches(d, f) ==
    /\ \A k \in {"project", "outcome", "actor"} : f[k] = None \/ d[k] = f[k]
    /\ f.since = None \/ d.at >= f.since
    /\ f.until = None \/ d.at <= f.until

query_compactions(org, f, limit) == Newest({d \in stored : d.org = org /\ Matches(d, f)}, limit)
\* Mutant of get_compaction: by its id alone.
get_compaction_Any(id, org) == {d \in stored : d.id = id}

get_compaction(id, org) == {d \in stored : d.org = org /\ d.id = id}
count_compactions(org) == Cardinality({d \in stored : d.org = org})

Since(days) == [Anything EXCEPT !.since = Now - days]
Of(actor) == [Anything EXCEPT !.actor = actor]
On(project) == [Anything EXCEPT !.project = project]

\* query_notes leaves superseded versions out unless they are asked for by status.
query_notes(org, kind, project) ==
    {n \in noted : /\ n.org = org /\ n.status # "superseded"
                   /\ kind = None \/ n.kind = kind
                   /\ project = None \/ n.project = project}
get_note(id, org) == {n \in noted : n.org = org /\ n.id = id}
list_actors(org) == {r[2] : r \in {r \in roster : r[1] = org}}

\* Names that are folders or defaults, not projects.
is_real_project(p) == p \notin {"", "unknown", "tmp"}
list_projects(org) == {p \in {d.project : d \in query_compactions(org, Anything, All)} : is_real_project(p)}

-----------------------------------------------------------------------------
\* Projections

is_pending(d) == d.source = "pending"

\* is_structural_junk: the compactor digesting itself, and nothing else about it.
is_structural_junk(d) ==
    /\ d.files = {} /\ d.project \in {"", "unknown"}
    /\ d.outcome = "abandoned" /\ d.itself
_readable(S) == {d \in S : ~is_structural_junk(d)}

Latest(S) == Max({d.at : d \in S})
outcome_mix(S) == [o \in {d.outcome : d \in S} |-> Cardinality({d \in S : d.outcome = o})]

project_rollups(S) ==
    LET In(p) == {d \in S : d.project = p}
    IN  {[project |-> p, sessions |-> Cardinality(In(p)), actors |-> {d.actor : d \in In(p)},
          mix |-> outcome_mix(In(p)), last |-> Latest(In(p))] :
            p \in {q \in {d.project : d \in S} : is_real_project(q)}}

activity_rollup(S) ==
    LET By(a) == {d \in S : d.actor = a}
    IN  {[actor |-> a, sessions |-> Cardinality(By(a)), mix |-> outcome_mix(By(a)), last |-> Latest(By(a)),
          projects |-> {p \in {d.project : d \in By(a)} : is_real_project(p)},
          intents |-> {d.id : d \in Newest({d \in By(a) : ~is_pending(d)}, 5)}] :
            a \in {d.actor : d \in S}}

project_status(last) == IF Now - last > STALE_AFTER_DAYS THEN "stale" ELSE "active"

\* split_summarised: cards worth reading, and how many wait per project.
Summarised(S) == {d \in S : ~is_pending(d)}
Waiting(S) == S \ Summarised(S)
split_summarised(S) ==
    <<Summarised(S), [p \in {d.project : d \in Waiting(S)} |-> Cardinality({d \in Waiting(S) : d.project = p})]>>

-----------------------------------------------------------------------------
\* Pages

\* _benchmark_deltas: a benchmark moved when the version before it had another value.
_benchmark_deltas(org, S) ==
    {[note |-> n.id, was |-> {m.value : m \in {p \in noted : p.org = org /\ p.id = n.prev}}] : n \in S}

org_home(org) ==
    LET comps == _readable(query_compactions(org, Since(HOME_WINDOW_DAYS), All))
        fresh == {n \in query_notes(org, None, None) : n.at >= Now - HOME_WINDOW_DAYS}
    IN  [projects |-> project_rollups(comps), people |-> activity_rollup(comps),
         decisions |-> {n.id : n \in {n \in fresh : n.kind = "decision"}},
         benchmarks |-> _benchmark_deltas(org, {n \in fresh : n.kind = "benchmark"}),
         unreviewed |-> Cardinality({n \in query_notes(org, None, None) : n.status = "candidate"})]

discovery_feed(org) ==
    LET windowed == _readable(query_compactions(org, Since(HOME_WINDOW_DAYS), All))
    IN  [stream |-> Newest(Summarised(windowed), 10), pending |-> split_summarised(windowed)[2],
         projects |-> project_rollups(windowed), people |-> activity_rollup(windowed)]

\* The article of a project, the lead of which every page shows.
overview_of(org, project) == query_notes(org, "project_overview", project)

project_page(org, project) ==
    LET windowed == _readable({d \in query_compactions(org, Since(PROJECT_WINDOW_DAYS), All) : d.project = project})
        recent == _readable(query_compactions(org, On(project), 50))
    IN  [rollup |-> project_rollups(windowed), sessions |-> Summarised(recent),
         pending |-> Cardinality(Waiting(recent)), overview |-> overview_of(org, project),
         status |-> IF recent = {} THEN "stale" ELSE project_status(Latest(recent))]

PERSON_SCAN_LIMIT == 500
PERSON_SESSIONS_PER_PROJECT == 3

person_page(org, actor) ==
    LET windowed == _readable(query_compactions(org, [Since(PROJECT_WINDOW_DAYS) EXCEPT !.actor = actor], All))
        logged == _readable(query_compactions(org, Of(actor), PERSON_SCAN_LIMIT))
        rollups == project_rollups(logged)
        named == {r.project : r \in rollups}
        Block(r) == {d \in logged : d.project = r.project}
    IN  [activity |-> activity_rollup(windowed),
         projects |-> {[project |-> r.project, status |-> project_status(r.last),
                        what |-> overview_of(org, r.project),
                        sessions |-> Newest(Summarised(Block(r)), PERSON_SESSIONS_PER_PROJECT),
                        pending |-> Cardinality(Waiting(Block(r)))] : r \in rollups},
         unfiled |-> Newest(Summarised({d \in logged : d.project \notin named}), 50),
         sessions |-> Newest(logged, 50)]

note_page(org, id) ==
    {[note |-> n, evidence |-> UNION {get_compaction(c, org) : c \in n.evidence},
      disputed |-> UNION {get_compaction(c, org) : c \in n.disputed}] : n \in get_note(id, org)}

-----------------------------------------------------------------------------
\* The graph of people and projects

WEIGHT_PROJECT == 3
WEIGHT_NOTE == 2
WEIGHT_FILE == 1
GenericFiles == {"readme.md", "package.json"}

_by_actor(S, a) == {d \in S : d.actor = a}
ProjectsOf(S) == {d.project : d \in S} \ {""}
FilesOf(S) == UNION {d.files : d \in S} \ GenericFiles

\* related_people, before the limit: only the reader's own generic files are left out,
\* which leaves them out of what is shared.
Tie(S, N, a, b) ==
    WEIGHT_PROJECT * Cardinality(ProjectsOf(_by_actor(S, a)) \cap ProjectsOf(_by_actor(S, b)))
  + WEIGHT_NOTE * Cardinality({n \in N : {a, b} \subseteq n.actors})
  + WEIGHT_FILE * Cardinality(FilesOf(_by_actor(S, a)) \cap FilesOf(_by_actor(S, b)))

\* The heaviest ties of a person, the earlier name first among equals.
Before(x, y) == x.weight > y.weight \/ (x.weight = y.weight /\ x.actor < y.actor)
Heaviest(E, limit) == {e \in E : Cardinality({x \in E : Before(x, e)}) < limit}

related_people(S, N, a) ==
    LET others == ({d.actor : d \in S} \cup UNION {n.actors : n \in N}) \ {a}
        ties == {[actor |-> b, weight |-> Tie(S, N, a, b)] : b \in {c \in others : Tie(S, N, a, c) > 0}}
    IN  IF _by_actor(S, a) = {} THEN {} ELSE Heaviest(ties, RELATED)

project_neighbors(S, p) ==
    LET contributors == {d.actor : d \in {d \in S : d.project = p}}
        On2(q) == {d.actor : d \in {d \in S : d.project = q}} \cap contributors
    IN  {[project |-> q, weight |-> Cardinality(On2(q))] :
            q \in {q \in {d.project : d \in S} \ {p, ""} : On2(q) # {}}}

session_related(d, N, S) ==
    [notes |-> {n \in N : d.id \in n.evidence}, disputes |-> {n \in N : d.id \in n.disputed},
     same_actor |-> Newest({e \in S : e.actor = d.actor /\ e.id # d.id}, 5),
     same_project |-> Newest({e \in S : /\ e.project # "" /\ e.project = d.project
                                        /\ e.actor # d.actor /\ e.id # d.id}, 5)]

\* What is stored of the graph: each pair once, from the list of the earlier name.
co_actor_edges(S, N) ==
    UNION {{[src |-> a, dst |-> e.actor, weight |-> e.weight] :
               e \in {e \in related_people(S, N, a) : a < e.actor}} : a \in {d.actor : d \in S}}

-----------------------------------------------------------------------------
\* The wiki's read API

\* A session is bound to its org; the operator's (org None) reads the one it asks for.
scope(session, requested) == IF session.org = None THEN requested ELSE session.org

_graph_window(org) == query_compactions(org, Since(PROJECT_WINDOW_DAYS), All)

wiki_me(session, requested) ==
    LET org == scope(session, requested)
    IN  [org |-> org, orgs |-> IF session.org = None THEN Orgs ELSE {org},
         notes |-> Cardinality(query_notes(org, None, None))]

wiki_home(session, requested) ==
    LET feed == discovery_feed(scope(session, requested))
    IN  [stream |-> feed.stream, pending |-> feed.pending, people |-> feed.people,
         projects |-> {[row |-> r, status |-> project_status(r.last)] : r \in feed.projects}]

\* People and projects that were active, and the known ones that were not.
wiki_people(session, requested) ==
    LET org == scope(session, requested)
        active == activity_rollup(query_compactions(org, Since(PROJECT_WINDOW_DAYS), All))
    IN  [active |-> active, quiet |-> list_actors(org) \ {a.actor : a \in active}]

wiki_projects(session, requested) ==
    LET org == scope(session, requested)
        active == project_rollups(query_compactions(org, Since(PROJECT_WINDOW_DAYS), All))
    IN  [active |-> {[row |-> r, status |-> project_status(r.last),
                      what |-> overview_of(org, r.project)] : r \in active},
         quiet |-> list_projects(org) \ {r.project : r \in active}]

wiki_person(session, requested, actor) ==
    LET org == scope(session, requested)
    IN  [page |-> person_page(org, actor),
         connections |-> related_people(_graph_window(org), query_notes(org, None, None), actor)]

wiki_project(session, requested, project) ==
    LET org == scope(session, requested)
    IN  [page |-> project_page(org, project), neighbors |-> project_neighbors(_graph_window(org), project)]

wiki_session(session, requested, id) ==
    LET org == scope(session, requested)
    IN  {[session |-> d, links |-> session_related(d, query_notes(org, None, None), _graph_window(org))] :
            d \in get_compaction(id, org)}

\* The notes that mention an entity, where they are still there.
wiki_entity(session, requested, entity) ==
    LET org == scope(session, requested)
    IN  UNION {get_note(e[1], org) : e \in {e \in edges : e[2] = entity}}

wiki_note(session, requested, id) == note_page(scope(session, requested), id)

\* _page_envelope over wiki_sessions: a page that came back short offers no cursor, and
\* what is not worth reading is left out after the page is cut.
wiki_sessions(session, requested, f) ==
    LET cut == query_compactions(scope(session, requested), f, PAGE)
        cards == _readable(cut)
    IN  [items |-> cards,
         next_cursor |-> IF Cardinality(cards) >= PAGE THEN Min({d.at : d \in cards}) ELSE None]

wiki_notes(session, requested, kind, project, until) ==
    LET live == {n \in query_notes(scope(session, requested), kind, project) : until = None \/ n.at <= until}
        cut == Newest(live, PAGE)
    IN  [items |-> cut,
         next_cursor |-> IF Cardinality(cut) >= PAGE THEN Min({n.at : n \in cut}) ELSE None]
=============================================================================
