------------------------------ MODULE Questions ------------------------------
(***************************************************************************)
(* Questions asked of an organisation while its sessions and notes come    *)
(* and go: the founder's k-anonymous query and weekly digest, and the      *)
(* wiki's ask, which reads notes, activity and sessions one after the      *)
(* other, calls the model, and shows what the answer cites.                *)
(***************************************************************************)
EXTENDS Pages

CONSTANTS
    K_ANON_FLOOR, NOTES_SUFFICIENT, PER_ACTOR_DRILL, DRILL_K,
    Specs,       \* the filters a model may parse out of a question
    Mentions,    \* the sets of people a question may name
    MaxQuestions, MaxPurges

ASSUME QuestionsAssumption ==
    /\ PER_ACTOR_DRILL \in Nat \ {0} /\ \A f \in Specs : DOMAIN f = DOMAIN Anything

VARIABLES
    question,    \* the question being answered, or Silent
    answer,      \* the last answer given, or None
    reading,     \* the reader turning the pages of the session list, or None
    asked,       \* questions and lists opened so far
    purged       \* sessions and notes that went so far

qvars == <<question, answer, reading, asked>>
pagevars == <<stored, noted, roster, edges, purged>>

Silent == [step |-> "none"]
InsufficientData == [given |-> FALSE, cites |-> {}]

QuestionsInit ==
    /\ stored = {} /\ noted = {} /\ roster = {} /\ edges = {}
    /\ question = Silent /\ answer = None /\ reading = None /\ asked = 0 /\ purged = 0

-----------------------------------------------------------------------------
\* Sessions and notes come and go at any time

\* ingest names the actor in the org's roster; a purge leaves the row.
Sync(d) ==
    /\ d \notin stored
    /\ stored' = stored \cup {d} /\ roster' = roster \cup {<<d.org, d.actor>>}
    /\ UNCHANGED <<noted, edges, purged, qvars>>
Purge(d) ==
    /\ d \in stored /\ purged < MaxPurges
    /\ purged' = purged + 1
    /\ stored' = stored \ {d}
    /\ reading' = IF reading = None THEN None ELSE [reading EXCEPT !.was = @ \ {d}]
    /\ UNCHANGED <<noted, roster, edges, question, answer, asked>>

\* entity_edges: consolidation links a note it wrote to what the note mentions.
Learn(n) ==
    /\ n \notin noted
    /\ noted' = noted \cup {n}
    /\ edges' = edges \cup (IF n.human THEN {} ELSE {<<n.id, e>> : e \in n.entities})
    /\ UNCHANGED <<stored, roster, purged, qvars>>
Forget(n) ==
    /\ n \in noted /\ purged < MaxPurges
    /\ noted' = noted \ {n} /\ purged' = purged + 1
    /\ UNCHANGED <<stored, roster, edges, qvars>>

-----------------------------------------------------------------------------
\* The founder's query

Contributors(S) == {d.actor : d \in S}
Cell(S, d) == {e \in S : e.project = d.project /\ e.outcome = d.outcome}
Of3(S, k, v) == {d \in S : d[k] = v}

\* _rollup: counts of the groups enough people are in, and the cells that may be read.
Groups(S, k) ==
    {v \in {d[k] : d \in S} : Cardinality(Contributors(Of3(S, k, v))) >= K_ANON_FLOOR}

\* Mutant of kept_cells: each dimension on its own.
kept_cells_Apart(S) ==
    {d \in S : d.project \in Groups(S, "project") /\ d.outcome \in Groups(S, "outcome")}

kept_cells(S) == {d \in S : Cardinality(Contributors(Cell(S, d))) >= K_ANON_FLOOR}

\* _resolve_actor leaves a name alone that fits nobody, or several people; an individual
\* the roster then does not know is no restriction.
ResolvedActor(org, spec, named) ==
    IF named /\ spec.actor \notin list_actors(org) THEN [spec EXCEPT !.actor = None] ELSE spec

\* run_query up to the model: what it may be shown, or nothing.
run_query(org, spec, named) ==
    LET S == query_compactions(org, ResolvedActor(org, spec, named), All)
        visible == IF named THEN S ELSE kept_cells(S)
        Enough(T) == named \/ Cardinality(Contributors(T)) >= K_ANON_FLOOR
    IN  [matched |-> S,
         rollup |-> IF Enough(S) THEN Groups(S, "project") \cup Groups(S, "outcome") ELSE {},
         visible |-> IF Enough(S) /\ Enough(visible) THEN visible ELSE {}]

\* build_weekly_digest asks its questions of the last week, and never of individuals.
digest_sections(org) == {run_query(org, [spec EXCEPT !.since = Now - 7, !.until = Now], FALSE) : spec \in Specs}

\* The console's session list and detail: a name only where the org's privacy is open.
SESSION_LIMIT == 300
Card(d, named) ==
    [id |-> d.id, project |-> d.project, outcome |-> d.outcome, actor |-> IF named THEN d.actor ELSE None]
console_sessions(org, f, named) == {Card(d, named) : d \in query_compactions(org, f, SESSION_LIMIT)}
session_detail(org, id, named) == {Card(d, named) : d \in get_compaction(id, org)}

-----------------------------------------------------------------------------
\* Citations

\* _match_citations: a cited piece counts when exactly one shown id begins with it.
_match_citations(pieces, ids) ==
    UNION {{id \in ids : {x \in ids : x \in piece} = {id}} : piece \in pieces}

\* A piece, as the ids it begins: one id, all of them, or one made up.
PiecesOver(ids) == {{id} : id \in ids} \cup {ids, {}}

-----------------------------------------------------------------------------
\* The founder's query, with the model's answer; one that cites nothing shown is withheld

Query(org, spec, named) ==
    /\ asked < MaxQuestions
    /\ asked' = asked + 1
    /\ LET result == run_query(org, spec, named)
           ids == {d.id : d \in result.visible}
       IN  \E piece \in PiecesOver(ids) :
             LET cited == _match_citations({piece}, ids)
             IN  answer' = [given |-> cited # {}, cites |-> cited, org |-> org, named |-> named,
                            matched |-> result.matched, rollup |-> result.rollup]
    /\ UNCHANGED <<question, reading, pagevars>>

-----------------------------------------------------------------------------
\* The wiki's ask, one read after the other

Asking(org, spec, mentioned) ==
    /\ question = Silent /\ asked < MaxQuestions
    /\ asked' = asked + 1
    /\ question' = [step |-> "notes", org |-> org, spec |-> ResolvedActor(org, spec, TRUE),
                    mentioned |-> mentioned \cap list_actors(org)]
    /\ UNCHANGED <<answer, reading, pagevars>>

\* The best notes of the project, those that fit the question if any do.
ReadNotes ==
    /\ question.step = "notes"
    /\ LET pool == query_notes(question.org, None, question.spec.project)
       IN \E relevant \in {{}, pool} :
            question' = [step |-> "activity", org |-> question.org, spec |-> question.spec,
                         mentioned |-> question.mentioned, notes |-> pool,
                         drilled |-> \/ Cardinality(relevant) < NOTES_SUFFICIENT
                                     \/ question.mentioned # {}]
    /\ UNCHANGED <<answer, reading, asked, pagevars>>

\* Live activity of the last two weeks, whatever the notes say.
ReadActivity ==
    LET q == question
        recent == query_compactions(q.org, [Since(14) EXCEPT !.actor = q.spec.actor, !.project = q.spec.project], All)
    IN  /\ q.step = "activity"
        /\ question' = [step |-> "drill", org |-> q.org, spec |-> q.spec, mentioned |-> q.mentioned,
                        notes |-> q.notes, drilled |-> q.drilled, activity |-> activity_rollup(recent)]
        /\ UNCHANGED <<answer, reading, asked, pagevars>>

\* The sessions to rank: those the filter matches, and the latest of everyone named.
Candidates(q) ==
    LET start == IF q.spec.since = None THEN Now - 14 ELSE q.spec.since
    IN  query_compactions(q.org, q.spec, All) \cup
        UNION {query_compactions(q.org, [Of(who) EXCEPT !.since = start], PER_ACTOR_DRILL) : who \in q.mentioned}

\* Ranking keeps any DRILL_K of them.
Drill ==
    LET q == question
        ranked == IF q.drilled THEN Candidates(q) ELSE {}
    IN  /\ q.step = "drill"
        /\ \E S \in kSubset(Min({DRILL_K, Cardinality(ranked)}), ranked) :
             IF q.notes = {} /\ S = {} /\ q.activity = {}
             THEN question' = Silent /\ answer' = InsufficientData
             ELSE /\ question' = [step |-> "model", org |-> q.org, mentioned |-> q.mentioned, spec |-> q.spec,
                                  notes |-> q.notes, sessions |-> S, drilled |-> q.drilled]
                  /\ UNCHANGED answer
        /\ UNCHANGED <<reading, asked, pagevars>>

Shown(q) == {n.id : n \in q.notes} \cup {d.id : d \in q.sessions}

\* The model answers with citations of its own; one that cites nothing it was shown is
\* withheld, and so is one whose call failed.
Answer ==
    LET q == question
    IN  /\ q.step = "model"
        /\ \E piece \in PiecesOver(Shown(q)) :
             LET cited == _match_citations({piece}, Shown(q))
             IN  answer' = IF cited = {} THEN InsufficientData
                           ELSE [given |-> TRUE, cites |-> cited, org |-> q.org, named |-> TRUE,
                                 matched |-> q.sessions, rollup |-> {}]
        /\ question' = Silent
        /\ UNCHANGED <<reading, asked, pagevars>>

\* wiki_ask shows the cited rows that are still there.
resolved(a) ==
    UNION {get_note(id, a.org) : id \in a.cites} \cup UNION {get_compaction(id, a.org) : id \in a.cites}

-----------------------------------------------------------------------------
\* Turning the pages of the session list

\* A reader keeps asking for the page until the cursor of the last, and stops where a
\* page offers none.  "was" is what there was to read when the list was opened, less
\* what was purged since.
OpenSessions(org, f) ==
    /\ reading = None /\ asked < MaxQuestions
    /\ asked' = asked + 1
    /\ reading' = [org |-> org, f |-> f, page |-> wiki_sessions([org |-> org], org, f), seen |-> {},
                   was |-> _readable(query_compactions(org, f, All))]
    /\ UNCHANGED <<question, answer, pagevars>>

TurnPage ==
    /\ reading # None /\ reading.page.next_cursor # None
    /\ LET r == reading
           seen == r.seen \cup r.page.items
           next == wiki_sessions([org |-> r.org], r.org, [r.f EXCEPT !.until = r.page.next_cursor])
       IN  reading' = [r EXCEPT !.page = next, !.seen = seen]
    /\ UNCHANGED <<question, answer, asked, pagevars>>

CloseSessions == reading # None /\ reading' = None /\ UNCHANGED <<question, answer, asked, pagevars>>

QuestionsNext ==
    \/ \E d \in Digests : Sync(d) \/ Purge(d)
    \/ \E n \in NoteRows : Learn(n) \/ Forget(n)
    \/ \E org \in Orgs, spec \in Specs, named \in BOOLEAN : Query(org, spec, named)
    \/ \E org \in Orgs, spec \in Specs, mentioned \in Mentions : Asking(org, spec, mentioned)
    \/ ReadNotes \/ ReadActivity \/ Drill \/ Answer
    \/ \E org \in Orgs, spec \in Specs : OpenSessions(org, spec)
    \/ TurnPage \/ CloseSessions
QuestionsSpec == QuestionsInit /\ [][QuestionsNext]_<<pagevars, qvars>>

-----------------------------------------------------------------------------
\* Properties

\* Everybody with a session is in the roster, and the people page shows each of them
\* once, as active or as quiet.
RosterPartitioned ==
    \A org \in Orgs :
        LET page == wiki_people([org |-> org], org)
            active == {a.actor : a \in page.active}
        IN  /\ active \cap page.quiet = {}
            /\ active \cup page.quiet = list_actors(org)

\* Every name the home page shows leads to a page that knows the same work: as many
\* sessions or more, and the same people.
HomeLinksWork ==
    \A org \in Orgs :
        LET home == wiki_home([org |-> org], org)
        IN  /\ \A p \in home.projects :
                 \E r \in project_page(org, p.row.project).rollup :
                    /\ r.project = p.row.project /\ r.sessions >= p.row.sessions
                    /\ p.row.actors \subseteq r.actors
            /\ \A a \in home.people :
                 \E r \in wiki_person([org |-> org], org, a.actor).page.activity :
                    /\ r.sessions >= a.sessions /\ a.projects \subseteq r.projects
            /\ \A d \in home.stream : wiki_session([org |-> org], org, d.id) # {}

\* A person's page accounts for every session of theirs worth reading, unless they have
\* more than it scans: in the block of its project, which counts those that wait for a
\* summary and shows the others, or as many as fit, or else unfiled.
AccountsFor(org, actor, mine) ==
    LET page == person_page(org, actor)
        real == {d \in _readable(mine) : is_real_project(d.project)}
        Under(p) == {d \in real : d.project = p.project}
    IN  /\ {p.project : p \in page.projects} = {d.project : d \in real}
        /\ \A p \in page.projects :
             /\ p.pending = Cardinality(Waiting(Under(p))) /\ p.sessions \subseteq Summarised(Under(p))
             /\ p.sessions = Summarised(Under(p)) \/ Cardinality(p.sessions) >= PERSON_SESSIONS_PER_PROJECT
        /\ page.unfiled \cap UNION {p.sessions : p \in page.projects} = {}
PersonAccounted ==
    \A org \in Orgs : \A a \in list_actors(org) :
        LET mine == {d \in stored : d.org = org /\ d.actor = a}
        IN  Cardinality(mine) <= PERSON_SCAN_LIMIT => AccountsFor(org, a, mine)

\* Being related is mutual between people who both have sessions, and so are neighbours.
TiesMutual ==
    \A org \in Orgs :
        LET S == _graph_window(org)
            N == query_notes(org, None, None)
        IN  /\ \A a, b \in {d.actor : d \in S} : Tie(S, N, a, b) = Tie(S, N, b, a)
            /\ \A p, q \in {d.project : d \in S} \ {""} :
                 \A e \in project_neighbors(S, p) :
                    e.project = q => \E f \in project_neighbors(S, q) : f.project = p /\ f.weight = e.weight

\* Nothing of another organisation is shown, whatever is asked for.
OneOrg ==
    \A mine, other \in Orgs :
        LET me == [org |-> mine]
            links == UNION {wiki_session(me, other, d.id) : d \in Digests}
            notes == UNION {wiki_note(me, other, n.id) : n \in NoteRows}
        IN  /\ \A l \in links : {d.org : d \in {l.session} \cup l.links.same_actor \cup l.links.same_project} = {mine}
            /\ \A n \in notes : n.note.org = mine /\ \A d \in n.evidence \cup n.disputed : d.org = mine
            /\ \A e \in {e[2] : e \in edges} : \A n \in wiki_entity(me, other, e) : n.org = mine

\* The pages of an organisation agree with each other.
PagesAgree == RosterPartitioned /\ HomeLinksWork /\ PersonAccounted /\ TiesMutual /\ OneOrg

\* What a question that names nobody may cite or count: each cited session is one of
\* enough people's with its project and its outcome, and each counted group is of enough.
KAnonymous ==
    answer # None /\ answer.given /\ ~answer.named =>
        /\ \A d \in answer.matched :
             d.id \in answer.cites => Cardinality(Contributors(Cell(answer.matched, d))) >= K_ANON_FLOOR
        /\ \A v \in answer.rollup :
             \E k \in {"project", "outcome"} :
                Cardinality(Contributors(Of3(answer.matched, k, v))) >= K_ANON_FLOOR

\* Somebody a question names, who has sessions in its window, is among the sessions it
\* ranks, however good the notes are; and is read when ranking need leave none out.
NamedAreRead ==
    LET q == question
        since == IF q.spec.since = None THEN Now - 14 ELSE q.spec.since
    IN  q.step = "drill" =>
            \A who \in q.mentioned :
                query_compactions(q.org, [Of(who) EXCEPT !.since = since], All) # {} =>
                    q.drilled /\ who \in Contributors(Candidates(q))

\* Turning pages skips nothing: what the list held when it was opened and holds still is
\* seen, or is older than the cursor.
PagesNeverSkip ==
    reading # None /\ reading.page.next_cursor # None =>
        \A d \in reading.was : d \in reading.seen \cup reading.page.items \/ d.at < reading.page.next_cursor

\* Nobody who should be shown is lost: neither a person a question names nor a
\* session a reader pages through.
ReadersSeeAll == NamedAreRead /\ PagesNeverSkip
=============================================================================
