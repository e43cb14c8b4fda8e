--------------------------------- MODULE Desk --------------------------------
(***************************************************************************)
(* What runs on the engineer's own machine beside the release pipeline:    *)
(* the actions dispatched when a session closes, behind their consent,     *)
(* personal-mode and cooldown gates; the daily update check and its cache  *)
(* file; the local questions and the local purge filter.                   *)
(***************************************************************************)
EXTENDS Common, Integers, FiniteSets, Sequences, FiniteSetsExt, SequencesExt

CONSTANTS
    Sessions,      \* session ids
    Content,       \* [Sessions -> [tools, errors, refs, digest, near]]
    Dispatchers,   \* processes that dispatch: the watcher, a CLI command
    Registered,    \* [Dispatchers -> sequence of actions]
    Cooldown,      \* [action -> seconds or None]; the built-in actions declare none
    Threshold,     \* loops.DEFAULT_THRESHOLD
    MaxEvents, MaxClock,
    MaxVersion,    \* releases are numbered 1..MaxVersion
    CHECK_INTERVAL,
    Local,         \* digests: [id, project, outcome, source, at, files, marker, shaped, names]
    Asked,         \* [project, outcome, since] filters a question may parse into
    AnswerK       \* digests an answer is given from

Handlers == {"auto_tag_sessions", "loop_warning", "prior_work"}

\* A dispatcher has some handlers; a cooldown of no seconds is no cooldown.
ASSUME DeskAssumption ==
    /\ MaxEvents \in Nat /\ MaxClock \in Nat /\ MaxVersion \in Nat /\ CHECK_INTERVAL \in Nat \ {0}
    /\ Threshold \in Nat /\ AnswerK \in Nat /\ None \notin Nat
    /\ None \notin {"session_unresolved", "personal_mode_excluded", "consent_opt_out", "cooldown"}
    /\ Registered \in [Dispatchers -> Seq(Handlers) \ {<<>>}]
    /\ Cooldown \in [Handlers -> (Nat \ {0}) \cup {None}]
    /\ IsFiniteSet(Local)

VARIABLES
    sessions,   \* [Sessions -> [mode, tags]]
    consent,    \* [action -> "opt_in", "opt_out" or None]
    audit, dispatch, clock, events,
    wanted,     \* history: the mode the engineer last chose
    raced       \* history: sessions whose mode was set inside a tag write
dvars == <<sessions, consent, audit, dispatch, clock, events, wanted, raced>>

VARIABLES installed, published, cache, tmp, checker, quiet, day,
          seen      \* history: versions any source ever announced
uvars == <<installed, published, cache, tmp, checker, quiet, day, seen>>

VARIABLES local, insight   \* the digests of the local store; the last answer
ivars == <<local, insight>>
NoDispatch == [pc |-> "idle", session |-> None, mode |-> None, at |-> 0, start |-> 0, i |-> 0,
               row |-> None, result |-> None]

DeskInit ==
    /\ sessions = [s \in Sessions |-> [mode |-> "work", tags |-> None]]
    /\ consent = [a \in Handlers |-> None] /\ audit = <<>>
    /\ dispatch = [d \in Dispatchers |-> NoDispatch] /\ clock = 0 /\ events = 0
    /\ wanted = [s \in Sessions |-> "work"] /\ raced = {}
UpdateInit ==
    /\ installed \in {None, 1} /\ published = [server |-> None, github |-> 1] /\ cache = None /\ tmp = None
    /\ checker = [d \in Dispatchers |-> [pc |-> "idle", latest |-> None]] /\ quiet = FALSE /\ day = 0
    /\ seen = {1}
InsightInit == local = Local /\ insight = None

(***************************************************************************)
(* Handlers.                                                               *)
(***************************************************************************)
_task_type(tools) ==
    IF tools \cap {"Edit", "Write", "NotebookEdit"} # {} THEN "implementation"
    ELSE IF "Bash" \in tools THEN "ops"
    ELSE IF tools # {} THEN "exploration" ELSE "conversation"
compute_tags(s) == [task_type |-> _task_type(Content[s].tools), outcome |-> Content[s].digest]
\* Repeated failures of one tool, or a friction entry that says loop or retry.
detect_loops(s) ==
    {tool \in DOMAIN Content[s].errors : Content[s].errors[tool] >= Threshold}
    \cup IF Content[s].refs >= Threshold THEN {"friction"} ELSE {}
\* Nothing without the session's own digest; an embedding failure finds nothing.
find_prior_work(s) == IF Content[s].digest = None THEN {} ELSE Content[s].near \ {s}

Fired(condition) == [outcome |-> "fired", condition |-> condition]
Suppressed(condition) == [outcome |-> "suppressed", condition |-> condition]
AutoTag(s) == Fired("session_closed")
LoopWarning(s) == IF detect_loops(s) = {} THEN Suppressed("no_loop") ELSE Fired("loop_detected")
PriorWork(s) == IF find_prior_work(s) = {} THEN Suppressed("no_relevant_prior") ELSE Fired("prior_work_found")
Result(action, s) ==
    CASE action = "auto_tag_sessions" -> AutoTag(s)
      [] action = "loop_warning" -> LoopWarning(s)
      [] action = "prior_work" -> PriorWork(s)

(***************************************************************************)
(* Dispatching.                                                            *)
(***************************************************************************)
Put(d, j) == dispatch' = [dispatch EXCEPT ![d] = j]
Action(d) == Registered[d][dispatch[d].i]
Fires(a) == {k \in DOMAIN audit : audit[k].action = a /\ audit[k].outcome = "fired"}
last_fired_at(a) == IF Fires(a) = {} THEN None ELSE Max({audit[k].at : k \in Fires(a)})

\* The session is read once, before the first handler; "now" is fixed here too.
Dispatch(d) ==
    /\ dispatch[d].pc = "idle" /\ events < MaxEvents /\ events' = events + 1
    /\ \E s \in Sessions \cup {None} :
         Put(d, [pc |-> "gate", session |-> s, mode |-> IF s = None THEN None ELSE sessions[s].mode,
                 at |-> clock, start |-> Len(audit), i |-> 1, row |-> None, result |-> None])
    /\ UNCHANGED <<sessions, consent, audit, clock, wanted, raced>>

Refusal(d) ==
    LET j == dispatch[d] a == Action(d) last == last_fired_at(Action(d)) IN
    IF j.session = None THEN "session_unresolved"
    ELSE IF j.mode = "personal" THEN "personal_mode_excluded"
    ELSE IF consent[a] = "opt_out" THEN "consent_opt_out"
    ELSE IF Cooldown[a] # None /\ last # None /\ j.at - last < Cooldown[a] THEN "cooldown"
    ELSE None

Gate(d) ==
    /\ dispatch[d].pc = "gate"
    /\ IF Refusal(d) # None
       THEN Put(d, [dispatch[d] EXCEPT !.pc = "log", !.result = Suppressed(Refusal(d))])
       ELSE Put(d, [dispatch[d] EXCEPT !.pc = "run"])
    /\ UNCHANGED <<sessions, consent, audit, clock, events, wanted, raced>>

\* A handler answers, raises (logged as failed), or, for the tags, reads the row.
Run(d) ==
    LET j == dispatch[d] IN
    /\ j.pc = "run"
    /\ \/ /\ Action(d) # "auto_tag_sessions"
          /\ Put(d, [j EXCEPT !.pc = "log", !.result = Result(Action(d), j.session)])
       \/ /\ Action(d) = "auto_tag_sessions"
          /\ Put(d, [j EXCEPT !.pc = "tag", !.row = sessions[j.session]])
       \/ Put(d, [j EXCEPT !.pc = "log", !.result = [outcome |-> "failed", condition |-> "error"]])
    /\ UNCHANGED <<sessions, consent, audit, clock, events, wanted, raced>>
\* update_session_tags writes back the whole row it read, tags replaced.
update_session_tags(d) ==
    LET j == dispatch[d] IN
    /\ j.pc = "tag"
    /\ sessions' = [sessions EXCEPT ![j.session] = [j.row EXCEPT !.tags = compute_tags(j.session)]]
    /\ Put(d, [j EXCEPT !.pc = "log", !.result = AutoTag(j.session), !.row = None])
    /\ UNCHANGED <<consent, audit, clock, events, wanted, raced>>

\* Every outcome, refusals included, is an audit entry dated "now".
_log(d) ==
    LET j == dispatch[d] IN
    /\ j.pc = "log"
    /\ audit' = Append(audit, [action |-> Action(d), session |-> j.session, at |-> j.at, start |-> j.start,
                               outcome |-> j.result.outcome, condition |-> j.result.condition])
    /\ Put(d, IF j.i = Len(Registered[d]) THEN NoDispatch ELSE [j EXCEPT !.pc = "gate", !.i = @ + 1, !.result = None])
    /\ UNCHANGED <<sessions, consent, clock, events, wanted, raced>>

set_mode ==
    /\ events < MaxEvents /\ events' = events + 1
    /\ \E s \in Sessions, m \in {"work", "personal"} :
         /\ sessions' = [sessions EXCEPT ![s].mode = m] /\ wanted' = [wanted EXCEPT ![s] = m]
         /\ raced' = IF \E d \in Dispatchers : dispatch[d].pc = "tag" /\ dispatch[d].session = s
                     THEN raced \cup {s} ELSE raced
    /\ UNCHANGED <<consent, audit, dispatch, clock>>
\* The engineer's choice is dated by the audit entries before it.
set_consent ==
    /\ events < MaxEvents /\ events' = events + 1
    /\ \E a \in UNION {ToSet(Registered[d]) : d \in Dispatchers} : consent' = [consent EXCEPT ![a] = "opt_out"]
    /\ UNCHANGED <<sessions, audit, dispatch, clock, wanted, raced>>
ClockTick ==
    /\ clock < MaxClock /\ clock' = clock + 1
    /\ UNCHANGED <<sessions, consent, audit, dispatch, events, wanted, raced>>

DeskNext ==
    \/ \E d \in Dispatchers : Dispatch(d) \/ Gate(d) \/ Run(d) \/ update_session_tags(d) \/ _log(d)
    \/ set_mode \/ set_consent \/ ClockTick

(***************************************************************************)
(* The update check.                                                       *)
(***************************************************************************)
is_newer(current, latest) == IF None \in {current, latest} THEN FALSE ELSE latest > current
Torn == [at |-> 0, latest |-> 0]  \* a file cut short
\* An unreadable cache is no cache.
read_cache == IF cache = Torn THEN None ELSE cache
should_check == IF read_cache = None THEN TRUE ELSE day - read_cache.at >= CHECK_INTERVAL
notifier_enabled == ~quiet
fetch_latest == IF published.server # None THEN published.server ELSE published.github
notice ==
    IF read_cache = None THEN None
    ELSE IF is_newer(installed, read_cache.latest) THEN read_cache.latest ELSE None
maybe_notify == IF notifier_enabled THEN notice ELSE None
Check(d, c) == checker' = [checker EXCEPT ![d] = c]

\* A command that ends spawns a detached child; the watcher refreshes by itself.
maybe_spawn_check(d) ==
    /\ checker[d].pc = "idle" /\ notifier_enabled /\ should_check
    /\ Check(d, [pc |-> "fetch", latest |-> None])
    /\ UNCHANGED <<installed, published, cache, tmp, quiet, day, seen>>
\* Server first, then GitHub; the network may fail.
refresh(d) ==
    /\ checker[d].pc = "fetch"
    /\ \/ Check(d, [pc |-> "idle", latest |-> None])
       \/ fetch_latest # None /\ Check(d, [pc |-> "open", latest |-> fetch_latest])
    /\ UNCHANGED <<installed, published, cache, tmp, quiet, day, seen>>
\* write_cache: one name for the temporary file of every process. Opening it
\* truncates what another process may still be writing; a file moved away under
\* its writer is completed where it went.
OpenTmp(d) ==
    /\ checker[d].pc = "open" /\ tmp' = Torn /\ Check(d, [checker[d] EXCEPT !.pc = "write"])
    /\ UNCHANGED <<installed, published, cache, quiet, day, seen>>
WriteTmp(d) ==
    /\ checker[d].pc = "write" /\ Check(d, [checker[d] EXCEPT !.pc = "replace"])
    /\ LET text == [at |-> day, latest |-> checker[d].latest] IN
         /\ tmp' = IF tmp = None THEN None ELSE text
         /\ cache' = IF tmp = None /\ cache = Torn THEN text ELSE cache
    /\ UNCHANGED <<installed, published, quiet, day, seen>>
\* os.replace: atomic; nothing to move is an OSError, swallowed.
write_cache(d) ==
    /\ checker[d].pc = "replace" /\ Check(d, [pc |-> "idle", latest |-> None])
    /\ cache' = (IF tmp = None THEN cache ELSE tmp) /\ tmp' = None
    /\ UNCHANGED <<installed, published, quiet, day, seen>>
Killed(d) ==
    /\ checker[d].pc # "idle" /\ Check(d, [pc |-> "idle", latest |-> None])
    /\ UNCHANGED <<installed, published, cache, tmp, quiet, day, seen>>
Publish ==
    /\ \E where \in {"server", "github"}, v \in 1..MaxVersion :
         /\ IF published[where] = None THEN TRUE ELSE v > published[where]
         /\ published' = [published EXCEPT ![where] = v] /\ seen' = seen \cup {v}
    /\ UNCHANGED <<installed, cache, tmp, checker, quiet, day>>
Upgrade ==
    /\ installed # None /\ is_newer(installed, published.github) /\ installed' = published.github
    /\ UNCHANGED <<published, cache, tmp, checker, quiet, day, seen>>
OptOut ==
    /\ quiet' = ~quiet
    /\ UNCHANGED <<installed, published, cache, tmp, checker, day, seen>>
DayTurns ==
    /\ day < MaxClock /\ day' = day + 1
    /\ UNCHANGED <<installed, published, cache, tmp, checker, quiet, seen>>

UpdateNext ==
    \/ \E d \in Dispatchers :
         maybe_spawn_check(d) \/ refresh(d) \/ OpenTmp(d) \/ WriteTmp(d) \/ write_cache(d) \/ Killed(d)
    \/ Publish \/ Upgrade \/ OptOut \/ DayTurns

(***************************************************************************)
(* Local questions and the local purge.                                    *)
(***************************************************************************)
_since_cutoff(since) == since
_within(c, cutoff) == cutoff = None \/ c.at >= cutoff
list_compactions(project, outcome) ==
    {c \in local : (project = None \/ c.project = project) /\ (outcome = None \/ c.outcome = outcome)}
structural_insights(cutoff) ==
    LET comps == {c \in local : _within(c, cutoff)}
    IN  [count |-> Cardinality(comps),
         by_outcome |-> [o \in {c.outcome : c \in comps} |-> Cardinality({c \in comps : c.outcome = o})]]
\* Ranked by similarity (any order here) and cut; a failing embedder keeps the first ones.
_index_and_rank(comps) == {T \in SUBSET comps : Cardinality(T) = Min({AnswerK, Cardinality(comps)})}
\* A citation is an id or a prefix that only one of the ids has.
_match_citations(pieces, ids) == {id \in ids : \E p \in pieces : {i \in ids : p \in i.names} = {id}}
coverage(used, matched) == [used |-> Cardinality(used), matched |-> Cardinality(matched)]

ask ==
    /\ UNCHANGED local
    /\ \E spec \in Asked, model \in BOOLEAN :
      LET comps == {c \in list_compactions(spec.project, spec.outcome) : _within(c, _since_cutoff(spec.since))} IN
      IF comps = {} THEN insight' = [spec |-> spec, cited |-> {}, grounded |-> FALSE, coverage |-> coverage({}, {})]
      ELSE \E top \in _index_and_rank(comps), pieces \in SUBSET UNION {c.names : c \in Local} :
             LET cited == IF model THEN _match_citations(pieces, top) ELSE {} IN
             insight' = [spec |-> spec, cited |-> {c.id : c \in cited}, grounded |-> cited # {},
                         coverage |-> coverage(top, comps)]
is_self_generated(c) == c.marker
_is_compaction_shaped(c) == c.shaped
\* Mutant of is_structural_junk_here: a project does not save a session.
is_structural_junk_here_Any(c) ==
    c.files = {} /\ c.outcome = "abandoned" /\ (is_self_generated(c) \/ _is_compaction_shaped(c))
is_structural_junk_here(c) ==
    /\ c.files = {} /\ c.project \in {"", "unknown"} /\ c.outcome = "abandoned"
    /\ is_self_generated(c) \/ _is_compaction_shaped(c)
\* Every criterion given narrows.
matches(c, source, self, junk) ==
    /\ source = None \/ c.source = source
    /\ self => is_self_generated(c)
    /\ junk => is_structural_junk_here(c)
\* A purge without a criterion is refused.
purge ==
    /\ \E source \in {None, "pending"}, self, junk \in BOOLEAN :
         /\ source # None \/ self \/ junk
         /\ local' = {c \in local : ~matches(c, source, self, junk)}
    /\ insight' = None
InsightNext == ask \/ purge

\* The three areas share no state and step each by itself.
DeskSpec ==
    /\ DeskInit /\ [][DeskNext]_dvars
    /\ UpdateInit /\ [][UpdateNext]_uvars
    /\ InsightInit /\ [][InsightNext]_ivars

(***************************************************************************)
(* Properties.                                                             *)
(***************************************************************************)
Entries == DOMAIN audit
\* Gates hold across processes: an action once refused for the engineer's
\* opt-out fires in no dispatch that begins later, two fires whose dispatches did not overlap are a cooldown apart, and
\* a mode the engineer set is undone by no dispatch but one that was writing
\* that very row
\* (dispatcher.py dispatch, store.py update_session_tags).
GatesKept ==
    /\ \A k \in Entries : audit[k].outcome = "fired" =>
         /\ audit[k].session # None
         /\ \A l \in 1..audit[k].start : ~ ( /\ audit[l].action = audit[k].action
                                             /\ audit[l].condition = "consent_opt_out")
    /\ \A k, l \in Entries :
         /\ audit[k].action = audit[l].action /\ audit[k].outcome = "fired" /\ audit[l].outcome = "fired"
         /\ k <= audit[l].start /\ Cooldown[audit[k].action] # None
         => audit[l].at - audit[k].at >= Cooldown[audit[k].action]
    /\ \A s \in Sessions : sessions[s].mode = wanted[s] \/ s \in raced

\* What the update notice names was published by a source and is newer than
\* what runs, whatever two checks do to their shared temporary file, and an
\* unreadable cache is always checked again (updatecheck.py).
NoticeHonest ==
    /\ maybe_notify # None => maybe_notify \in seen /\ maybe_notify > installed
    /\ cache = Torn => should_check

\* An answer cites only digests its filter admits and says how much it saw
\* (insights.py ask); no sequence of purges takes a finished digest that touched
\* a file, has a project or succeeded unless its own text carries a marker
\* (purge.py matches).
InsightGrounded ==
    /\ insight # None =>
         /\ \A id \in insight.cited : \E c \in list_compactions(insight.spec.project, insight.spec.outcome) :
                c.id = id /\ _within(c, insight.spec.since)
         /\ insight.coverage.used <= insight.coverage.matched
         /\ insight.coverage.matched <= structural_insights(insight.spec.since).count
         /\ insight.grounded <=> insight.cited # {}
    /\ \A c \in Local \ local :
         \/ c.source = "pending" \/ c.marker
         \/ c.files = {} /\ c.project \in {"", "unknown"} /\ c.outcome = "abandoned"

\* The engineer's own desk keeps its gates, its notices and its citations honest.
DeskHonest == GatesKept /\ NoticeHonest /\ InsightGrounded
=============================================================================
