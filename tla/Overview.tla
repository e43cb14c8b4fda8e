------------------------------ MODULE Overview -------------------------------
(***************************************************************************)
(* The project overview pass: every project with enough sessions gets one  *)
(* article, written by a model from its sessions and the article before,   *)
(* again only when the set of its sessions has changed.  A project a       *)
(* person has described is left alone; one the model fails on too often    *)
(* is given up until an admin asks for a retry.  The state rows are read   *)
(* once, when a pass starts; the article is read before the call that      *)
(* replaces it.  No project has more than overview_session_limit sessions. *)
(***************************************************************************)
EXTENDS Notes

CONSTANTS
    OLoop,         \* the background overview loop
    OAdmins,       \* POST /v1/admin/overview/run
    MinSessions,   \* overview_min_sessions
    OMaxAttempts,  \* overview_max_attempts
    OMaxPerPass    \* overview_max_per_pass

ASSUME OverviewAssumption ==
    /\ OLoop \notin OAdmins
    /\ MinSessions \in Nat \ {0} /\ OMaxAttempts \in Nat \ {0} /\ OMaxPerPass \in Nat \ {0}

OPasses == {OLoop} \cup OAdmins

VARIABLES
    ostate,  \* project_overview_state rows
    opass    \* what each pass is doing

ovars == <<ostate, opass>>

\* contributors: the sessions whose hash is recorded.
OState == [state : {"none", "failed", "done", "human_held", "insufficient", "abandoned"},
           contributors : SUBSET Digest, attempts : Nat]
NoOState == [state |-> "none", contributors |-> {}, attempts |-> 0]
Settled == {"done", "human_held", "insufficient"}

\* todo: projects left; seen: the state rows as read; comps: the sessions fed to the
\* model; prior: the article it was shown; stood: whether that one was established.
OPass == [pc : {"next"}, todo : SUBSET Projects, seen : [Projects -> OState], written : Nat]
         \cup [pc : {"abandon", "hold", "call", "failed", "settle"}, todo : SUBSET Projects,
               seen : [Projects -> OState], written : Nat, project : Projects,
               comps : SUBSET Digest, prior : NoteId \cup {None}, stood : BOOLEAN]
         \cup [pc : {"write", "mark"}, todo : SUBSET Projects, seen : [Projects -> OState],
               written : Nat, project : Projects, comps : SUBSET Digest,
               prior : NoteId \cup {None}, stood : BOOLEAN, id : NoteId, article : Note]
OIdle == [pc |-> "idle"]

OverviewTypeOK ==
    /\ ostate \in [Projects -> OState]
    /\ \A p \in OPasses : opass[p].pc \in {"idle", "next", "abandon", "hold", "call", "failed",
                                           "settle", "write", "mark"}

OverviewInit ==
    /\ ostate = [q \in Projects |-> NoOState]
    /\ opass = [p \in OPasses |-> OIdle]

Contributing(project) == {d \in released : d.project = project}

\* Only an established article hands its standing on to the next one.
Article(project, comps, prior, stood, id) ==
    [kind |-> "article", project |-> project, text |-> id, source |-> "ai",
     status |-> IF stood THEN "established" ELSE "candidate",
     evidence |-> comps, disputed |-> {}, actors |-> {d.actor : d \in comps},
     prev |-> prior, next |-> None]

-----------------------------------------------------------------------------
OAt(p, label) == opass[p].pc = label
OBecome(p, j) == opass' = [opass EXCEPT ![p] = j]
OLoops(p, wrote) ==
    OBecome(p, [pc |-> "next", todo |-> opass[p].todo, seen |-> opass[p].seen,
                written |-> opass[p].written + wrote])
OGoto(p, label) == OBecome(p, [opass[p] EXCEPT !.pc = label])

OBegin(p) ==
    /\ OAt(p, "idle")
    /\ OBecome(p, [pc |-> "next", todo |-> {d.project : d \in released},
                   seen |-> ostate, written |-> 0])
    /\ UNCHANGED <<released, notes, ostate>>

OEnd(p) ==
    /\ OAt(p, "next")
    /\ opass[p].todo = {} \/ opass[p].written >= OMaxPerPass
    /\ OBecome(p, OIdle)
    /\ UNCHANGED <<released, notes, ostate>>

Unchanged(st, comps) == st.state \in Settled /\ st.contributors = comps

\* Mutant of HumanHeld: the article is not asked who wrote it.
HumanHeld_Not(prior) == FALSE

HumanHeld(prior) == prior # None /\ note[prior].source = "human"

\* Mutant of Outlook: new sessions revive a project that was given up.
Outlook_Revives(st, comps, prior) ==
    IF \/ Cardinality(comps) < MinSessions \/ Unchanged(st, comps)
       \/ st.state = "abandoned" /\ st.contributors = comps THEN "next"
    ELSE IF st.state = "failed" /\ st.attempts >= OMaxAttempts THEN "abandon"
    ELSE IF HumanHeld(prior) THEN "hold"
    ELSE "call"

\* Where the next project goes: past the pass, to a write, or to the model.
Outlook(st, comps, prior) ==
    IF Cardinality(comps) < MinSessions \/ st.state = "abandoned" \/ Unchanged(st, comps) THEN "next"
    ELSE IF st.state = "failed" /\ st.attempts >= OMaxAttempts THEN "abandon"
    ELSE IF HumanHeld(prior) THEN "hold"
    ELSE "call"

OLook(p) ==
    /\ OAt(p, "next") /\ opass[p].written < OMaxPerPass
    /\ \E project \in opass[p].todo :
          LET comps == Contributing(project)
              prior == CurrentOverview(project)
              label == Outlook(opass[p].seen[project], comps, prior)
              todo == opass[p].todo \ {project}
          IN IF label = "next"
             THEN OBecome(p, [opass[p] EXCEPT !.todo = todo])
             ELSE OBecome(p, [pc |-> label, todo |-> todo, seen |-> opass[p].seen,
                              written |-> opass[p].written, project |-> project,
                              comps |-> comps, prior |-> prior,
                              stood |-> prior # None /\ note[prior].status = "established"])
    /\ UNCHANGED <<released, notes, ostate>>

\* mark_overview_abandoned keeps the hash and the attempts.
OAbandon(p) ==
    /\ OAt(p, "abandon")
    /\ ostate' = [ostate EXCEPT ![opass[p].project].state = "abandoned"]
    /\ OLoops(p, 0)
    /\ UNCHANGED <<released, notes>>

\* Mutant of MarkDone: the sessions are looked up again after the call.
MarkDone_Late(p, state) ==
    ostate' = [ostate EXCEPT ![opass[p].project] =
                  [state |-> state, contributors |-> Contributing(opass[p].project), attempts |-> 0]]

\* mark_overview_done: the sessions the article was written from.
MarkDone(p, state) ==
    ostate' = [ostate EXCEPT ![opass[p].project] =
                  [state |-> state, contributors |-> opass[p].comps, attempts |-> 0]]

OHold(p) ==
    /\ OAt(p, "hold")
    /\ MarkDone(p, "human_held")
    /\ OLoops(p, 0)
    /\ UNCHANGED <<released, notes>>

OQuota(p) ==
    /\ OAt(p, "call")
    /\ OBecome(p, OIdle)
    /\ UNCHANGED <<released, notes, ostate>>

\* The call fails or its answer cannot be used; or the model finds the work too thin.
OCallFails(p) ==
    /\ OAt(p, "call")
    /\ OGoto(p, "failed")
    /\ UNCHANGED <<released, notes, ostate>>

OTooThin(p) ==
    /\ OAt(p, "call")
    /\ OGoto(p, "settle")
    /\ UNCHANGED <<released, notes, ostate>>

\* Mutant of ORecordFailure: the attempts are not counted.
ORecordFailure_Uncounted(p) ==
    /\ OAt(p, "failed")
    /\ ostate' = [ostate EXCEPT ![opass[p].project].state = "failed"]
    /\ OLoops(p, 0)
    /\ UNCHANGED <<released, notes>>

\* record_overview_failure keeps the hash.
ORecordFailure(p) ==
    /\ OAt(p, "failed")
    /\ LET q == opass[p].project
       IN ostate' = [ostate EXCEPT ![q] = [state |-> "failed",
             contributors |-> ostate[q].contributors, attempts |-> ostate[q].attempts + 1]]
    /\ OLoops(p, 0)
    /\ UNCHANGED <<released, notes>>

OSettle(p) ==
    /\ OAt(p, "settle")
    /\ MarkDone(p, "insufficient")
    /\ OLoops(p, 0)
    /\ UNCHANGED <<released, notes>>

OAnswer(p) ==
    /\ OAt(p, "call")
    /\ minted < MaxNotes
    /\ minted' = minted + 1
    /\ LET j == opass[p]
       IN OBecome(p, [pc |-> "write", todo |-> j.todo, seen |-> j.seen, written |-> j.written,
                      project |-> j.project, comps |-> j.comps, prior |-> j.prior, stood |-> j.stood,
                      id |-> minted + 1,
                      article |-> Article(j.project, j.comps, j.prior, j.stood, minted + 1)])
    /\ UNCHANGED <<released, note, recent, ostate>>

\* A first article is inserted, a later one retires the one it was written from.
OWrite(p) ==
    /\ OAt(p, "write")
    /\ LET j == opass[p]
       IN IF j.prior = None THEN UpsertNote(j.id, j.article)
          ELSE SupersedeNote(j.prior, j.id, j.article)
    /\ OGoto(p, "mark")
    /\ UNCHANGED <<released, minted, ostate>>

OMark(p) ==
    /\ OAt(p, "mark")
    /\ MarkDone(p, "done")
    /\ OLoops(p, 1)
    /\ UNCHANGED <<released, notes>>

\* POST /v1/admin/overview/retry forgets what the pass decided.
ORetry(project) ==
    /\ ostate[project] # NoOState
    /\ ostate' = [ostate EXCEPT ![project] = NoOState]
    /\ UNCHANGED <<released, notes, opass>>

OCrash(p) ==
    /\ ~OAt(p, "idle")
    /\ OBecome(p, OIdle)
    /\ UNCHANGED <<released, notes, ostate>>

Overviewing(p) ==
    \/ OEnd(p) \/ OLook(p) \/ OAbandon(p) \/ OHold(p) \/ OQuota(p) \/ OCallFails(p) \/ OTooThin(p)
    \/ ORecordFailure(p) \/ OSettle(p) \/ OAnswer(p) \/ OWrite(p) \/ OMark(p)

\* What the page of a project without an article tells its readers.
ArticleOutlook(project) ==
    LET comps == Contributing(project)
        st == ostate[project]
    IN IF Cardinality(comps) < MinSessions THEN "no_sessions"
       ELSE IF st.state = "abandoned" \/ (st.state = "failed" /\ st.attempts >= OMaxAttempts) THEN "failed"
       ELSE IF st.state = "insufficient" /\ st.contributors = comps THEN "too_thin"
       ELSE "coming"

=============================================================================
