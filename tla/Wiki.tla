-------------------------------- MODULE Wiki ---------------------------------
(***************************************************************************)
(* One organisation's wiki: the consolidator and the overviews write notes *)
(* from sessions while people create, edit, confirm and revert them and an *)
(* admin purges sessions.  A person's request reads the note it is about,  *)
(* then writes; a purge strips the notes in the transaction that deletes   *)
(* the rows.                                                               *)
(***************************************************************************)
EXTENDS Consolidation, Overview

CONSTANTS
    Editors,  \* request threads serving people
    Quotes,   \* TRUE: enrichment mints rationale notes
    Careful   \* TRUE: people act on live versions and describe a project once

ASSUME WikiAssumption == Quotes \in BOOLEAN /\ Careful \in BOOLEAN

VARIABLES
    editor,  \* what each request thread is doing
    purged,  \* history: digests ever purged
    spoken   \* history: versions people wrote

history == <<purged, spoken>>
vars == <<released, notes, cvars, ovars, editor, limits, history>>

\* A request that has read note id, and the text it will write.
Editor == [pc : {"edit", "confirm"}, id : NoteId, read : Note, text : NoteId \cup {None}]
EIdle == [pc |-> "idle"]

TypeOK ==
    /\ NotesTypeOK /\ ConsolidationTypeOK /\ OverviewTypeOK
    /\ editor \in [Editors -> Editor \cup {EIdle}]
    /\ purged \in SUBSET Digest /\ spoken \in SUBSET NoteId

Init ==
    /\ NotesInit /\ ConsolidationInit /\ OverviewInit
    /\ editor = [e \in Editors |-> EIdle]
    /\ purged = {} /\ spoken = {}

Quiet ==
    /\ \A p \in CPasses : cpass[p] = CIdle
    /\ \A p \in OPasses : opass[p] = OIdle
    /\ \A e \in Editors : editor[e] = EIdle

MayStart == Exclusive => Quiet

Request ==
    /\ MayStart
    /\ requests < MaxRequests
    /\ requests' = requests + 1

-----------------------------------------------------------------------------
\* Sessions come and go

\* An enriched digest is there; a note may quote it.
Arrive(d) ==
    /\ d \notin released
    /\ released' = released \cup {d}
    /\ \/ UNCHANGED notes
       \/ /\ Quotes /\ minted < MaxNotes
          /\ minted' = minted + 1
          /\ UpsertNote(minted + 1, [NewNote(d, minted + 1) EXCEPT !.kind = "quote"])
    /\ UNCHANGED <<cvars, ovars, editor, limits, history>>

\* delete_compactions, one transaction.
Purge(S) ==
    /\ Request
    /\ S # {} /\ S \subseteq released
    /\ released' = released \ S
    /\ StripNotes(S)
    /\ cstate' = [d \in Digest |-> IF d \in S THEN NoCState ELSE cstate[d]]
    /\ applied' = applied \ S
    /\ purged' = purged \cup S
    /\ UNCHANGED <<minted, cpass, ovars, editor, crashes, spoken>>

-----------------------------------------------------------------------------
\* What people do

\* The row a person leaves: their words, or words they vouch for.
Edited(v, text, id) ==
    [v EXCEPT !.text = text, !.source = "human", !.status = "established",
              !.disputed = {}, !.next = None]

Confirmed(v) == [v EXCEPT !.status = "established"]

Serve(e, r) == editor' = [editor EXCEPT ![e] = r]

\* teach.create: nothing is read first.
Create(e, kind, project) ==
    /\ editor[e] = EIdle /\ Request
    /\ Careful /\ kind = "article" => CurrentOverview(project) = None
    /\ minted < MaxNotes
    /\ minted' = minted + 1
    /\ spoken' = spoken \cup {minted + 1}
    /\ UpsertNote(minted + 1, [kind |-> kind, project |-> project, text |-> minted + 1,
          source |-> "human", status |-> "established", evidence |-> {}, disputed |-> {},
          actors |-> {}, prev |-> None, next |-> None])
    /\ UNCHANGED <<released, cvars, ovars, editor, crashes, purged>>

Reads(e, n, pc, text) ==
    /\ editor[e] = EIdle /\ Request
    /\ Exists(n) /\ (Careful => Live(n))
    /\ Serve(e, [pc |-> pc, id |-> n, read |-> note[n], text |-> text])
    /\ UNCHANGED <<released, notes, cvars, ovars, crashes, history>>

EditNote(e, n) == Reads(e, n, "edit", None)
RevertNote(e, n, target) == target \in History(n) /\ Reads(e, n, "edit", note[target].text)
ConfirmNote(e, n) == Reads(e, n, "confirm", None)

\* edit and revert write a new version of what was read, unless it is gone.
WriteVersion(e) ==
    /\ editor[e].pc = "edit" /\ Exists(editor[e].id)
    /\ minted < MaxNotes
    /\ minted' = minted + 1
    /\ spoken' = spoken \cup {minted + 1}
    /\ LET r == editor[e]
           text == IF r.text = None THEN minted + 1 ELSE r.text
       IN SupersedeNote(r.id, minted + 1, Edited(r.read, text, minted + 1))
    /\ Serve(e, EIdle)
    /\ UNCHANGED <<released, cvars, ovars, limits, purged>>

\* The row was deleted meanwhile, or the model has no note left.
VersionGone(e) ==
    /\ editor[e].pc = "edit"
    /\ ~Exists(editor[e].id) \/ minted = MaxNotes
    /\ Serve(e, EIdle)
    /\ UNCHANGED <<released, notes, cvars, ovars, limits, history>>

\* confirm writes the row back as it was read.
WriteConfirmation(e) ==
    /\ editor[e].pc = "confirm"
    /\ UpsertNote(editor[e].id, Confirmed(editor[e].read))
    /\ Serve(e, EIdle)
    /\ UNCHANGED <<released, minted, cvars, ovars, limits, history>>

-----------------------------------------------------------------------------
StartConsolidation(p) ==
    /\ IF p = CLoop THEN MayStart /\ UNCHANGED requests ELSE Request
    /\ CBegin(p)
    /\ UNCHANGED <<ovars, editor, crashes, history>>

StartOverview(p) ==
    /\ IF p = OLoop THEN MayStart /\ UNCHANGED requests ELSE Request
    /\ OBegin(p)
    /\ UNCHANGED <<cvars, editor, crashes, history>>

Consolidates(p) == Consolidating(p) /\ UNCHANGED <<ovars, editor, limits, history>>
Overviews(p) == Overviewing(p) /\ UNCHANGED <<cvars, editor, limits, history>>
RetryOverview(project) == Request /\ ORetry(project) /\ UNCHANGED <<cvars, editor, crashes, history>>

Crash ==
    /\ crashes < MaxCrashes
    /\ crashes' = crashes + 1
    /\ \/ \E p \in CPasses : CCrash(p) /\ UNCHANGED <<ovars, editor>>
       \/ \E p \in OPasses : OCrash(p) /\ UNCHANGED <<cvars, editor>>
       \/ \E e \in Editors : /\ editor[e] # EIdle /\ Serve(e, EIdle)
                             /\ UNCHANGED <<released, notes, cvars, ovars>>
    /\ UNCHANGED <<requests, history>>

Editing(e) ==
    \/ \E kind \in {"claim", "article"}, project \in Projects : Create(e, kind, project)
    \/ \E n \in NoteId : \/ EditNote(e, n) \/ ConfirmNote(e, n)
                         \/ \E target \in NoteId : RevertNote(e, n, target)
    \/ WriteVersion(e) \/ VersionGone(e) \/ WriteConfirmation(e)

Next ==
    \/ \E d \in Digest : Arrive(d)
    \/ \E S \in SUBSET released : Purge(S)
    \/ \E e \in Editors : Editing(e)
    \/ \E p \in CPasses : StartConsolidation(p) \/ Consolidates(p)
    \/ \E p \in OPasses : StartOverview(p) \/ Overviews(p)
    \/ \E project \in Projects : RetryOverview(project)
    \/ Crash

Spec == Init /\ [][Next]_vars

\* Both loops run for ever and no org is over its quota for ever.  Nothing is assumed
\* of people, admins or the model's answers.
Fairness ==
    /\ WF_vars(StartConsolidation(CLoop) \/ Consolidates(CLoop))
    /\ SF_vars((CAnswer(CLoop) \/ CCallFails(CLoop)) /\ UNCHANGED <<ovars, editor, limits, history>>)
    /\ WF_vars(StartOverview(OLoop) \/ Overviews(OLoop))
    /\ SF_vars((OAnswer(OLoop) \/ OCallFails(OLoop) \/ OTooThin(OLoop)) /\ UNCHANGED <<cvars, editor, limits, history>>)

FairSpec == Spec /\ Fairness

-----------------------------------------------------------------------------
\* Properties

\* One claim has one live version: no two live notes share an ancestor (the supersede
\* chain; supersede_note's docstring).
OneLive ==
    \A a, b \in NoteId : Live(a) /\ Live(b) /\ History(a) \cap History(b) # {} => a = b

\* No note cites a session that is not there: a purge leaves no trace of what it took.
Grounded == \A n \in NoteId : Exists(n) => (note[n].evidence \cup note[n].disputed) \subseteq released

\* What the wiki shows is one account of each claim, and sessions stand behind it.
NotesSound == OneLive /\ Grounded

\* Once a person has described a project, what its page shows is a person's (overview:
\* `It wins, permanently').
HumanArticleWins ==
    \A n \in NoteId : Exists(n) /\ note[n].kind = "article" /\ note[n].source = "human"
        => note[CurrentOverview(note[n].project)].source = "human"

\* A project marked done shows an article, and one the model wrote draws on all the
\* sessions the mark names, but for those purged since: none is taken for read that the
\* model was never shown.
ArticleCurrent ==
    \A q \in Projects : ostate[q].state = "done" =>
        LET n == CurrentOverview(q)
        IN /\ n # None
           /\ note[n].source = "ai" => ostate[q].contributors \ purged \subseteq note[n].evidence

\* However the passes and the people interleave, what a person wrote is replaced by
\* people only, and no version poses as a person's that a model wrote (consolidate: a
\* human note is disputed, never overwritten).
HumanOutranks ==
    \A n \in NoteId : Exists(n) =>
        /\ note[n].source = "human" => n \in spoken
        /\ note[n].prev \in spoken => n \in spoken

\* No digest is marked consolidated before all it had to say is on record, whatever
\* crashes in between.
DoneWasApplied == \A d \in Digest : cstate[d].state = "done" => d \in applied

\* History is append-only: a version keeps its text, its author and what it replaced,
\* and goes only as a quote whose sessions are purged.
HistoryKept ==
    [][\A n \in NoteId : Exists(n) =>
          IF note'[n] = Absent THEN note[n].kind = "quote"
          ELSE /\ note'[n].text = note[n].text /\ note'[n].source = note[n].source
               /\ note'[n].prev = note[n].prev]_vars

\* Every enriched digest is some day consolidated, given up on or purged, whatever
\* crashes, fails or runs besides.
DigestSettles ==
    \A d \in Digest : d \in released
        ~> (cstate[d].state \in {"done", "abandoned"} \/ d \notin released)

\* The page never tells readers that no article will come while the pass goes on to
\* write one (article_outlook: `if the two ever disagree the page starts lying again').
OutlookHonest ==
    [][\A p \in OPasses : OAt(p, "next") /\ opass'[p].pc = "call"
          => ArticleOutlook(opass'[p].project) = "coming"]_vars

\* `It appears on the next pass' is a promise: a project whose page says so some day has
\* an article, or its page says otherwise.
PromiseKept ==
    \A q \in Projects : ArticleOutlook(q) = "coming" /\ CurrentOverview(q) = None
        ~> ArticleOutlook(q) # "coming" \/ CurrentOverview(q) # None

=============================================================================
