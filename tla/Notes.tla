-------------------------------- MODULE Notes --------------------------------
(***************************************************************************)
(* The knowledge notes of one organisation: the table the wiki is rendered *)
(* from, written by the consolidator, by the project overviews, by people  *)
(* and by a purge.  A note is never rewritten in place: a new text is a    *)
(* new row that points back at the one it replaces.                        *)
(*                                                                         *)
(* Abstractions.  Title and body are one text, named by the note that was  *)
(* first written with it.  Confidence, edges and vectors are left out:     *)
(* nothing modelled reads them.                                            *)
(***************************************************************************)
EXTENDS Naturals, Sequences, FiniteSets

CONSTANTS
    Digest,      \* released session digests: records with project, actor and rank
    MaxNotes,    \* bound: notes ever written
    MaxRequests, \* bound: requests in a behaviour
    MaxCrashes,  \* bound: threads killed in a behaviour
    Exclusive    \* TRUE: a request or pass starts only when no other is running

ASSUME NotesAssumption ==
    /\ \A d \in Digest : d.rank \in Nat
    /\ MaxNotes \in Nat /\ MaxRequests \in Nat /\ MaxCrashes \in Nat
    /\ Exclusive \in BOOLEAN

NoteId == 1 .. MaxNotes
None == 0
Projects == {d.project : d \in Digest}
Actors == {d.actor : d \in Digest}

VARIABLES
    released,  \* released_compaction rows that are enriched
    note,      \* knowledge_note rows
    minted,    \* note ids given out
    recent,    \* article ids, in the order they were stamped (updated_at)
    requests, crashes  \* counted up to their bounds

notes == <<note, minted, recent>>
limits == <<requests, crashes>>

\* KnowledgeNote.  kind: `claim' is any kind the adjudicator may write, `quote' a
\* rationale note, `article' a project_overview.
Note == [kind : {"claim", "quote", "article"}, project : Projects, text : NoteId,
         source : {"ai", "human"},
         status : {"candidate", "established", "disputed", "superseded", "stale"},
         evidence : SUBSET Digest, disputed : SUBSET Digest, actors : SUBSET Actors,
         prev : NoteId \cup {None}, next : NoteId \cup {None}]
Absent == [kind |-> "none"]

Exists(n) == note[n] # Absent
Live(n) == Exists(n) /\ note[n].status # "superseded"

NotesTypeOK ==
    /\ released \in SUBSET Digest
    /\ note \in [NoteId -> Note \cup {Absent}]
    /\ minted \in 0 .. MaxNotes
    /\ recent \in Seq(NoteId)
    /\ requests \in Nat /\ crashes \in Nat

NotesInit ==
    /\ released = {}
    /\ note = [n \in NoteId |-> Absent]
    /\ minted = 0
    /\ recent = <<>>
    /\ requests = 0 /\ crashes = 0

\* A write stamps its row with the current time.
Touch(n, v) == recent' = IF v.kind = "article" THEN Append(recent, n) ELSE recent

\* upsert_note merges the row whatever is stored.
UpsertNote(n, v) ==
    /\ note' = [note EXCEPT ![n] = v]
    /\ Touch(n, v)

\* Mutant of SupersedeNote: the old version is left as it was.
SupersedeNote_KeepsOld(old, n, v) ==
    /\ note' = [note EXCEPT ![n] = [v EXCEPT !.prev = old]]
    /\ Touch(n, v)

\* The new version is inserted and the stored old one retired in one transaction.
SupersedeNote(old, n, v) ==
    /\ note' = [note EXCEPT ![old] = [note[old] EXCEPT !.status = "superseded", !.next = n],
                            ![n] = [v EXCEPT !.prev = old]]
    /\ Touch(n, v)

\* A version and those before it; their number is not capped at 50 here.
Lineage[n \in 0 .. MaxNotes] ==
    IF n = None THEN {} ELSE IF ~Exists(n) THEN {} ELSE {n} \cup Lineage[note[n].prev]

History(n) == Lineage[n]

\* The live article of a project that was stamped last, None when there is none.
CurrentOverview(project) ==
    LET live == {i \in DOMAIN recent : Live(recent[i]) /\ note[recent[i]].project = project}
    IN IF live = {} THEN None ELSE recent[CHOOSE i \in live : \A j \in live : j <= i]

-----------------------------------------------------------------------------
\* Purge

\* Mutant of Stripped: the notes keep what they cite.
Stripped_Not(v, S) == v

\* What a purge of S leaves of a note it touches.
Stripped(v, S) ==
    LET left == v.evidence \ S
    IN IF left = {} /\ v.kind = "quote" THEN Absent
       ELSE [v EXCEPT !.evidence = left, !.disputed = v.disputed \ S,
                !.status = IF left = {} /\ v.source = "ai" /\ v.status # "superseded"
                           THEN "stale" ELSE v.status]

Cites(v, S) == v # Absent /\ (v.evidence \cup v.disputed) \cap S # {}

\* The note half of delete_compactions.  Articles touched get one same timestamp.
StripNotes(S) ==
    /\ note' = [n \in NoteId |-> IF Cites(note[n], S) THEN Stripped(note[n], S) ELSE note[n]]
    /\ LET hit == {n \in NoteId : Cites(note[n], S) /\ note[n].kind = "article"}
       IN \E order \in [1 .. Cardinality(hit) -> hit] :
             /\ \A n \in hit : \E i \in 1 .. Cardinality(hit) : order[i] = n
             /\ recent' = recent \o order

=============================================================================
