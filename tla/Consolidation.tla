---------------------------- MODULE Consolidation ----------------------------
(***************************************************************************)
(* The consolidation pass: a model reads one enriched digest and the notes *)
(* most related to it, says which of them the session supports,            *)
(* contradicts or refines, and what new it has to say; the plan is applied *)
(* one note, one transaction, at a time, and the digest is marked.  The    *)
(* background loop and the admin's run-now endpoint run it side by side.   *)
(* The notes written are computed from the rows read before the model was  *)
(* called, and written blindly.                                            *)
(***************************************************************************)
EXTENDS Notes

CONSTANTS
    CLoop,           \* the background consolidation loop
    CAdmins,         \* POST /v1/admin/consolidation/run
    Batch,           \* min(consolidate_batch_per_org, consolidate_max_batch)
    CMaxAttempts,    \* consolidate_max_attempts
    PromoteEvidence, PromoteActors,  \* _PROMOTE_EVIDENCE, _PROMOTE_ACTORS
    MaxCandidates,   \* _MAX_CANDIDATES
    MaxNew           \* _MAX_NEW_NOTES

ASSUME ConsolidationAssumption ==
    /\ CLoop \notin CAdmins
    /\ Batch \in Nat \ {0} /\ CMaxAttempts \in Nat \ {0}
    /\ PromoteEvidence \in Nat /\ PromoteActors \in Nat
    /\ MaxCandidates \in Nat /\ MaxNew \in Nat

CPasses == {CLoop} \cup CAdmins

VARIABLES
    cstate,   \* consolidation_state rows
    cpass,    \* what each pass is doing
    applied   \* history: digests all of whose plan was written

cvars == <<cstate, cpass, applied>>

CState == [state : {"none", "failed", "done", "abandoned"}, attempts : Nat]
NoCState == [state |-> "none", attempts |-> 0]

\* todo: digests listed, each with the attempts it had; seen: candidates as read;
\* upserts and supersedes: what is left of the plan.
Listed == [id : Digest, attempts : Nat]
Seen == UNION {[S -> Note] : S \in SUBSET NoteId}
CPass == [pc : {"next"}, todo : SUBSET Listed]
         \cup [pc : {"abandon", "retrieve", "failed"}, todo : SUBSET Listed, cur : Digest]
         \cup [pc : {"call"}, todo : SUBSET Listed, cur : Digest, seen : Seen]
         \cup [pc : {"write"}, todo : SUBSET Listed, cur : Digest,
               upserts : SUBSET [id : NoteId, note : Note],
               supersedes : SUBSET [old : NoteId, id : NoteId, note : Note]]
CIdle == [pc |-> "idle"]

ConsolidationTypeOK ==
    /\ cstate \in [Digest -> CState]
    /\ \A p \in CPasses : cpass[p].pc \in {"idle", "next", "abandon", "retrieve", "failed", "call", "write"}
    /\ applied \in SUBSET Digest

ConsolidationInit ==
    /\ cstate = [d \in Digest |-> NoCState]
    /\ cpass = [p \in CPasses |-> CIdle]
    /\ applied = {}

-----------------------------------------------------------------------------
\* What a session does to a note

Promoted(v) ==
    [v EXCEPT !.status = IF /\ v.status = "candidate"
                            /\ \/ Cardinality(v.evidence) >= PromoteEvidence
                               \/ Cardinality(v.actors) >= PromoteActors
                         THEN "established" ELSE v.status]

Support(v, d) ==
    Promoted([v EXCEPT !.evidence = v.evidence \cup {d}, !.actors = v.actors \cup {d.actor}])

Contradict(v, d) == [v EXCEPT !.disputed = v.disputed \cup {d}, !.status = "disputed"]

\* The next version of note n, written as note id.
Refine(n, v, d, id) ==
    [v EXCEPT !.text = id, !.evidence = v.evidence \cup {d}, !.actors = v.actors \cup {d.actor},
              !.status = IF v.status = "established" THEN "established" ELSE "candidate",
              !.disputed = {}, !.prev = n, !.next = None]

NewNote(d, id) ==
    [kind |-> "claim", project |-> d.project, text |-> id, source |-> "ai",
     status |-> "candidate", evidence |-> {d}, disputed |-> {}, actors |-> {d.actor},
     prev |-> None, next |-> None]

\* Any subset may be close enough to the digest; notes of its project always are.
Retrievable(d) ==
    LET live == {n \in NoteId : Live(n) /\ note[n].kind = "claim"}
        own == {n \in live : note[n].project = d.project}
    IN {C \in SUBSET live : \/ own \subseteq C /\ Cardinality(C) <= MaxCandidates
                            \/ Cardinality(C) = MaxCandidates}

Relation == {"supports", "contradicts", "refines", "unrelated"}

\* Mutant of Judged: a refinement of a human's note is taken as it is.
Judged_AsSaid(v, relation) == relation

\* A session may dispute what a person wrote, and never rewrites it.
Judged(v, relation) ==
    IF relation = "refines" /\ v.source = "human" THEN "contradicts" ELSE relation

\* apply_verdicts: the writes a verdict per candidate and `new' new notes ask for.
Refined(seen, verdict) == {n \in DOMAIN seen : Judged(seen[n], verdict[n]) = "refines"}
Fresh(S, n) == minted + Cardinality({m \in S : m <= n})
Upserts(seen, verdict, d, new) ==
    {[id |-> n, note |-> Support(seen[n], d)] :
        n \in {m \in DOMAIN seen : Judged(seen[m], verdict[m]) = "supports"}}
    \cup {[id |-> n, note |-> Contradict(seen[n], d)] :
        n \in {m \in DOMAIN seen : Judged(seen[m], verdict[m]) = "contradicts"}}
    \cup {[id |-> n, note |-> NewNote(d, n)] :
        n \in {minted + Cardinality(Refined(seen, verdict)) + i : i \in 1 .. new}}
Supersedes(seen, verdict, d) ==
    {[old |-> n, id |-> Fresh(Refined(seen, verdict), n),
      note |-> Refine(n, seen[n], d, Fresh(Refined(seen, verdict), n))] : n \in Refined(seen, verdict)}

-----------------------------------------------------------------------------
\* The pass

CAt(p, label) == cpass[p].pc = label
CBecome(p, j) == cpass' = [cpass EXCEPT ![p] = j]
CProceed(p) == CBecome(p, [pc |-> "next", todo |-> cpass[p].todo])
CGoto(p, label) == CBecome(p, [pc |-> label, todo |-> cpass[p].todo, cur |-> cpass[p].cur])

\* Mutant of Unconsolidated: a digest that failed once is not listed again.
Unconsolidated_Once == {d \in released : cstate[d].state = "none"}

Unconsolidated == {d \in released : cstate[d].state \notin {"done", "abandoned"}}

NewestOf(S, n) == {d \in S : Cardinality({e \in S : e.rank > d.rank}) < n}

\* consolidation_meta and list_unconsolidated are read once, when the pass starts.
CBegin(p) ==
    /\ CAt(p, "idle")
    /\ Unconsolidated # {}
    /\ CBecome(p, [pc |-> "next", todo |-> {[id |-> d, attempts |-> cstate[d].attempts] :
                                               d \in NewestOf(Unconsolidated, Batch)}])
    /\ UNCHANGED <<released, notes, cstate, applied>>

CEnd(p) ==
    /\ CAt(p, "next") /\ cpass[p].todo = {}
    /\ CBecome(p, CIdle)
    /\ UNCHANGED <<released, notes, cstate, applied>>

\* The newest digest listed: given up on, or adjudicated.
CTake(p) ==
    /\ CAt(p, "next")
    /\ \E c \in cpass[p].todo :
          /\ \A e \in cpass[p].todo : e.id.rank <= c.id.rank
          /\ CBecome(p, [pc |-> IF c.attempts >= CMaxAttempts THEN "abandon" ELSE "retrieve",
                          todo |-> cpass[p].todo \ {c}, cur |-> c.id])
    /\ UNCHANGED <<released, notes, cstate, applied>>

\* mark_consolidation_abandoned: a row that went meanwhile is made again.
CAbandon(p) ==
    /\ CAt(p, "abandon")
    /\ LET d == cpass[p].cur
       IN cstate' = [cstate EXCEPT ![d] = [state |-> "abandoned",
             attempts |-> IF cstate[d] = NoCState THEN 1 ELSE cstate[d].attempts]]
    /\ CProceed(p)
    /\ UNCHANGED <<released, notes, applied>>

CRetrieve(p) ==
    /\ CAt(p, "retrieve")
    /\ \E C \in Retrievable(cpass[p].cur) :
          CBecome(p, [pc |-> "call", todo |-> cpass[p].todo, cur |-> cpass[p].cur,
                       seen |-> [n \in C |-> note[n]]])
    /\ UNCHANGED <<released, notes, cstate, applied>>

\* The org's monthly cap is spent: the pass is over for it.
CQuota(p) ==
    /\ CAt(p, "call")
    /\ CBecome(p, CIdle)
    /\ UNCHANGED <<released, notes, cstate, applied>>

\* The call fails, or its answer holds no JSON object.
CCallFails(p) ==
    /\ CAt(p, "call")
    /\ CGoto(p, "failed")
    /\ UNCHANGED <<released, notes, cstate, applied>>

CRecordFailure(p) ==
    /\ CAt(p, "failed")
    /\ LET d == cpass[p].cur
       IN cstate' = [cstate EXCEPT ![d] = [state |-> "failed", attempts |-> cstate[d].attempts + 1]]
    /\ CProceed(p)
    /\ UNCHANGED <<released, notes, applied>>

\* The model answers; the ids of the notes to write are drawn at once.
CAnswer(p) ==
    /\ CAt(p, "call")
    /\ LET seen == cpass[p].seen
           d == cpass[p].cur
       IN \E verdict \in [DOMAIN seen -> Relation], new \in 0 .. MaxNew :
             LET drawn == minted + Cardinality(Refined(seen, verdict)) + new
             IN /\ drawn <= MaxNotes
                /\ minted' = drawn
                /\ CBecome(p, [pc |-> "write", todo |-> cpass[p].todo, cur |-> d,
                               upserts |-> Upserts(seen, verdict, d, new),
                               supersedes |-> Supersedes(seen, verdict, d)])
    /\ UNCHANGED <<released, note, recent, cstate, applied>>

CUpsert(p) ==
    /\ CAt(p, "write")
    /\ \E u \in cpass[p].upserts :
          /\ UpsertNote(u.id, u.note)
          /\ CBecome(p, [cpass[p] EXCEPT !.upserts = cpass[p].upserts \ {u}])
    /\ UNCHANGED <<released, minted, cstate, applied>>

\* Mutant of CSupersede: the note is rewritten in place.
CSupersede_InPlace(p) ==
    /\ CAt(p, "write") /\ cpass[p].upserts = {}
    /\ \E s \in cpass[p].supersedes :
          /\ UpsertNote(s.old, s.note)
          /\ CBecome(p, [cpass[p] EXCEPT !.supersedes = cpass[p].supersedes \ {s}])
    /\ UNCHANGED <<released, minted, cstate, applied>>

CSupersede(p) ==
    /\ CAt(p, "write") /\ cpass[p].upserts = {}
    /\ \E s \in cpass[p].supersedes :
          /\ SupersedeNote(s.old, s.id, s.note)
          /\ CBecome(p, [cpass[p] EXCEPT !.supersedes = cpass[p].supersedes \ {s}])
    /\ UNCHANGED <<released, minted, cstate, applied>>

\* Mutant of CMark: the digest is marked before its plan is written.
CMark_Early(p) ==
    /\ CAt(p, "write")
    /\ cstate' = [cstate EXCEPT ![cpass[p].cur] = [state |-> "done", attempts |-> 0]]
    /\ applied' = IF cpass[p].upserts = {} /\ cpass[p].supersedes = {}
                  THEN applied \cup {cpass[p].cur} ELSE applied
    /\ CProceed(p)
    /\ UNCHANGED <<released, notes>>

CMark(p) ==
    /\ CAt(p, "write") /\ cpass[p].upserts = {} /\ cpass[p].supersedes = {}
    /\ cstate' = [cstate EXCEPT ![cpass[p].cur] = [state |-> "done", attempts |-> 0]]
    /\ applied' = applied \cup {cpass[p].cur}
    /\ CProceed(p)
    /\ UNCHANGED <<released, notes>>

\* An exception or a restart of the server: what is written stays, the rest is lost.
CCrash(p) ==
    /\ ~CAt(p, "idle")
    /\ CBecome(p, CIdle)
    /\ UNCHANGED <<released, notes, cstate, applied>>

Consolidating(p) ==
    \/ CEnd(p) \/ CTake(p) \/ CAbandon(p) \/ CRetrieve(p) \/ CQuota(p) \/ CCallFails(p)
    \/ CRecordFailure(p) \/ CAnswer(p) \/ CUpsert(p) \/ CSupersede(p) \/ CMark(p)

=============================================================================
