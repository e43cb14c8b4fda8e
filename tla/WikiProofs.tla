------------------------------ MODULE WikiProofs ------------------------------
(***************************************************************************)
(* Theorems about the wiki under every interleaving of the consolidator,   *)
(* the overviews, people and purges, with crashes, for any sessions,       *)
(* passes, people and bounds.                                              *)
(***************************************************************************)
EXTENDS Wiki, TLAPS, FiniteSetTheorems, SequenceTheorems

USE NotesAssumption, ConsolidationAssumption, OverviewAssumption, WikiAssumption

-----------------------------------------------------------------------------
\* Types

Types ==
    /\ TypeOK
    /\ cpass \in [CPasses -> CPass \cup {CIdle}]
    /\ opass \in [OPasses -> OPass \cup {OIdle}]

RowsTyped == note \in [NoteId -> Note \cup {Absent}] /\ recent \in Seq(NoteId)

LEMMA NoneOutside == None \notin NoteId
  BY DEF None, NoteId

LEMMA AbsentOutside == Absent \notin Note
  BY DEF Absent, Note

LEMMA RetiredTyped ==
    ASSUME NEW v \in Note \cup {Absent}, NEW n \in NoteId
    PROVE  [v EXCEPT !.status = "superseded", !.next = n] \in Note \cup {Absent}
  <1>1. CASE v \in Note
    BY <1>1 DEF Note
  <1>2. CASE v = Absent
    <2> DEFINE w == [v EXCEPT !.status = "superseded"]
    <2>1. w = Absent
      BY <1>2 DEF Absent
    <2>2. [w EXCEPT !.next = n] = Absent
      BY <2>1 DEF Absent
    <2>3. QED
      BY <2>2
  <1>3. QED
    BY <1>1, <1>2

LEMMA TouchTyped ==
    ASSUME RowsTyped, NEW n \in NoteId, NEW v, Touch(n, v)
    PROVE  recent' \in Seq(NoteId)
  BY AppendProperties DEF RowsTyped, Touch

LEMMA UpsertTyped ==
    ASSUME RowsTyped, NEW n \in NoteId, NEW v \in Note, UpsertNote(n, v)
    PROVE  RowsTyped'
  <1>1. note' \in [NoteId -> Note \cup {Absent}]
    BY DEF RowsTyped, UpsertNote
  <1>2. recent' \in Seq(NoteId)
    BY TouchTyped DEF UpsertNote
  <1>3. QED
    BY <1>1, <1>2 DEF RowsTyped

LEMMA SupersedeTyped ==
    ASSUME RowsTyped, NEW old \in NoteId, NEW n \in NoteId, NEW v \in Note, SupersedeNote(old, n, v)
    PROVE  RowsTyped'
  <1>1. [note[old] EXCEPT !.status = "superseded", !.next = n] \in Note \cup {Absent}
    BY RetiredTyped DEF RowsTyped
  <1>2. [v EXCEPT !.prev = old] \in Note
    BY DEF Note
  <1>3. note' \in [NoteId -> Note \cup {Absent}]
    BY <1>1, <1>2 DEF RowsTyped, SupersedeNote
  <1>4. recent' \in Seq(NoteId)
    BY TouchTyped DEF SupersedeNote
  <1>5. QED
    BY <1>3, <1>4 DEF RowsTyped

LEMMA StrippedTyped ==
    ASSUME NEW v \in Note, NEW S
    PROVE  Stripped(v, S) \in Note \cup {Absent}
  <1>1. CASE v.evidence \ S = {} /\ v.kind = "quote"
    BY <1>1 DEF Stripped
  <1>2. CASE ~(v.evidence \ S = {} /\ v.kind = "quote")
    <2> DEFINE st == IF v.evidence \ S = {} /\ v.source = "ai" /\ v.status # "superseded"
                     THEN "stale" ELSE v.status
    <2>1. st \in {"candidate", "established", "disputed", "superseded", "stale"}
      BY DEF Note
    <2>2. Stripped(v, S) = [v EXCEPT !.evidence = v.evidence \ S, !.disputed = v.disputed \ S, !.status = st]
      BY <1>2 DEF Stripped
    <2> HIDE DEF st
    <2>3. QED
      BY ZenonT(60), <2>1, <2>2 DEF Note
  <1>3. QED
    BY <1>1, <1>2

LEMMA StripTyped ==
    ASSUME RowsTyped, NEW S, StripNotes(S)
    PROVE  RowsTyped'
  <1>1. \A n \in NoteId : Cites(note[n], S) => note[n] \in Note
    BY DEF RowsTyped, Cites
  <1>2. note' \in [NoteId -> Note \cup {Absent}]
    BY <1>1, StrippedTyped DEF RowsTyped, StripNotes
  <1>3. recent' \in Seq(NoteId)
    <2> DEFINE hit == {n \in NoteId : Cites(note[n], S) /\ note[n].kind = "article"}
    <2>1. PICK order \in [1 .. Cardinality(hit) -> hit] : recent' = recent \o order
      BY DEF StripNotes
    <2>2. hit \in SUBSET NoteId /\ Cardinality(hit) \in Nat
      <3>1. hit \subseteq NoteId
        OBVIOUS
      <3>2. IsFiniteSet(NoteId)
        BY FS_Interval DEF NoteId
      <3> HIDE DEF hit
      <3>3. QED
        BY <3>1, <3>2, FS_Subset, FS_CardinalityType
    <2> HIDE DEF hit
    <2>3. order \in Seq(NoteId)
      <3>1. order \in [1 .. Cardinality(hit) -> NoteId]
        BY <2>2
      <3>2. QED
        BY <2>2, <3>1, IsASeq
    <2>4. QED
      BY <2>1, <2>3, ConcatProperties DEF RowsTyped
  <1>4. QED
    BY <1>2, <1>3 DEF RowsTyped

\* What one session does to a note leaves a note.
LEMMA SupportTyped ==
    ASSUME NEW v \in Note, NEW d \in Digest
    PROVE  Support(v, d) \in Note
  <1> DEFINE w == [v EXCEPT !.evidence = v.evidence \cup {d}, !.actors = v.actors \cup {d.actor}]
  <1>1. w \in Note
    BY DEF Note, Actors
  <1> HIDE DEF w
  <1>2. Promoted(w) \in Note
    BY <1>1 DEF Promoted, Note
  <1>3. QED
    BY <1>2 DEF Support, w

LEMMA ContradictTyped ==
    ASSUME NEW v \in Note, NEW d \in Digest
    PROVE  Contradict(v, d) \in Note
  BY DEF Contradict, Note

LEMMA RefineTyped ==
    ASSUME NEW v \in Note, NEW d \in Digest, NEW n \in NoteId, NEW id \in NoteId
    PROVE  Refine(n, v, d, id) \in Note
  <1>1. v.actors \cup {d.actor} \in SUBSET Actors
    BY DEF Note, Actors
  <1>2. (IF v.status = "established" THEN "established" ELSE "candidate")
           \in {"candidate", "established", "disputed", "superseded", "stale"}
    OBVIOUS
  <1>3. QED
    BY <1>1, <1>2 DEF Refine, Note

LEMMA NewNoteTyped ==
    ASSUME NEW d \in Digest, NEW id \in NoteId
    PROVE  NewNote(d, id) \in Note
  BY DEF NewNote, Note, Actors, Projects

LEMMA ArticleTyped ==
    ASSUME NEW q \in Projects, NEW comps \in SUBSET Digest, NEW prior \in NoteId \cup {None},
           NEW stood \in BOOLEAN, NEW id \in NoteId
    PROVE  Article(q, comps, prior, stood, id) \in Note
  <1>1. {d.actor : d \in comps} \in SUBSET Actors
    BY DEF Actors
  <1>2. QED
    BY <1>1 DEF Article, Note

LEMMA EditedTyped ==
    ASSUME NEW v \in Note, NEW text \in NoteId, NEW id
    PROVE  Edited(v, text, id) \in Note
  BY DEF Edited, Note

-----------------------------------------------------------------------------
\* The jobs: what each pass and request thread holds, by where it stands

LEMMA CJobTyped ==
    ASSUME NEW j \in CPass \cup {CIdle}
    PROVE  /\ j.pc # "idle" => j.todo \in SUBSET Listed
           /\ j.pc \in {"abandon", "retrieve", "failed", "call", "write"} => j.cur \in Digest
           /\ j.pc = "call" => j.seen \in Seen
           /\ j.pc = "write" => /\ j.upserts \in SUBSET [id : NoteId, note : Note]
                                /\ j.supersedes \in SUBSET [old : NoteId, id : NoteId, note : Note]
  BY DEF CPass, CIdle

LEMMA OJobTyped ==
    ASSUME NEW j \in OPass \cup {OIdle}
    PROVE  /\ j.pc # "idle" => /\ j.todo \in SUBSET Projects /\ j.seen \in [Projects -> OState]
                               /\ j.written \in Nat
           /\ j.pc \in {"abandon", "hold", "call", "failed", "settle", "write", "mark"} =>
                 /\ j.project \in Projects /\ j.comps \in SUBSET Digest
                 /\ j.prior \in NoteId \cup {None} /\ j.stood \in BOOLEAN
           /\ j.pc \in {"write", "mark"} => j.id \in NoteId /\ j.article \in Note
  BY DEF OPass, OIdle

\* A pass that becomes j is still one of the passes.
LEMMA CBecomeTyped ==
    ASSUME cpass \in [CPasses -> CPass \cup {CIdle}], NEW p \in CPasses,
           NEW j \in CPass \cup {CIdle}, CBecome(p, j)
    PROVE  /\ cpass' \in [CPasses -> CPass \cup {CIdle}]
           /\ cpass'[p] = j
           /\ \A q \in CPasses : q # p => cpass'[q] = cpass[q]
  BY DEF CBecome

LEMMA OBecomeTyped ==
    ASSUME opass \in [OPasses -> OPass \cup {OIdle}], NEW p \in OPasses,
           NEW j \in OPass \cup {OIdle}, OBecome(p, j)
    PROVE  /\ opass' \in [OPasses -> OPass \cup {OIdle}]
           /\ opass'[p] = j
           /\ \A q \in OPasses : q # p => opass'[q] = opass[q]
  BY DEF OBecome

LEMMA TypesGive ==
    ASSUME Types
    PROVE  /\ RowsTyped /\ minted \in 0 .. MaxNotes /\ released \in SUBSET Digest
           /\ \A p \in CPasses : cpass[p] \in CPass \cup {CIdle}
           /\ \A p \in OPasses : opass[p] \in OPass \cup {OIdle}
  BY DEF Types, TypeOK, NotesTypeOK, RowsTyped

-----------------------------------------------------------------------------
\* The ids a plan draws

LEMMA NoteIdsFinite == IsFiniteSet(NoteId)
  BY FS_Interval DEF NoteId

\* The notes refined get distinct ids, the first ones drawn.
LEMMA FreshRange ==
    ASSUME minted \in Nat, NEW S \in SUBSET NoteId, NEW n \in S
    PROVE  Fresh(S, n) \in minted + 1 .. minted + Cardinality(S)
  <1> DEFINE low == {m \in S : m <= n}
  <1>1. IsFiniteSet(S) /\ Cardinality(S) \in Nat
    BY NoteIdsFinite, FS_Subset, FS_CardinalityType
  <1>2. n \in low /\ low \subseteq S
    BY DEF NoteId
  <1>3. Fresh(S, n) = minted + Cardinality(low)
    BY DEF Fresh
  <1> HIDE DEF low
  <1>4. IsFiniteSet(low) /\ Cardinality(low) <= Cardinality(S) /\ Cardinality(low) \in Nat
    BY <1>1, <1>2, FS_Subset, FS_CardinalityType
  <1>5. Cardinality(low) # 0
    BY <1>2, <1>4, FS_EmptySet
  <1>6. QED
    BY <1>1, <1>3, <1>4, <1>5

LEMMA FreshOrdered ==
    ASSUME minted \in Nat, NEW S \in SUBSET NoteId, NEW n \in S, NEW m \in S, n < m
    PROVE  Fresh(S, n) < Fresh(S, m)
  <1> DEFINE low(k) == {i \in S : i <= k}
  <1>1. IsFiniteSet(S)
    BY NoteIdsFinite, FS_Subset
  <1>2. low(n) \subseteq low(m) /\ m \in low(m) /\ m \notin low(n) /\ low(n) \subseteq S /\ low(m) \subseteq S
    <2>1. \A i \in S : i \in Int
      BY DEF NoteId
    <2>2. m \in low(m) /\ m \notin low(n) /\ low(n) \subseteq S /\ low(m) \subseteq S
      BY <2>1
    <2>3. ASSUME NEW i \in S, i <= n
          PROVE  i <= m
      BY <2>1, <2>3
    <2>4. QED
      BY <2>2, <2>3
  <1>3. Fresh(S, n) = minted + Cardinality(low(n)) /\ Fresh(S, m) = minted + Cardinality(low(m))
    BY DEF Fresh
  <1> HIDE DEF low
  <1>4. IsFiniteSet(low(m)) /\ Cardinality(low(m)) \in Nat /\ IsFiniteSet(low(n)) /\ Cardinality(low(n)) \in Nat
    BY <1>1, <1>2, FS_Subset, FS_CardinalityType
  <1>5. Cardinality(low(n)) <= Cardinality(low(m)) /\ Cardinality(low(m)) # Cardinality(low(n))
    BY <1>2, <1>4, FS_Subset
  <1>6. QED
    BY <1>3, <1>4, <1>5

LEMMA FreshDistinct ==
    ASSUME minted \in Nat, NEW S \in SUBSET NoteId, NEW n \in S, NEW m \in S, Fresh(S, n) = Fresh(S, m)
    PROVE  n = m
  <1>1. Fresh(S, n) \in Int /\ Fresh(S, m) \in Int
    <2>1. Fresh(S, n) \in minted + 1 .. minted + Cardinality(S)
      BY FreshRange
    <2>2. Fresh(S, m) \in minted + 1 .. minted + Cardinality(S)
      BY FreshRange
    <2>3. QED
      BY <2>1, <2>2
  <1>2. ~(n < m) /\ ~(m < n)
    BY <1>1, FreshOrdered
  <1>3. QED
    BY <1>2 DEF NoteId

LEMMA RefinedSubset ==
    ASSUME NEW seen \in Seen, NEW verdict
    PROVE  /\ DOMAIN seen \in SUBSET NoteId
           /\ \A n \in DOMAIN seen : seen[n] \in Note
           /\ Refined(seen, verdict) \in SUBSET DOMAIN seen
           /\ Cardinality(Refined(seen, verdict)) \in Nat
  <1>1. PICK S \in SUBSET NoteId : seen \in [S -> Note]
    BY DEF Seen
  <1>2. Refined(seen, verdict) \in SUBSET DOMAIN seen
    BY DEF Refined
  <1>3. Cardinality(Refined(seen, verdict)) \in Nat
    BY <1>1, <1>2, NoteIdsFinite, FS_Subset, FS_CardinalityType
  <1>4. QED
    BY <1>1, <1>2, <1>3

\* A plan's writes, one by one.
LEMMA UpsertsAre ==
    ASSUME NEW seen \in Seen, NEW verdict, NEW d, NEW new, NEW u \in Upserts(seen, verdict, d, new)
    PROVE  \/ \E n \in DOMAIN seen : u = [id |-> n, note |-> Support(seen[n], d)]
           \/ \E n \in DOMAIN seen : u = [id |-> n, note |-> Contradict(seen[n], d)]
           \/ \E i \in 1 .. new : /\ u.id = minted + Cardinality(Refined(seen, verdict)) + i
                                  /\ u = [id |-> u.id, note |-> NewNote(d, u.id)]
  BY DEF Upserts

LEMMA SupersedesAre ==
    ASSUME NEW seen \in Seen, NEW verdict, NEW d, NEW s \in Supersedes(seen, verdict, d)
    PROVE  /\ s.old \in Refined(seen, verdict)
           /\ s.id = Fresh(Refined(seen, verdict), s.old)
           /\ s.note = Refine(s.old, seen[s.old], d, s.id)
           /\ s = [old |-> s.old, id |-> s.id, note |-> s.note]
  BY DEF Supersedes

LEMMA PlanTyped ==
    ASSUME minted \in Nat, NEW seen \in Seen, NEW verdict, NEW d \in Digest, NEW new \in Nat,
           minted + Cardinality(Refined(seen, verdict)) + new <= MaxNotes
    PROVE  /\ Upserts(seen, verdict, d, new) \in SUBSET [id : NoteId, note : Note]
           /\ Supersedes(seen, verdict, d) \in SUBSET [old : NoteId, id : NoteId, note : Note]
  <1>1. /\ DOMAIN seen \in SUBSET NoteId /\ \A n \in DOMAIN seen : seen[n] \in Note
        /\ Refined(seen, verdict) \in SUBSET DOMAIN seen
        /\ Cardinality(Refined(seen, verdict)) \in Nat
    BY RefinedSubset
  <1>2. ASSUME NEW u \in Upserts(seen, verdict, d, new)
        PROVE  u \in [id : NoteId, note : Note]
    <2>1. CASE \E n \in DOMAIN seen : u = [id |-> n, note |-> Support(seen[n], d)]
      BY <1>1, <2>1, SupportTyped
    <2>2. CASE \E n \in DOMAIN seen : u = [id |-> n, note |-> Contradict(seen[n], d)]
      BY <1>1, <2>2, ContradictTyped
    <2>3. CASE \E i \in 1 .. new : /\ u.id = minted + Cardinality(Refined(seen, verdict)) + i
                                   /\ u = [id |-> u.id, note |-> NewNote(d, u.id)]
      <3>1. u.id \in NoteId
        BY <1>1, <2>3 DEF NoteId
      <3>2. NewNote(d, u.id) \in Note
        BY <3>1, NewNoteTyped
      <3>3. QED
        BY <2>3, <3>1, <3>2
    <2>4. QED
      BY <2>1, <2>2, <2>3, UpsertsAre
  <1>3. ASSUME NEW s \in Supersedes(seen, verdict, d)
        PROVE  s \in [old : NoteId, id : NoteId, note : Note]
    <2>1. /\ s.old \in Refined(seen, verdict) /\ s.id = Fresh(Refined(seen, verdict), s.old)
          /\ s.note = Refine(s.old, seen[s.old], d, s.id)
          /\ s = [old |-> s.old, id |-> s.id, note |-> s.note]
      BY SupersedesAre
    <2>2. s.id \in minted + 1 .. minted + Cardinality(Refined(seen, verdict))
      BY <1>1, <2>1, FreshRange
    <2>3. s.id \in NoteId /\ s.old \in NoteId /\ seen[s.old] \in Note
      BY <1>1, <2>1, <2>2 DEF NoteId
    <2>4. s.note \in Note
      BY <2>1, <2>3, RefineTyped
    <2>5. QED
      BY <2>1, <2>3, <2>4
  <1>4. QED
    BY <1>2, <1>3

-----------------------------------------------------------------------------
\* Steps keep the types

\* Steps of a consolidation pass that read and write no note.
CPlain(p) ==
    \/ CBegin(p) \/ CEnd(p) \/ CTake(p) \/ CAbandon(p) \/ CQuota(p) \/ CCallFails(p)
    \/ CRecordFailure(p) \/ CMark(p) \/ CCrash(p)

LEMMA CPlainTyped ==
    ASSUME Types, NEW p \in CPasses, CPlain(p)
    PROVE  /\ UNCHANGED <<released, notes>>
           /\ \E j \in CPass \cup {CIdle} : j.pc \notin {"call", "write"} /\ CBecome(p, j)
  <1>0. cpass[p] \in CPass \cup {CIdle} /\ released \in SUBSET Digest
    BY TypesGive
  <1> DEFINE Goal == \E j \in CPass \cup {CIdle} : j.pc \notin {"call", "write"} /\ CBecome(p, j)
  <1>1. CIdle \in CPass \cup {CIdle} /\ CIdle.pc \notin {"call", "write"}
    BY DEF CIdle
  <1>2. \A T \in SUBSET Listed : /\ [pc |-> "next", todo |-> T] \in CPass
                                 /\ [pc |-> "next", todo |-> T].pc \notin {"call", "write"}
    BY DEF CPass
  <1>3. \A T \in SUBSET Listed, d \in Digest, l \in {"abandon", "retrieve", "failed"} :
           /\ [pc |-> l, todo |-> T, cur |-> d] \in CPass
           /\ [pc |-> l, todo |-> T, cur |-> d].pc \notin {"call", "write"}
    BY DEF CPass
  <1>4. cpass[p].pc # "idle" => cpass[p].todo \in SUBSET Listed
    BY <1>0, CJobTyped
  <1>5. cpass[p].pc \in {"abandon", "retrieve", "failed", "call", "write"} => cpass[p].cur \in Digest
    BY <1>0, CJobTyped
  <1>6. ASSUME CProceed(p), cpass[p].pc # "idle"
        PROVE  Goal
    BY <1>2, <1>4, <1>6 DEF CProceed
  <1>7. CASE CBegin(p)
    <2>1. {[id |-> d, attempts |-> cstate[d].attempts] : d \in NewestOf(Unconsolidated, Batch)} \in SUBSET Listed
      <3>1. NewestOf(Unconsolidated, Batch) \in SUBSET Digest
        BY <1>0 DEF NewestOf, Unconsolidated
      <3>2. \A d \in Digest : cstate[d].attempts \in Nat
        BY DEF Types, TypeOK, ConsolidationTypeOK, CState
      <3>3. QED
        BY <3>1, <3>2 DEF Listed
    <2>2. QED
      BY <1>2, <1>7, <2>1 DEF CBegin, notes
  <1>8. CASE CEnd(p)
    BY <1>1, <1>8 DEF CEnd, notes
  <1>9. CASE CTake(p)
    <2>1. PICK c \in cpass[p].todo :
             CBecome(p, [pc |-> IF c.attempts >= CMaxAttempts THEN "abandon" ELSE "retrieve",
                         todo |-> cpass[p].todo \ {c}, cur |-> c.id])
      BY <1>9 DEF CTake
    <2>2. cpass[p].todo \in SUBSET Listed
      BY <1>4, <1>9 DEF CTake, CAt
    <2>3. c.id \in Digest /\ cpass[p].todo \ {c} \in SUBSET Listed
      BY <2>2 DEF Listed
    <2> DEFINE l == IF c.attempts >= CMaxAttempts THEN "abandon" ELSE "retrieve"
    <2>4. l \in {"abandon", "retrieve", "failed"}
      OBVIOUS
    <2>5. CBecome(p, [pc |-> l, todo |-> cpass[p].todo \ {c}, cur |-> c.id])
      BY <2>1
    <2> HIDE DEF l
    <2>6. Goal
      BY <1>3, <2>3, <2>4, <2>5
    <2>7. QED
      BY <1>9, <2>6 DEF CTake, notes
  <1>10. CASE CAbandon(p)
    BY <1>6, <1>10 DEF CAbandon, CAt, notes
  <1>11. CASE CQuota(p)
    BY <1>1, <1>11 DEF CQuota, notes
  <1>12. CASE CCallFails(p)
    BY <1>3, <1>4, <1>5, <1>12 DEF CCallFails, CGoto, CAt, notes
  <1>13. CASE CRecordFailure(p)
    BY <1>6, <1>13 DEF CRecordFailure, CAt, notes
  <1>14. CASE CMark(p)
    BY <1>6, <1>14 DEF CMark, CAt, notes
  <1>15. CASE CCrash(p)
    BY <1>1, <1>15 DEF CCrash, notes
  <1>16. QED
    BY <1>7, <1>8, <1>9, <1>10, <1>11, <1>12, <1>13, <1>14, <1>15 DEF CPlain

LEMMA CRetrieveTyped ==
    ASSUME Types, NEW p \in CPasses, CRetrieve(p)
    PROVE  \E C \in SUBSET NoteId, j \in CPass :
              /\ j.pc = "call" /\ DOMAIN j.seen = C
              /\ \A n \in C : Exists(n) /\ j.seen[n] = note[n]
              /\ CBecome(p, j)
              /\ UNCHANGED <<released, notes>>
  <1>1. PICK C \in Retrievable(cpass[p].cur) :
           CBecome(p, [pc |-> "call", todo |-> cpass[p].todo, cur |-> cpass[p].cur,
                       seen |-> [n \in C |-> note[n]]])
    BY DEF CRetrieve
  <1>2. C \in SUBSET NoteId /\ \A n \in C : Exists(n)
    BY DEF Retrievable, Live
  <1>3. \A n \in C : note[n] \in Note
    BY <1>2, TypesGive DEF RowsTyped, Exists
  <1> DEFINE s == [n \in C |-> note[n]]
  <1>4. s \in Seen
    BY <1>2, <1>3 DEF Seen
  <1>5. DOMAIN s = C /\ \A n \in C : s[n] = note[n]
    OBVIOUS
  <1> HIDE DEF s
  <1>6. cpass[p].todo \in SUBSET Listed /\ cpass[p].cur \in Digest
    <2>1. cpass[p] \in CPass \cup {CIdle} /\ cpass[p].pc = "retrieve"
      BY TypesGive DEF CRetrieve, CAt
    <2>2. QED
      BY <2>1, CJobTyped
  <1> DEFINE j == [pc |-> "call", todo |-> cpass[p].todo, cur |-> cpass[p].cur, seen |-> s]
  <1>7. j \in CPass
    BY <1>4, <1>6 DEF CPass
  <1>8. j.pc = "call" /\ j.seen = s /\ CBecome(p, j)
    BY <1>1 DEF s
  <1> HIDE DEF j
  <1>9. UNCHANGED <<released, notes>>
    BY DEF CRetrieve, notes
  <1>10. QED
    BY <1>2, <1>5, <1>7, <1>8, <1>9

\* What the answer of the model makes of a pass.
CPlan(j, seen, d, verdict, new) ==
    /\ j.pc = "write"
    /\ j.upserts = Upserts(seen, verdict, d, new)
    /\ j.supersedes = Supersedes(seen, verdict, d)

LEMMA CAnswerTyped ==
    ASSUME Types, NEW p \in CPasses, CAnswer(p)
    PROVE  /\ cpass[p].pc = "call" /\ cpass[p].seen \in Seen /\ cpass[p].cur \in Digest
           /\ UNCHANGED <<released, note, recent>>
           /\ \E verdict \in [DOMAIN cpass[p].seen -> Relation], new \in Nat, j \in CPass :
                 /\ minted' = minted + Cardinality(Refined(cpass[p].seen, verdict)) + new
                 /\ minted' \in minted .. MaxNotes
                 /\ CPlan(j, cpass[p].seen, cpass[p].cur, verdict, new)
                 /\ CBecome(p, j)
  <1> DEFINE seen == cpass[p].seen
             d == cpass[p].cur
  <1>1. /\ cpass[p].pc = "call" /\ seen \in Seen /\ d \in Digest
        /\ cpass[p].todo \in SUBSET Listed
    <2>1. cpass[p] \in CPass \cup {CIdle} /\ cpass[p].pc = "call"
      BY TypesGive DEF CAnswer, CAt
    <2>2. QED
      BY <2>1, CJobTyped
  <1>2. PICK verdict \in [DOMAIN seen -> Relation], new \in 0 .. MaxNew :
           /\ minted + Cardinality(Refined(seen, verdict)) + new <= MaxNotes
           /\ minted' = minted + Cardinality(Refined(seen, verdict)) + new
           /\ CBecome(p, [pc |-> "write", todo |-> cpass[p].todo, cur |-> d,
                          upserts |-> Upserts(seen, verdict, d, new),
                          supersedes |-> Supersedes(seen, verdict, d)])
    BY DEF CAnswer
  <1>3. new \in Nat /\ minted \in Nat /\ minted <= MaxNotes /\ MaxNotes \in Nat
    BY TypesGive
  <1>4. Cardinality(Refined(seen, verdict)) \in Nat
    BY <1>1, RefinedSubset
  <1>5. minted' \in minted .. MaxNotes
    BY <1>2, <1>3, <1>4
  <1> DEFINE j == [pc |-> "write", todo |-> cpass[p].todo, cur |-> d,
                   upserts |-> Upserts(seen, verdict, d, new),
                   supersedes |-> Supersedes(seen, verdict, d)]
  <1>6. /\ Upserts(seen, verdict, d, new) \in SUBSET [id : NoteId, note : Note]
        /\ Supersedes(seen, verdict, d) \in SUBSET [old : NoteId, id : NoteId, note : Note]
    <2> HIDE DEF seen, d
    <2>1. QED
      BY <1>1, <1>2, <1>3, PlanTyped
  <1>7. j \in CPass
    BY <1>1, <1>6 DEF CPass
  <1>8. CPlan(j, seen, d, verdict, new)
    BY DEF CPlan
  <1>9. CBecome(p, j)
    BY <1>2
  <1>10. UNCHANGED <<released, note, recent>>
    BY DEF CAnswer
  <1> HIDE DEF j
  <1>11. \E b \in Nat, k \in CPass :
           /\ minted' = minted + Cardinality(Refined(seen, verdict)) + b
           /\ minted' \in minted .. MaxNotes
           /\ CPlan(k, seen, d, verdict, b)
           /\ CBecome(p, k)
    <2>1. minted' = minted + Cardinality(Refined(seen, verdict)) + new
      BY <1>2
    <2> HIDE DEF seen, d
    <2>2. QED
      BY <1>3, <1>5, <1>7, <1>8, <1>9, <2>1
  <1>12. \E w \in [DOMAIN seen -> Relation], b \in Nat, k \in CPass :
           /\ minted' = minted + Cardinality(Refined(seen, w)) + b
           /\ minted' \in minted .. MaxNotes
           /\ CPlan(k, seen, d, w, b)
           /\ CBecome(p, k)
    <2> HIDE DEF seen, d
    <2>1. QED
      BY <1>11
  <1>13. QED
    BY <1>1, <1>10, <1>12

\* A pass with some of its plan written.
LEMMA CWriteTyped ==
    ASSUME Types, NEW p \in CPasses, CUpsert(p) \/ CSupersede(p)
    PROVE  /\ cpass[p] \in CPass /\ cpass[p].pc = "write"
           /\ UNCHANGED <<released, minted>>
           /\ \E j \in CPass :
                 /\ j.pc = "write" /\ CBecome(p, j)
                 /\ j.upserts \subseteq cpass[p].upserts /\ j.supersedes \subseteq cpass[p].supersedes
           /\ \/ \E u \in cpass[p].upserts : UpsertNote(u.id, u.note)
              \/ \E s \in cpass[p].supersedes : SupersedeNote(s.old, s.id, s.note)
           /\ cpass[p].upserts \in SUBSET [id : NoteId, note : Note]
           /\ cpass[p].supersedes \in SUBSET [old : NoteId, id : NoteId, note : Note]
  <1>1. cpass[p] \in CPass \cup {CIdle} /\ cpass[p].pc = "write"
    BY TypesGive DEF CUpsert, CSupersede, CAt
  <1>2. cpass[p] \in [pc : {"write"}, todo : SUBSET Listed, cur : Digest,
               upserts : SUBSET [id : NoteId, note : Note],
               supersedes : SUBSET [old : NoteId, id : NoteId, note : Note]]
    BY <1>1 DEF CPass, CIdle
  <1>3. \A U \in SUBSET cpass[p].upserts :
           LET j == [cpass[p] EXCEPT !.upserts = U]
           IN j \in CPass /\ j.pc = "write" /\ j.upserts = U /\ j.supersedes = cpass[p].supersedes
    BY <1>2 DEF CPass
  <1>4. \A U \in SUBSET cpass[p].supersedes :
           LET j == [cpass[p] EXCEPT !.supersedes = U]
           IN j \in CPass /\ j.pc = "write" /\ j.supersedes = U /\ j.upserts = cpass[p].upserts
    BY <1>2 DEF CPass
  <1>5. CASE CUpsert(p)
    <2>1. PICK u \in cpass[p].upserts :
             UpsertNote(u.id, u.note) /\ CBecome(p, [cpass[p] EXCEPT !.upserts = cpass[p].upserts \ {u}])
      BY <1>5 DEF CUpsert
    <2> DEFINE j == [cpass[p] EXCEPT !.upserts = cpass[p].upserts \ {u}]
    <2>2. /\ j \in CPass /\ j.pc = "write" /\ j.upserts = cpass[p].upserts \ {u}
          /\ j.supersedes = cpass[p].supersedes
      BY <1>3
    <2>3. CBecome(p, j)
      BY <2>1
    <2> HIDE DEF j
    <2>4. UNCHANGED <<released, minted>>
      BY <1>5 DEF CUpsert
    <2>5. QED
      BY <1>1, <1>2, <2>1, <2>2, <2>3, <2>4 DEF CIdle
  <1>6. CASE CSupersede(p)
    <2>1. PICK s \in cpass[p].supersedes :
             /\ SupersedeNote(s.old, s.id, s.note)
             /\ CBecome(p, [cpass[p] EXCEPT !.supersedes = cpass[p].supersedes \ {s}])
      BY <1>6 DEF CSupersede
    <2> DEFINE j == [cpass[p] EXCEPT !.supersedes = cpass[p].supersedes \ {s}]
    <2>2. /\ j \in CPass /\ j.pc = "write" /\ j.supersedes = cpass[p].supersedes \ {s}
          /\ j.upserts = cpass[p].upserts
      BY <1>4
    <2>3. CBecome(p, j)
      BY <2>1
    <2> HIDE DEF j
    <2>4. UNCHANGED <<released, minted>>
      BY <1>6 DEF CSupersede
    <2>5. QED
      BY <1>1, <1>2, <2>1, <2>2, <2>3, <2>4 DEF CIdle
  <1>7. QED
    BY <1>5, <1>6

-----------------------------------------------------------------------------
\* Least and greatest elements

LEMMA Least ==
    ASSUME NEW T \in SUBSET Nat, T # {}
    PROVE  \E n \in T : \A m \in T : n <= m
  <1> DEFINE R == StrictSubsetOrdering(Nat)
             F == FiniteSubsetsOf(Nat)
             U == {0 .. n : n \in T}
  <1>1. IsWellFoundedOn(R, F)
    BY FS_StrictSubsetOrderingWellFounded
  <1>2. U \subseteq F /\ U # {}
    <2>1. \A n \in T : 0 .. n \in SUBSET Nat /\ IsFiniteSet(0 .. n)
      BY FS_Interval
    <2>2. QED
      BY <2>1 DEF FiniteSubsetsOf
  <1>3. \E x \in U : \A y \in U : ~(<<y, x>> \in R)
    <2> HIDE DEF R, F, U
    <2>1. QED
      BY <1>1, <1>2, WFMin
  <1>4. PICK n \in T : \A m \in T : ~(<<0 .. m, 0 .. n>> \in R)
    BY <1>3
  <1>5. ASSUME NEW m \in T, ~(n <= m)
        PROVE  FALSE
    <2>1. 0 .. m \subseteq 0 .. n /\ n \in 0 .. n /\ n \notin 0 .. m
      BY <1>5
    <2>2. 0 .. m # 0 .. n
      BY <2>1
    <2>3. <<0 .. m, 0 .. n>> \in R
      BY <2>1, <2>2 DEF StrictSubsetOrdering
    <2>4. QED
      BY <2>3, <1>4
  <1>6. QED
    BY <1>5

LEMMA Greatest ==
    ASSUME NEW N \in Nat, NEW T \in SUBSET (0 .. N), T # {}
    PROVE  \E n \in T : \A m \in T : m <= n
  <1> DEFINE U == {N - t : t \in T}
  <1>1. U \in SUBSET Nat /\ U # {}
    <2>1. \A t \in T : N - t \in Nat
      OBVIOUS
    <2>2. QED
      BY <2>1
  <1>2. PICK u \in U : \A w \in U : u <= w
    <2> HIDE DEF U
    <2>1. QED
      BY <1>1, Least
  <1>3. PICK n \in T : u = N - n
    OBVIOUS
  <1>4. ASSUME NEW m \in T
        PROVE  m <= n
    <2>1. N - m \in U
      OBVIOUS
    <2>2. N - n <= N - m
      BY <1>2, <1>3, <2>1
    <2>3. QED
      BY <2>2
  <1>5. QED
    BY <1>4

\* The article a page shows: the live one stamped last.
LEMMA CurrentOverviewIs ==
    ASSUME RowsTyped, NEW q
    PROVE  LET live == {i \in DOMAIN recent : Live(recent[i]) /\ note[recent[i]].project = q}
           IN /\ live = {} => CurrentOverview(q) = None
              /\ live # {} => \E i \in live : CurrentOverview(q) = recent[i] /\ \A j \in live : j <= i
  <1> DEFINE live == {i \in DOMAIN recent : Live(recent[i]) /\ note[recent[i]].project = q}
  <1>1. CurrentOverview(q) = IF live = {} THEN None ELSE recent[CHOOSE i \in live : \A j \in live : j <= i]
    BY DEF CurrentOverview
  <1>2. live \in SUBSET (0 .. Len(recent)) /\ Len(recent) \in Nat
    BY DEF RowsTyped
  <1>3. ASSUME live # {}
        PROVE  \E i \in live : CurrentOverview(q) = recent[i] /\ \A j \in live : j <= i
    <2> HIDE DEF live
    <2>1. \E i \in live : \A j \in live : j <= i
      BY <1>2, <1>3, Greatest
    <2>2. QED
      BY <1>1, <1>3, <2>1
  <1>4. live = {} => CurrentOverview(q) = None
    BY <1>1
  <1> HIDE DEF live
  <1>5. QED
    BY <1>3, <1>4 DEF live

LEMMA CurrentOverviewTyped ==
    ASSUME RowsTyped, NEW q
    PROVE  /\ CurrentOverview(q) \in NoteId \cup {None}
           /\ CurrentOverview(q) # None =>
                 Live(CurrentOverview(q)) /\ note[CurrentOverview(q)].project = q
  <1> DEFINE live == {i \in DOMAIN recent : Live(recent[i]) /\ note[recent[i]].project = q}
  <1>1. /\ live = {} => CurrentOverview(q) = None
        /\ live # {} => \E i \in live : CurrentOverview(q) = recent[i]
    BY CurrentOverviewIs
  <1>2. \A i \in live : recent[i] \in NoteId /\ Live(recent[i]) /\ note[recent[i]].project = q
    BY DEF RowsTyped
  <1> HIDE DEF live
  <1>3. QED
    BY <1>1, <1>2

-----------------------------------------------------------------------------
\* Steps of an overview pass that choose no project and write no note.
OPlain(p) ==
    \/ OBegin(p) \/ OEnd(p) \/ OAbandon(p) \/ OHold(p) \/ OQuota(p) \/ OCallFails(p) \/ OTooThin(p)
    \/ ORecordFailure(p) \/ OSettle(p) \/ OMark(p) \/ OCrash(p)

LEMMA OPlainTyped ==
    ASSUME Types, NEW p \in OPasses, OPlain(p)
    PROVE  /\ UNCHANGED <<released, notes>>
           /\ \E j \in OPass \cup {OIdle} : j.pc \notin {"call", "write"} /\ OBecome(p, j)
  <1>0. opass[p] \in OPass \cup {OIdle} /\ released \in SUBSET Digest
    BY TypesGive
  <1> DEFINE Goal == \E j \in OPass \cup {OIdle} : j.pc \notin {"call", "write"} /\ OBecome(p, j)
  <1>1. OIdle \in OPass \cup {OIdle} /\ OIdle.pc \notin {"call", "write"}
    BY DEF OIdle
  <1>2. \A T \in SUBSET Projects, s \in [Projects -> OState], n \in Nat :
           /\ [pc |-> "next", todo |-> T, seen |-> s, written |-> n] \in OPass
           /\ [pc |-> "next", todo |-> T, seen |-> s, written |-> n].pc \notin {"call", "write"}
    BY DEF OPass
  <1>3. ASSUME NEW n \in Nat, OLoops(p, n), opass[p].pc # "idle"
        PROVE  Goal
    <2>1. /\ opass[p].todo \in SUBSET Projects /\ opass[p].seen \in [Projects -> OState]
          /\ opass[p].written + n \in Nat
      BY <1>0, <1>3, OJobTyped
    <2>2. QED
      BY <1>2, <1>3, <2>1 DEF OLoops
  <1>4. ASSUME NEW l \in {"failed", "settle"}, OGoto(p, l), opass[p].pc = "call"
        PROVE  Goal
    <2> DEFINE j == [opass[p] EXCEPT !.pc = l]
    <2>1. opass[p] \in [pc : {"abandon", "hold", "call", "failed", "settle"}, todo : SUBSET Projects,
               seen : [Projects -> OState], written : Nat, project : Projects,
               comps : SUBSET Digest, prior : NoteId \cup {None}, stood : BOOLEAN]
      BY <1>0, <1>4 DEF OPass, OIdle
    <2>2. /\ j \in [pc : {"abandon", "hold", "call", "failed", "settle"}, todo : SUBSET Projects,
               seen : [Projects -> OState], written : Nat, project : Projects,
               comps : SUBSET Digest, prior : NoteId \cup {None}, stood : BOOLEAN]
          /\ j.pc = l
      BY <2>1
    <2>3. OBecome(p, j)
      BY <1>4 DEF OGoto
    <2> HIDE DEF j
    <2>4. j \in OPass
      BY <2>2 DEF OPass
    <2>5. QED
      BY <2>2, <2>3, <2>4
  <1>5. CASE OBegin(p)
    <2>1. {d.project : d \in released} \in SUBSET Projects
      BY <1>0 DEF Projects
    <2>2. ostate \in [Projects -> OState]
      BY DEF Types, TypeOK, OverviewTypeOK
    <2>3. QED
      BY <1>2, <1>5, <2>1, <2>2 DEF OBegin, notes
  <1>6. CASE OEnd(p)
    BY <1>1, <1>6 DEF OEnd, notes
  <1>7. CASE OAbandon(p)
    BY <1>3, <1>7 DEF OAbandon, OAt, notes
  <1>8. CASE OHold(p)
    BY <1>3, <1>8 DEF OHold, OAt, notes
  <1>9. CASE OQuota(p)
    BY <1>1, <1>9 DEF OQuota, notes
  <1>10. CASE OCallFails(p)
    BY <1>4, <1>10 DEF OCallFails, OAt, notes
  <1>11. CASE OTooThin(p)
    BY <1>4, <1>11 DEF OTooThin, OAt, notes
  <1>12. CASE ORecordFailure(p)
    BY <1>3, <1>12 DEF ORecordFailure, OAt, notes
  <1>13. CASE OSettle(p)
    BY <1>3, <1>13 DEF OSettle, OAt, notes
  <1>14. CASE OMark(p)
    BY <1>3, <1>14 DEF OMark, OAt, notes
  <1>15. CASE OCrash(p)
    BY <1>1, <1>15 DEF OCrash, notes
  <1>16. QED
    BY <1>5, <1>6, <1>7, <1>8, <1>9, <1>10, <1>11, <1>12, <1>13, <1>14, <1>15 DEF OPlain

LEMMA OLookTyped ==
    ASSUME Types, NEW p \in OPasses, OLook(p)
    PROVE  /\ UNCHANGED <<released, notes>>
           /\ \E j \in OPass :
                 /\ j.pc # "write" /\ OBecome(p, j)
                 /\ j.pc = "call" => \/ j.prior = None
                                     \/ Exists(j.prior) /\ note[j.prior].source # "human"
  <1>1. PICK project \in opass[p].todo :
           LET comps == Contributing(project)
               prior == CurrentOverview(project)
               label == Outlook(opass[p].seen[project], comps, prior)
               todo == opass[p].todo \ {project}
           IN IF label = "next"
              THEN OBecome(p, [opass[p] EXCEPT !.todo = todo])
              ELSE OBecome(p, [pc |-> label, todo |-> todo, seen |-> opass[p].seen,
                               written |-> opass[p].written, project |-> project,
                               comps |-> comps, prior |-> prior,
                               stood |-> prior # None /\ note[prior].status = "established"])
    BY DEF OLook
  <1> DEFINE comps == Contributing(project)
             prior == CurrentOverview(project)
             label == Outlook(opass[p].seen[project], comps, prior)
             todo == opass[p].todo \ {project}
             stood == prior # None /\ note[prior].status = "established"
  <1>2. opass[p] \in [pc : {"next"}, todo : SUBSET Projects, seen : [Projects -> OState], written : Nat]
    BY TypesGive DEF OLook, OAt, OPass, OIdle
  <1>3. project \in Projects /\ todo \in SUBSET Projects
    BY <1>2
  <1>4. comps \in SUBSET Digest
    BY TypesGive DEF Contributing
  <1>5. prior \in NoteId \cup {None} /\ (prior # None => Exists(prior))
    BY CurrentOverviewTyped, TypesGive DEF Live
  <1>6. stood \in BOOLEAN
    OBVIOUS
  <1>7. /\ label \in {"next", "abandon", "hold", "call"}
        /\ label = "call" => ~HumanHeld(prior)
    BY DEF Outlook
  <1>8. UNCHANGED <<released, notes>>
    BY DEF OLook, notes
  <1>9. CASE label = "next"
    <2> DEFINE j == [opass[p] EXCEPT !.todo = todo]
    <2>1. j \in [pc : {"next"}, todo : SUBSET Projects, seen : [Projects -> OState], written : Nat]
      BY <1>2, <1>3
    <2>2. OBecome(p, j)
      BY <1>1, <1>9
    <2> HIDE DEF j
    <2>3. j \in OPass /\ j.pc = "next"
      BY <2>1 DEF OPass
    <2>4. QED
      BY <1>8, <2>2, <2>3
  <1>10. CASE label # "next"
    <2> DEFINE j == [pc |-> label, todo |-> todo, seen |-> opass[p].seen,
                     written |-> opass[p].written, project |-> project,
                     comps |-> comps, prior |-> prior, stood |-> stood]
    <2>1. OBecome(p, j)
      BY <1>1, <1>10
    <2> HIDE DEF label, todo, comps, prior, stood
    <2>2. j \in OPass
      BY <1>2, <1>3, <1>4, <1>5, <1>6, <1>7, <1>10 DEF OPass
    <2>3. j.pc = label /\ j.prior = prior
      OBVIOUS
    <2> HIDE DEF j
    <2>4. j.pc # "write"
      BY <1>7, <2>3
    <2>5. j.pc = "call" => j.prior = None \/ (Exists(j.prior) /\ note[j.prior].source # "human")
      BY <1>5, <1>7, <2>3 DEF HumanHeld
    <2>6. QED
      BY <1>8, <2>1, <2>2, <2>4, <2>5
  <1>11. QED
    BY <1>9, <1>10

LEMMA OAnswerTyped ==
    ASSUME Types, NEW p \in OPasses, OAnswer(p)
    PROVE  /\ opass[p] \in OPass /\ opass[p].pc = "call" /\ opass[p].prior \in NoteId \cup {None}
           /\ minted + 1 \in NoteId /\ minted' = minted + 1
           /\ UNCHANGED <<released, note, recent>>
           /\ \E j \in OPass :
                 /\ j.pc = "write" /\ OBecome(p, j)
                 /\ j.id = minted + 1 /\ j.prior = opass[p].prior
                 /\ j.article = Article(opass[p].project, opass[p].comps, j.prior, opass[p].stood, minted + 1)
  <1> DEFINE k == opass[p]
             a == Article(k.project, k.comps, k.prior, k.stood, minted + 1)
             j == [pc |-> "write", todo |-> k.todo, seen |-> k.seen, written |-> k.written,
                   project |-> k.project, comps |-> k.comps, prior |-> k.prior, stood |-> k.stood,
                   id |-> minted + 1, article |-> a]
  <1>1. k \in OPass \cup {OIdle} /\ k.pc = "call"
    BY TypesGive DEF OAnswer, OAt
  <1>2. /\ k.todo \in SUBSET Projects /\ k.seen \in [Projects -> OState] /\ k.written \in Nat
        /\ k.project \in Projects /\ k.comps \in SUBSET Digest
        /\ k.prior \in NoteId \cup {None} /\ k.stood \in BOOLEAN
    BY <1>1, OJobTyped
  <1>3. k \in OPass
    BY <1>1 DEF OIdle
  <1>4. minted + 1 \in NoteId /\ minted' = minted + 1
    BY TypesGive DEF OAnswer, NoteId
  <1>5. OBecome(p, j) /\ UNCHANGED <<released, note, recent>>
    BY DEF OAnswer
  <1> HIDE DEF k
  <1>6. a \in Note
    BY <1>2, <1>4, ArticleTyped
  <1> HIDE DEF a
  <1>7. j \in OPass
    BY <1>2, <1>4, <1>6 DEF OPass
  <1>8. j.pc = "write" /\ j.id = minted + 1 /\ j.prior = k.prior /\ j.article = a
    OBVIOUS
  <1>9. a = Article(k.project, k.comps, k.prior, k.stood, minted + 1)
    BY DEF a
  <1> HIDE DEF j
  <1>10. QED
    BY <1>1, <1>2, <1>3, <1>4, <1>5, <1>7, <1>8, <1>9 DEF k

LEMMA OWriteTyped ==
    ASSUME Types, NEW p \in OPasses, OWrite(p)
    PROVE  /\ opass[p] \in OPass /\ opass[p].pc = "write"
           /\ opass[p].id \in NoteId /\ opass[p].article \in Note /\ opass[p].prior \in NoteId \cup {None}
           /\ IF opass[p].prior = None THEN UpsertNote(opass[p].id, opass[p].article)
              ELSE SupersedeNote(opass[p].prior, opass[p].id, opass[p].article)
           /\ UNCHANGED <<released, minted>>
           /\ \E j \in OPass : j.pc \notin {"call", "write"} /\ OBecome(p, j)
  <1>1. opass[p] \in OPass \cup {OIdle} /\ opass[p].pc = "write"
    BY TypesGive DEF OWrite, OAt
  <1>2. opass[p].id \in NoteId /\ opass[p].article \in Note /\ opass[p].prior \in NoteId \cup {None}
    BY <1>1, OJobTyped
  <1>3. opass[p] \in OPass
    BY <1>1 DEF OIdle
  <1> DEFINE j == [opass[p] EXCEPT !.pc = "mark"]
  <1>4. j \in OPass /\ j.pc = "mark"
    BY <1>1, <1>3 DEF OPass
  <1>5. OBecome(p, j)
    BY DEF OWrite, OGoto
  <1> HIDE DEF j
  <1>6. /\ IF opass[p].prior = None THEN UpsertNote(opass[p].id, opass[p].article)
           ELSE SupersedeNote(opass[p].prior, opass[p].id, opass[p].article)
        /\ UNCHANGED <<released, minted>>
    BY DEF OWrite
  <1>7. QED
    BY <1>1, <1>2, <1>3, <1>4, <1>5, <1>6

-----------------------------------------------------------------------------
\* The request threads

LEMMA EditorTyped ==
    ASSUME Types, NEW e \in Editors
    PROVE  /\ editor \in [Editors -> Editor \cup {EIdle}]
           /\ editor[e] \in Editor \cup {EIdle}
           /\ editor[e] # EIdle <=> editor[e] \in Editor
           /\ editor[e].pc \in {"edit", "confirm"} => editor[e] \in Editor
           /\ editor[e] \in Editor => /\ editor[e].id \in NoteId /\ editor[e].read \in Note
                                      /\ editor[e].text \in NoteId \cup {None}
                                      /\ editor[e].pc \in {"edit", "confirm"}
  <1>1. editor \in [Editors -> Editor \cup {EIdle}]
    BY DEF Types, TypeOK
  <1>2. QED
    BY <1>1 DEF Editor, EIdle

LEMMA ServeTyped ==
    ASSUME Types, NEW e \in Editors, NEW r \in Editor \cup {EIdle}, Serve(e, r)
    PROVE  /\ editor' \in [Editors -> Editor \cup {EIdle}]
           /\ editor'[e] = r
           /\ \A f \in Editors : f # e => editor'[f] = editor[f]
  BY DEF Serve, Types, TypeOK

\* A new text: the text of a version in the history, or none.
LEMMA ReadsTyped ==
    ASSUME Types, NEW e \in Editors, NEW n \in NoteId, NEW pc \in {"edit", "confirm"},
           NEW text \in NoteId \cup {None}, Reads(e, n, pc, text)
    PROVE  /\ Exists(n) /\ note[n] \in Note
           /\ \E r \in Editor : r.id = n /\ r.read = note[n] /\ Serve(e, r)
           /\ UNCHANGED <<released, notes, cvars, ovars, history>>
  <1>1. Exists(n) /\ note[n] \in Note
    BY TypesGive DEF Reads, RowsTyped, Exists
  <1> DEFINE r == [pc |-> pc, id |-> n, read |-> note[n], text |-> text]
  <1>2. r \in Editor /\ r.id = n /\ r.read = note[n]
    BY <1>1 DEF Editor
  <1>3. Serve(e, r)
    BY DEF Reads
  <1> HIDE DEF r
  <1>4. UNCHANGED <<released, notes, cvars, ovars, history>>
    BY DEF Reads
  <1>5. QED
    BY <1>1, <1>2, <1>3, <1>4

LEMMA WriteVersionTyped ==
    ASSUME Types, NEW e \in Editors, WriteVersion(e)
    PROVE  /\ editor[e] \in Editor
           /\ minted + 1 \in NoteId /\ minted' = minted + 1
           /\ spoken' = spoken \cup {minted + 1}
           /\ \E text \in NoteId :
                 /\ Edited(editor[e].read, text, minted + 1) \in Note
                 /\ SupersedeNote(editor[e].id, minted + 1, Edited(editor[e].read, text, minted + 1))
           /\ Serve(e, EIdle)
           /\ UNCHANGED <<released, cvars, ovars, limits, purged>>
  <1>1. editor[e] \in Editor
    BY EditorTyped DEF WriteVersion
  <1>2. minted + 1 \in NoteId /\ minted' = minted + 1
    BY TypesGive DEF WriteVersion, NoteId
  <1> DEFINE text == IF editor[e].text = None THEN minted + 1 ELSE editor[e].text
  <1>3. text \in NoteId
    BY <1>1, <1>2, EditorTyped
  <1>4. SupersedeNote(editor[e].id, minted + 1, Edited(editor[e].read, text, minted + 1))
    BY DEF WriteVersion
  <1> HIDE DEF text
  <1>5. Edited(editor[e].read, text, minted + 1) \in Note
    BY <1>1, <1>3, EditorTyped, EditedTyped
  <1>6. /\ spoken' = spoken \cup {minted + 1} /\ Serve(e, EIdle)
        /\ UNCHANGED <<released, cvars, ovars, limits, purged>>
    BY DEF WriteVersion
  <1>7. QED
    BY <1>1, <1>2, <1>3, <1>4, <1>5, <1>6

LEMMA WriteConfirmationTyped ==
    ASSUME Types, NEW e \in Editors, WriteConfirmation(e)
    PROVE  /\ editor[e] \in Editor
           /\ Confirmed(editor[e].read) \in Note
           /\ UpsertNote(editor[e].id, Confirmed(editor[e].read))
           /\ Serve(e, EIdle)
           /\ UNCHANGED <<released, minted, cvars, ovars, limits, history>>
  <1>1. editor[e] \in Editor
    BY EditorTyped DEF WriteConfirmation
  <1>2. Confirmed(editor[e].read) \in Note
    BY <1>1, EditorTyped DEF Confirmed, Note
  <1>3. QED
    BY <1>1, <1>2 DEF WriteConfirmation

\* The row a person creates, and the quote an arriving session leaves.
Spoken(kind, project, id) ==
    [kind |-> kind, project |-> project, text |-> id, source |-> "human", status |-> "established",
     evidence |-> {}, disputed |-> {}, actors |-> {}, prev |-> None, next |-> None]

Quoted(d, id) == [NewNote(d, id) EXCEPT !.kind = "quote"]

LEMMA CreateTyped ==
    ASSUME Types, NEW e \in Editors, NEW kind \in {"claim", "article"}, NEW project \in Projects,
           Create(e, kind, project)
    PROVE  /\ minted + 1 \in NoteId /\ minted' = minted + 1
           /\ spoken' = spoken \cup {minted + 1}
           /\ Spoken(kind, project, minted + 1) \in Note
           /\ UpsertNote(minted + 1, Spoken(kind, project, minted + 1))
           /\ UNCHANGED <<released, cvars, ovars, editor, purged>>
  <1>1. minted + 1 \in NoteId /\ minted' = minted + 1
    BY TypesGive DEF Create, NoteId
  <1>2. Spoken(kind, project, minted + 1) \in Note
    BY <1>1 DEF Spoken, Note
  <1>3. UpsertNote(minted + 1, Spoken(kind, project, minted + 1))
    BY DEF Create, Spoken
  <1>4. spoken' = spoken \cup {minted + 1} /\ UNCHANGED <<released, cvars, ovars, editor, purged>>
    BY DEF Create
  <1>5. QED
    BY <1>1, <1>2, <1>3, <1>4

LEMMA ArriveTyped ==
    ASSUME Types, NEW d \in Digest, Arrive(d)
    PROVE  /\ released' = released \cup {d}
           /\ \/ UNCHANGED notes
              \/ /\ minted + 1 \in NoteId /\ minted' = minted + 1
                 /\ Quoted(d, minted + 1) \in Note
                 /\ UpsertNote(minted + 1, Quoted(d, minted + 1))
           /\ UNCHANGED <<cvars, ovars, editor, limits, history>>
  <1>1. CASE UNCHANGED notes
    BY <1>1 DEF Arrive
  <1>2. CASE /\ minted < MaxNotes /\ minted' = minted + 1
             /\ UpsertNote(minted + 1, [NewNote(d, minted + 1) EXCEPT !.kind = "quote"])
    <2>1. minted + 1 \in NoteId
      BY <1>2, TypesGive DEF NoteId
    <2>2. Quoted(d, minted + 1) \in Note
      BY <2>1, NewNoteTyped DEF Quoted, Note
    <2>3. QED
      BY <1>2, <2>1, <2>2 DEF Arrive, Quoted
  <1>3. QED
    BY <1>1, <1>2 DEF Arrive

-----------------------------------------------------------------------------
\* The history of a version

\* The rows form a chain backwards: a version is younger than the one it replaces.
Backward == \A n \in NoteId : Exists(n) => note[n].prev < n

LineageStep(f) ==
    [n \in 0 .. MaxNotes |-> IF n = None THEN {} ELSE IF ~Exists(n) THEN {} ELSE {n} \cup f[note[n].prev]]

LEMMA LineageUnfolds ==
    ASSUME RowsTyped
    PROVE  Lineage = LineageStep(Lineage)
  <1> DEFINE Closed(C) == \A k \in C : Exists(k) /\ (note[k].prev # None /\ Exists(note[k].prev) => note[k].prev \in C)
             Cl(n) == {m \in NoteId : \A C \in SUBSET NoteId : Closed(C) /\ n \in C => m \in C}
             f == [n \in 0 .. MaxNotes |-> IF n = None THEN {} ELSE IF ~Exists(n) THEN {} ELSE Cl(n)]
  <1>1. \A n \in NoteId : n \in 0 .. MaxNotes /\ n # None
    BY DEF NoteId, None
  <1>2. \A n \in NoteId : Exists(n) => note[n].prev \in NoteId \cup {None}
    BY DEF RowsTyped, Exists, Note
  <1>3. ASSUME NEW n \in NoteId, Exists(n)
        PROVE  Cl(n) = {n} \cup f[note[n].prev]
    <2>1. CASE note[n].prev = None
      <3>1. f[note[n].prev] = {}
        BY <2>1 DEF None
      <3>2. Closed({n})
        BY <1>3, <2>1
      <3>3. Cl(n) \subseteq {n}
        BY <3>2
      <3>4. QED
        BY <3>1, <3>3
    <2>2. CASE note[n].prev # None /\ ~Exists(note[n].prev)
      <3>1. note[n].prev \in 0 .. MaxNotes
        BY <1>1, <1>2, <1>3, <2>2
      <3>2. f[note[n].prev] = {}
        BY <2>2, <3>1
      <3>3. Closed({n})
        BY <1>3, <2>2
      <3>4. Cl(n) \subseteq {n}
        BY <3>3
      <3>5. QED
        BY <3>2, <3>4
    <2>3. CASE note[n].prev # None /\ Exists(note[n].prev)
      <3> DEFINE q == note[n].prev
      <3>1. q \in NoteId /\ q \in 0 .. MaxNotes
        BY <1>1, <1>2, <1>3, <2>3
      <3>2. f[q] = Cl(q)
        BY <2>3, <3>1
      <3>3. ASSUME NEW C \in SUBSET NoteId, Closed(C), q \in C
            PROVE  Closed({n} \cup C)
        BY <1>3, <3>3
      <3>4. Cl(n) \subseteq {n} \cup Cl(q)
        <4>1. SUFFICES ASSUME NEW m \in Cl(n), m # n, NEW C \in SUBSET NoteId, Closed(C), q \in C
                       PROVE  m \in C
          OBVIOUS
        <4>2. Closed({n} \cup C) /\ {n} \cup C \in SUBSET NoteId
          BY <3>3, <4>1
        <4>3. m \in {n} \cup C
          BY <4>1, <4>2
        <4>4. QED
          BY <4>1, <4>3
      <3>5. ASSUME NEW C \in SUBSET NoteId, Closed(C), n \in C
            PROVE  q \in C
        BY <2>3, <3>5
      <3>6. Cl(q) \subseteq Cl(n)
        BY <3>5
      <3>7. n \in Cl(n)
        OBVIOUS
      <3>8. f[note[n].prev] = Cl(q)
        BY <3>2
      <3> HIDE DEF f, Cl, q, Closed
      <3>9. QED
        BY <3>4, <3>6, <3>7, <3>8
    <2>4. QED
      BY <2>1, <2>2, <2>3
  <1>4. f = LineageStep(f)
    <2>1. \A n \in 0 .. MaxNotes : n # None => n \in NoteId
      BY DEF NoteId, None
    <2>2. \A n \in 0 .. MaxNotes :
             f[n] = IF n = None THEN {} ELSE IF ~Exists(n) THEN {} ELSE {n} \cup f[note[n].prev]
      BY <1>3, <2>1
    <2>3. f = [n \in 0 .. MaxNotes |-> f[n]]
      OBVIOUS
    <2> HIDE DEF f
    <2>4. QED
      BY <2>2, <2>3 DEF LineageStep
  <1> DEFINE P(g) == g = LineageStep(g)
  <1>5. Lineage = CHOOSE g : P(g)
    BY DEF Lineage, LineageStep
  <1>6. \E g : P(g)
    BY <1>4
  <1>7. P(CHOOSE g : P(g))
    <2> HIDE DEF P
    <2>1. QED
      BY <1>6
  <1>8. QED
    BY <1>5, <1>7

LEMMA HistoryUnfolds ==
    ASSUME RowsTyped, NEW n \in NoteId \cup {None}
    PROVE  History(n) = IF n = None THEN {} ELSE IF ~Exists(n) THEN {} ELSE {n} \cup History(note[n].prev)
  <1>1. Lineage = LineageStep(Lineage)
    BY LineageUnfolds
  <1>2. n \in 0 .. MaxNotes
    BY DEF NoteId, None
  <1>3. LineageStep(Lineage)[n] =
           IF n = None THEN {} ELSE IF ~Exists(n) THEN {} ELSE {n} \cup Lineage[note[n].prev]
    BY <1>2 DEF LineageStep
  <1>4. QED
    BY <1>1, <1>3 DEF History

\* What a history holds exists, and is no younger.
LEMMA HistoryExists ==
    ASSUME RowsTyped, Backward
    PROVE  \A n \in NoteId \cup {None} : \A t \in History(n) : t \in NoteId /\ Exists(t) /\ t <= n
  <1> DEFINE Bad == {n \in NoteId \cup {None} : \E t \in History(n) : ~(t \in NoteId /\ Exists(t) /\ t <= n)}
  <1>1. SUFFICES ASSUME Bad # {}
                 PROVE  FALSE
    OBVIOUS
  <1>2. Bad \in SUBSET Nat
    BY DEF NoteId, None
  <1>3. PICK n \in Bad : \A m \in Bad : n <= m
    <2> HIDE DEF Bad
    <2>1. QED
      BY <1>1, <1>2, Least
  <1>4. PICK t \in History(n) : ~(t \in NoteId /\ Exists(t) /\ t <= n)
    OBVIOUS
  <1>5. n \in NoteId /\ Exists(n) /\ History(n) = {n} \cup History(note[n].prev)
    BY <1>4, HistoryUnfolds
  <1>6. n \in Nat /\ note[n].prev \in NoteId \cup {None} /\ note[n].prev \in Nat /\ note[n].prev < n
    <2>1. n \in Nat /\ note[n].prev \in NoteId \cup {None} /\ note[n].prev < n
      BY <1>5 DEF RowsTyped, Exists, Note, Backward, NoteId
    <2>2. QED
      BY <2>1 DEF NoteId, None
  <1>7. t # n
    BY <1>4, <1>5, <1>6
  <1>8. t \in History(note[n].prev)
    BY <1>4, <1>5, <1>7
  <1>9. note[n].prev \notin Bad
    <2>1. ~(n <= note[n].prev)
      BY <1>6
    <2> HIDE DEF Bad
    <2>2. QED
      BY <1>3, <2>1
  <1>10. t \in NoteId /\ Exists(t) /\ t <= note[n].prev
    BY <1>6, <1>8, <1>9
  <1>11. t <= n
    <2>1. t \in Nat
      BY <1>10 DEF NoteId
    <2>2. QED
      BY <1>6, <1>10, <2>1
  <1>12. QED
    BY <1>4, <1>10, <1>11

-----------------------------------------------------------------------------
\* The steps, by what they disturb

TargetsExist == \A n \in NoteId : \A t \in History(n) : t \in NoteId /\ Exists(t)

Reading ==
    \E e \in Editors, n \in NoteId, pc \in {"edit", "confirm"}, text \in NoteId \cup {None} : Reads(e, n, pc, text)
Creating == \E e \in Editors, kind \in {"claim", "article"}, project \in Projects : Create(e, kind, project)
LettingGo == \E e \in Editors : Serve(e, EIdle) /\ UNCHANGED <<released, notes, cvars, ovars, history>>
CSteps(A(_)) == \E p \in CPasses : A(p) /\ UNCHANGED <<ovars, editor, history>>
OSteps(A(_)) == \E p \in OPasses : A(p) /\ UNCHANGED <<cvars, editor, history>>
CWrite(p) == CUpsert(p) \/ CSupersede(p)
Retrying ==
    /\ \E project \in Projects : ostate' = [ostate EXCEPT ![project] = NoOState]
    /\ UNCHANGED <<released, notes, cvars, opass, editor, history>>

LEMMA NextSplits ==
    ASSUME Types, TargetsExist, Next
    PROVE  \/ \E d \in Digest : Arrive(d)
           \/ \E S \in SUBSET released : Purge(S)
           \/ Creating \/ Reading \/ LettingGo
           \/ \E e \in Editors : WriteVersion(e) \/ WriteConfirmation(e)
           \/ CSteps(CPlain) \/ CSteps(CRetrieve) \/ CSteps(CAnswer) \/ CSteps(CWrite)
           \/ OSteps(OPlain) \/ OSteps(OLook) \/ OSteps(OAnswer) \/ OSteps(OWrite)
           \/ Retrying
  <1> USE DEF CSteps, OSteps
  <1>1. CASE \E d \in Digest : Arrive(d)
    BY <1>1
  <1>2. CASE \E S \in SUBSET released : Purge(S)
    BY <1>2
  <1>3. ASSUME NEW e \in Editors, Editing(e)
        PROVE  \/ Creating \/ Reading \/ LettingGo
               \/ WriteVersion(e) \/ WriteConfirmation(e)
    <2>1. CASE \E kind \in {"claim", "article"}, project \in Projects : Create(e, kind, project)
      BY <2>1 DEF Creating
    <2>2. ASSUME NEW n \in NoteId, EditNote(e, n) \/ ConfirmNote(e, n)
          PROVE  Reading
      BY <2>2 DEF EditNote, ConfirmNote, Reading
    <2>3. ASSUME NEW n \in NoteId, NEW target \in NoteId, RevertNote(e, n, target)
          PROVE  Reading
      <3>1. target \in NoteId /\ Exists(target)
        BY <2>3 DEF RevertNote, TargetsExist
      <3>2. note[target] \in Note
        BY <3>1, TypesGive DEF RowsTyped, Exists
      <3>3. note[target].text \in NoteId
        BY <3>2 DEF Note
      <3>4. Reads(e, n, "edit", note[target].text)
        BY <2>3 DEF RevertNote
      <3>5. QED
        BY <3>3, <3>4 DEF Reading
    <2>4. CASE WriteVersion(e) \/ WriteConfirmation(e)
      BY <2>4
    <2>5. CASE VersionGone(e)
      BY <2>5 DEF VersionGone, LettingGo
    <2>6. QED
      BY <1>3, <2>1, <2>2, <2>3, <2>4, <2>5 DEF Editing
  <1>4. ASSUME NEW p \in CPasses, StartConsolidation(p) \/ Consolidates(p)
        PROVE  \/ CSteps(CPlain) \/ CSteps(CRetrieve) \/ CSteps(CAnswer) \/ CSteps(CWrite)
    BY <1>4 DEF StartConsolidation, Consolidates, Consolidating, CPlain, CWrite
  <1>5. ASSUME NEW p \in OPasses, StartOverview(p) \/ Overviews(p)
        PROVE  \/ OSteps(OPlain) \/ OSteps(OLook) \/ OSteps(OAnswer) \/ OSteps(OWrite)
    BY <1>5 DEF StartOverview, Overviews, Overviewing, OPlain
  <1>6. ASSUME NEW project \in Projects, RetryOverview(project)
        PROVE  Retrying
    BY <1>6 DEF RetryOverview, ORetry, Retrying
  <1>7. CASE Crash
    <2>1. ASSUME NEW p \in CPasses, CCrash(p), UNCHANGED <<ovars, editor, history>>
          PROVE  CSteps(CPlain)
      BY <2>1 DEF CPlain
    <2>2. ASSUME NEW p \in OPasses, OCrash(p), UNCHANGED <<cvars, editor, history>>
          PROVE  OSteps(OPlain)
      BY <2>2 DEF OPlain
    <2>3. ASSUME NEW e \in Editors, Serve(e, EIdle), UNCHANGED <<released, notes, cvars, ovars, history>>
          PROVE  LettingGo
      BY <2>3 DEF LettingGo
    <2>4. QED
      BY <1>7, <2>1, <2>2, <2>3 DEF Crash
  <1>8. QED
    BY <1>1, <1>2, <1>3, <1>4, <1>5, <1>6, <1>7 DEF Next

-----------------------------------------------------------------------------
\* The state rows and the counters

Books ==
    /\ cstate \in [Digest -> CState] /\ applied \in SUBSET Digest
    /\ ostate \in [Projects -> OState]
    /\ requests \in Nat /\ crashes \in Nat

LEMMA CBooks ==
    ASSUME Types, NEW p \in CPasses, Consolidating(p)
    PROVE  cstate' \in [Digest -> CState] /\ applied' \in SUBSET Digest
  <1>0. cstate \in [Digest -> CState] /\ applied \in SUBSET Digest
    BY DEF Types, TypeOK, ConsolidationTypeOK
  <1>1. cpass[p].pc \in {"abandon", "failed", "write"} => cpass[p].cur \in Digest
    BY TypesGive, CJobTyped
  <1>2. \A d \in Digest : cstate[d].attempts \in Nat /\ cstate[d].attempts + 1 \in Nat
    BY <1>0 DEF CState
  <1>3. \A s \in {"none", "failed", "done", "abandoned"}, n \in Nat : [state |-> s, attempts |-> n] \in CState
    BY DEF CState
  <1>4. CASE CAbandon(p)
    <2> DEFINE d == cpass[p].cur
               n == IF cstate[d] = NoCState THEN 1 ELSE cstate[d].attempts
    <2>1. d \in Digest /\ n \in Nat
      BY <1>1, <1>2, <1>4 DEF CAbandon, CAt
    <2>2. cstate' = [cstate EXCEPT ![d] = [state |-> "abandoned", attempts |-> n]] /\ applied' = applied
      BY <1>4 DEF CAbandon
    <2> HIDE DEF n, d
    <2>3. QED
      BY <1>0, <1>3, <2>1, <2>2
  <1>5. CASE CRecordFailure(p)
    BY <1>0, <1>1, <1>2, <1>3, <1>5 DEF CRecordFailure, CAt
  <1>6. CASE CMark(p)
    BY <1>0, <1>1, <1>3, <1>6 DEF CMark, CAt
  <1>7. CASE UNCHANGED <<cstate, applied>>
    BY <1>0, <1>7
  <1>8. QED
    BY <1>4, <1>5, <1>6, <1>7 DEF Consolidating, CEnd, CTake, CRetrieve, CQuota, CCallFails,
       CAnswer, CUpsert, CSupersede

LEMMA OBooks ==
    ASSUME Types, NEW p \in OPasses, Overviewing(p)
    PROVE  ostate' \in [Projects -> OState]
  <1>0. ostate \in [Projects -> OState]
    BY DEF Types, TypeOK, OverviewTypeOK
  <1>1. opass[p].pc \in {"abandon", "hold", "failed", "settle", "mark"} =>
           opass[p].project \in Projects /\ opass[p].comps \in SUBSET Digest
    BY TypesGive, OJobTyped
  <1>2. \A s \in {"none", "failed", "done", "human_held", "insufficient", "abandoned"},
           C \in SUBSET Digest, n \in Nat : [state |-> s, contributors |-> C, attempts |-> n] \in OState
    BY DEF OState
  <1>3. ASSUME NEW s \in {"human_held", "insufficient", "done"}, MarkDone(p, s),
               opass[p].pc \in {"hold", "settle", "mark"}
        PROVE  ostate' \in [Projects -> OState]
    BY <1>0, <1>1, <1>2, <1>3 DEF MarkDone
  <1>4. CASE OAbandon(p)
    <2>1. \A v \in OState : [v EXCEPT !.state = "abandoned"] \in OState
      BY DEF OState
    <2>2. opass[p].project \in Projects
      BY <1>1, <1>4 DEF OAbandon, OAt
    <2>3. ostate' = [ostate EXCEPT ![opass[p].project] = [ostate[opass[p].project] EXCEPT !.state = "abandoned"]]
      BY <1>4 DEF OAbandon
    <2>4. QED
      BY <1>0, <2>1, <2>2, <2>3
  <1>5. CASE ORecordFailure(p)
    <2> DEFINE q == opass[p].project
    <2>1. q \in Projects
      BY <1>1, <1>5 DEF ORecordFailure, OAt
    <2>2. ostate[q].contributors \in SUBSET Digest /\ ostate[q].attempts + 1 \in Nat
      BY <1>0, <2>1 DEF OState
    <2>3. ostate' = [ostate EXCEPT ![q] = [state |-> "failed",
             contributors |-> ostate[q].contributors, attempts |-> ostate[q].attempts + 1]]
      BY <1>5 DEF ORecordFailure
    <2> HIDE DEF q
    <2>4. QED
      BY <1>0, <1>2, <2>1, <2>2, <2>3
  <1>6. CASE OHold(p)
    BY <1>3, <1>6 DEF OHold, OAt
  <1>7. CASE OSettle(p)
    BY <1>3, <1>7 DEF OSettle, OAt
  <1>8. CASE OMark(p)
    BY <1>3, <1>8 DEF OMark, OAt
  <1>9. CASE UNCHANGED ostate
    BY <1>0, <1>9
  <1>10. QED
    BY <1>4, <1>5, <1>6, <1>7, <1>8, <1>9 DEF Overviewing, OEnd, OLook, OQuota, OCallFails, OTooThin,
       OAnswer, OWrite

LEMMA BooksStep ==
    ASSUME Types, [Next]_vars
    PROVE  Books'
  <1>0. /\ cstate \in [Digest -> CState] /\ applied \in SUBSET Digest
        /\ ostate \in [Projects -> OState]
        /\ requests \in Nat /\ crashes \in Nat
    BY DEF Types, TypeOK, NotesTypeOK, ConsolidationTypeOK, OverviewTypeOK
  <1>1. requests + 1 \in Nat /\ crashes + 1 \in Nat
    BY <1>0
  <1>2. CASE UNCHANGED <<cvars, ovars, limits>>
    BY <1>0, <1>2 DEF Books, cvars, ovars, limits
  <1>3. ASSUME UNCHANGED <<cvars, ovars, crashes>>, Request
        PROVE  Books'
    BY <1>0, <1>1, <1>3 DEF Books, cvars, ovars, Request
  <1>4. ASSUME NEW d \in Digest, Arrive(d)
        PROVE  Books'
    BY <1>2, <1>4 DEF Arrive
  <1>5. ASSUME NEW S \in SUBSET released, Purge(S)
        PROVE  Books'
    <2>1. NoCState \in CState
      BY DEF NoCState, CState
    <2>2. cstate' \in [Digest -> CState] /\ applied' \in SUBSET Digest
      BY <1>0, <1>5, <2>1 DEF Purge
    <2>3. QED
      BY <1>0, <1>1, <1>5, <2>2 DEF Purge, Request, Books, ovars
  <1>6. ASSUME NEW e \in Editors, Editing(e)
        PROVE  Books'
    BY <1>2, <1>3, <1>6 DEF Editing, Create, EditNote, ConfirmNote, RevertNote, Reads, WriteVersion,
       VersionGone, WriteConfirmation
  <1>7. ASSUME NEW p \in CPasses, StartConsolidation(p)
        PROVE  Books'
    BY <1>0, <1>1, <1>7 DEF StartConsolidation, CBegin, Request, Books, ovars
  <1>8. ASSUME NEW p \in CPasses, Consolidates(p)
        PROVE  Books'
    BY <1>0, <1>8, CBooks DEF Consolidates, Books, ovars, limits
  <1>9. ASSUME NEW p \in OPasses, StartOverview(p)
        PROVE  Books'
    BY <1>0, <1>1, <1>9 DEF StartOverview, OBegin, Request, Books, cvars
  <1>10. ASSUME NEW p \in OPasses, Overviews(p)
         PROVE  Books'
    BY <1>0, <1>10, OBooks DEF Overviews, Books, cvars, limits
  <1>11. ASSUME NEW q \in Projects, RetryOverview(q)
         PROVE  Books'
    <2>1. NoOState \in OState
      BY DEF NoOState, OState
    <2>2. ostate' \in [Projects -> OState]
      BY <1>0, <1>11, <2>1 DEF RetryOverview, ORetry
    <2>3. QED
      BY <1>0, <1>1, <1>11, <2>2 DEF RetryOverview, Request, Books, cvars
  <1>12. CASE Crash
    <2>1. requests' \in Nat /\ crashes' \in Nat
      BY <1>0, <1>1, <1>12 DEF Crash
    <2>2. UNCHANGED <<cstate, applied, ostate>>
      BY <1>12 DEF Crash, CCrash, OCrash, cvars, ovars
    <2>3. QED
      BY <1>0, <2>1, <2>2 DEF Books
  <1>13. CASE UNCHANGED vars
    BY <1>2, <1>13 DEF vars
  <1>14. QED
    BY <1>4, <1>5, <1>6, <1>7, <1>8, <1>9, <1>10, <1>11, <1>12, <1>13 DEF Next

Parts ==
    /\ RowsTyped /\ minted \in 0 .. MaxNotes /\ released \in SUBSET Digest
    /\ cpass \in [CPasses -> CPass \cup {CIdle}]
    /\ opass \in [OPasses -> OPass \cup {OIdle}]
    /\ editor \in [Editors -> Editor \cup {EIdle}]
    /\ purged \in SUBSET Digest /\ spoken \in SUBSET NoteId
    /\ Books

LEMMA TypesFrom == Parts <=> Types
  <1>1. ASSUME cpass \in [CPasses -> CPass \cup {CIdle}]
        PROVE  \A p \in CPasses : cpass[p].pc \in {"idle", "next", "abandon", "retrieve", "failed", "call", "write"}
    BY <1>1 DEF CPass, CIdle
  <1>2. ASSUME opass \in [OPasses -> OPass \cup {OIdle}]
        PROVE  \A p \in OPasses : opass[p].pc \in {"idle", "next", "abandon", "hold", "call", "failed",
                                                   "settle", "write", "mark"}
    BY <1>2 DEF OPass, OIdle
  <1>3. QED
    BY <1>1, <1>2 DEF Parts, Types, TypeOK, NotesTypeOK, ConsolidationTypeOK, OverviewTypeOK, RowsTyped, Books

LEMMA TypesInit == Init => Types
  <1> SUFFICES ASSUME Init
               PROVE  Types
    OBVIOUS
  <1>1. RowsTyped /\ minted \in 0 .. MaxNotes /\ released \in SUBSET Digest
    <2>1. <<>> \in Seq(NoteId)
      OBVIOUS
    <2>2. QED
      BY <2>1 DEF Init, NotesInit, RowsTyped
  <1>2. cpass \in [CPasses -> CPass \cup {CIdle}] /\ opass \in [OPasses -> OPass \cup {OIdle}]
    BY DEF Init, ConsolidationInit, OverviewInit
  <1>3. editor \in [Editors -> Editor \cup {EIdle}] /\ purged \in SUBSET Digest /\ spoken \in SUBSET NoteId
    BY DEF Init
  <1>4. Books
    BY DEF Books, Init, NotesInit, ConsolidationInit, OverviewInit, CState, NoCState, OState, NoOState
  <1>5. QED
    BY <1>1, <1>2, <1>3, <1>4, TypesFrom DEF Parts

LEMMA TypesStep ==
    ASSUME Types, TargetsExist, [Next]_vars
    PROVE  Types'
  <1> DEFINE Rows == RowsTyped' /\ minted' \in 0 .. MaxNotes /\ released' \in SUBSET Digest
             CJobs == cpass' \in [CPasses -> CPass \cup {CIdle}]
             OJobs == opass' \in [OPasses -> OPass \cup {OIdle}]
             People == /\ editor' \in [Editors -> Editor \cup {EIdle}]
                       /\ purged' \in SUBSET Digest /\ spoken' \in SUBSET NoteId
  <1>0. /\ RowsTyped /\ minted \in 0 .. MaxNotes /\ released \in SUBSET Digest
        /\ cpass \in [CPasses -> CPass \cup {CIdle}]
        /\ opass \in [OPasses -> OPass \cup {OIdle}]
        /\ editor \in [Editors -> Editor \cup {EIdle}]
        /\ purged \in SUBSET Digest /\ spoken \in SUBSET NoteId
    BY TypesFrom DEF Parts
  <1>1. Books'
    BY BooksStep
  <1>2. UNCHANGED <<released, notes>> => Rows
    BY <1>0 DEF RowsTyped, notes
  <1>3. UNCHANGED cvars => CJobs
    BY <1>0 DEF cvars
  <1>4. UNCHANGED ovars => OJobs
    BY <1>0 DEF ovars
  <1>5. UNCHANGED <<editor, history>> => People
    BY <1>0 DEF history
  <1>6. minted + 1 \in NoteId => minted + 1 \in 0 .. MaxNotes
    BY DEF NoteId
  <1>7. EIdle \in Editor \cup {EIdle}
    OBVIOUS
  <1> DEFINE Goal == Rows /\ CJobs /\ OJobs /\ People
  <1> SUFFICES Goal
    <2>1. ASSUME Goal
          PROVE  Parts'
      BY <1>1, <2>1 DEF Parts
    <2>2. QED
      BY <2>1, TypesFrom, PTL
  <1>8. ASSUME NEW d \in Digest, Arrive(d)
        PROVE  Goal
    <2>1. released' \in SUBSET Digest
      BY <1>0, <1>8, ArriveTyped
    <2>2. RowsTyped' /\ minted' \in 0 .. MaxNotes
      <3>1. CASE UNCHANGED notes
        BY <1>0, <3>1 DEF RowsTyped, notes
      <3>2. CASE /\ minted + 1 \in NoteId /\ minted' = minted + 1
                 /\ Quoted(d, minted + 1) \in Note
                 /\ UpsertNote(minted + 1, Quoted(d, minted + 1))
        <4>1. RowsTyped'
          BY <1>0, <3>2, UpsertTyped
        <4>2. QED
          BY <1>6, <3>2, <4>1
      <3>3. QED
        BY <1>8, <3>1, <3>2, ArriveTyped
    <2>3. UNCHANGED <<cvars, ovars, editor, history>>
      BY <1>8 DEF Arrive
    <2>4. QED
      BY <1>3, <1>4, <1>5, <2>1, <2>2, <2>3
  <1>9. ASSUME NEW S \in SUBSET released, Purge(S)
        PROVE  Goal
    <2>1. RowsTyped'
      BY <1>0, <1>9, StripTyped DEF Purge
    <2>2. released' \in SUBSET Digest /\ purged' \in SUBSET Digest
          /\ UNCHANGED <<minted, cpass, ovars, editor, spoken>>
      BY <1>0, <1>9 DEF Purge
    <2>3. QED
      BY <1>0, <1>4, <2>1, <2>2
  <1>10. CASE Creating
    <2>1. PICK e \in Editors, kind \in {"claim", "article"}, project \in Projects : Create(e, kind, project)
      BY <1>10 DEF Creating
    <2>2. /\ minted + 1 \in NoteId /\ minted' = minted + 1
          /\ spoken' = spoken \cup {minted + 1}
          /\ Spoken(kind, project, minted + 1) \in Note
          /\ UpsertNote(minted + 1, Spoken(kind, project, minted + 1))
          /\ UNCHANGED <<released, cvars, ovars, editor, purged>>
      BY <2>1, CreateTyped
    <2>3. RowsTyped'
      BY <1>0, <2>2, UpsertTyped
    <2>4. Rows
      BY <1>0, <1>6, <2>2, <2>3
    <2>5. People
      BY <1>0, <2>2
    <2> HIDE DEF Rows, People, CJobs, OJobs
    <2>6. QED
      BY <1>3, <1>4, <2>2, <2>4, <2>5
  <1>11. CASE Reading
    <2>1. PICK e \in Editors, n \in NoteId, pc \in {"edit", "confirm"}, text \in NoteId \cup {None} :
             Reads(e, n, pc, text)
      BY <1>11 DEF Reading
    <2>2. PICK r \in Editor : Serve(e, r) /\ UNCHANGED <<released, notes, cvars, ovars, history>>
      BY <2>1, ReadsTyped
    <2>3. editor' \in [Editors -> Editor \cup {EIdle}]
      BY <2>2, ServeTyped
    <2>4. People
      BY <1>0, <2>2, <2>3 DEF history
    <2> HIDE DEF Rows, People, CJobs, OJobs
    <2>5. QED
      BY <1>2, <1>3, <1>4, <2>2, <2>4
  <1>12. CASE LettingGo
    <2>1. PICK e \in Editors : Serve(e, EIdle) /\ UNCHANGED <<released, notes, cvars, ovars, history>>
      BY <1>12 DEF LettingGo
    <2>2. editor' \in [Editors -> Editor \cup {EIdle}]
      BY <1>7, <2>1, ServeTyped
    <2>3. People
      BY <1>0, <2>1, <2>2 DEF history
    <2> HIDE DEF Rows, People, CJobs, OJobs
    <2>4. QED
      BY <1>2, <1>3, <1>4, <2>1, <2>3
  <1>13. ASSUME NEW e \in Editors, WriteVersion(e)
         PROVE  Goal
    <2>1. /\ editor[e] \in Editor
          /\ minted + 1 \in NoteId /\ minted' = minted + 1
          /\ spoken' = spoken \cup {minted + 1}
          /\ Serve(e, EIdle)
          /\ UNCHANGED <<released, cvars, ovars, limits, purged>>
      BY <1>13, WriteVersionTyped
    <2>2. PICK text \in NoteId :
                 /\ Edited(editor[e].read, text, minted + 1) \in Note
                 /\ SupersedeNote(editor[e].id, minted + 1, Edited(editor[e].read, text, minted + 1))
      BY <1>13, WriteVersionTyped
    <2>3. editor[e].id \in NoteId
      BY <2>1, EditorTyped
    <2>4. RowsTyped'
      BY <1>0, <2>1, <2>2, <2>3, SupersedeTyped
    <2>5. editor' \in [Editors -> Editor \cup {EIdle}]
      BY <1>7, <2>1, ServeTyped
    <2>6. QED
      BY <1>0, <1>3, <1>4, <1>6, <2>1, <2>4, <2>5
  <1>14. ASSUME NEW e \in Editors, WriteConfirmation(e)
         PROVE  Goal
    <2>1. /\ editor[e] \in Editor
          /\ Confirmed(editor[e].read) \in Note
          /\ UpsertNote(editor[e].id, Confirmed(editor[e].read))
          /\ Serve(e, EIdle)
          /\ UNCHANGED <<released, minted, cvars, ovars, limits, history>>
      BY <1>14, WriteConfirmationTyped
    <2>2. editor[e].id \in NoteId
      BY <2>1, EditorTyped
    <2>3. RowsTyped'
      BY <1>0, <2>1, <2>2, UpsertTyped
    <2>4. editor' \in [Editors -> Editor \cup {EIdle}]
      BY <1>7, <2>1, ServeTyped
    <2>5. QED
      BY <1>0, <1>3, <1>4, <2>1, <2>3, <2>4 DEF history
  <1>15. ASSUME NEW p \in CPasses, UNCHANGED <<ovars, editor, history>>,
                CPlain(p) \/ CRetrieve(p) \/ CAnswer(p) \/ CWrite(p)
         PROVE  Goal
    <2>1. CASE CPlain(p)
      <3>1. PICK j \in CPass \cup {CIdle} : CBecome(p, j)
        BY <2>1, CPlainTyped
      <3>2. CJobs
        BY <1>0, <3>1, CBecomeTyped
      <3>3. UNCHANGED <<released, notes>>
        BY <2>1, CPlainTyped
      <3>4. QED
        BY <1>2, <1>4, <1>5, <1>15, <3>2, <3>3
    <2>2. CASE CRetrieve(p)
      <3>1. PICK j \in CPass : CBecome(p, j) /\ UNCHANGED <<released, notes>>
        BY <2>2, CRetrieveTyped
      <3>2. CJobs
        BY <1>0, <3>1, CBecomeTyped
      <3>3. QED
        BY <1>2, <1>4, <1>5, <1>15, <3>1, <3>2
    <2>3. CASE CAnswer(p)
      <3>1. PICK j \in CPass : CBecome(p, j) /\ minted' \in minted .. MaxNotes
        BY <2>3, CAnswerTyped
      <3>2. CJobs
        BY <1>0, <3>1, CBecomeTyped
      <3>3. UNCHANGED <<released, note, recent>>
        BY <2>3, CAnswerTyped
      <3>4. RowsTyped' /\ minted' \in 0 .. MaxNotes /\ released' \in SUBSET Digest
        BY <1>0, <3>1, <3>3 DEF RowsTyped
      <3>5. QED
        BY <1>4, <1>5, <1>15, <3>2, <3>4
    <2>4. CASE CWrite(p)
      <3>1. PICK j \in CPass : CBecome(p, j)
        BY <2>4, CWriteTyped DEF CWrite
      <3>2. CJobs
        BY <1>0, <3>1, CBecomeTyped
      <3>3. /\ UNCHANGED <<released, minted>>
            /\ \/ \E u \in cpass[p].upserts : UpsertNote(u.id, u.note)
               \/ \E s \in cpass[p].supersedes : SupersedeNote(s.old, s.id, s.note)
            /\ cpass[p].upserts \in SUBSET [id : NoteId, note : Note]
            /\ cpass[p].supersedes \in SUBSET [old : NoteId, id : NoteId, note : Note]
        BY <2>4, CWriteTyped DEF CWrite
      <3>4. RowsTyped'
        BY <1>0, <3>3, UpsertTyped, SupersedeTyped
      <3>5. QED
        BY <1>0, <1>4, <1>5, <1>15, <3>2, <3>3, <3>4
    <2>5. QED
      BY <1>15, <2>1, <2>2, <2>3, <2>4
  <1>16. ASSUME NEW p \in OPasses, UNCHANGED <<cvars, editor, history>>,
                OPlain(p) \/ OLook(p) \/ OAnswer(p) \/ OWrite(p)
         PROVE  Goal
    <2>1. CASE OPlain(p)
      <3>1. PICK j \in OPass \cup {OIdle} : OBecome(p, j)
        BY <2>1, OPlainTyped
      <3>2. OJobs
        BY <1>0, <3>1, OBecomeTyped
      <3>3. UNCHANGED <<released, notes>>
        BY <2>1, OPlainTyped
      <3>4. QED
        BY <1>2, <1>3, <1>5, <1>16, <3>2, <3>3
    <2>2. CASE OLook(p)
      <3>1. PICK j \in OPass : OBecome(p, j)
        BY <2>2, OLookTyped
      <3>2. OJobs
        BY <1>0, <3>1, OBecomeTyped
      <3>3. UNCHANGED <<released, notes>>
        BY <2>2, OLookTyped
      <3>4. QED
        BY <1>2, <1>3, <1>5, <1>16, <3>2, <3>3
    <2>3. CASE OAnswer(p)
      <3>1. PICK j \in OPass : OBecome(p, j)
        BY <2>3, OAnswerTyped
      <3>2. OJobs
        BY <1>0, <3>1, OBecomeTyped
      <3>3. UNCHANGED <<released, note, recent>> /\ minted' \in 0 .. MaxNotes
        BY <1>6, <2>3, OAnswerTyped
      <3>4. RowsTyped' /\ released' \in SUBSET Digest
        BY <1>0, <3>3 DEF RowsTyped
      <3>5. QED
        BY <1>3, <1>5, <1>16, <3>2, <3>3, <3>4
    <2>4. CASE OWrite(p)
      <3>1. PICK j \in OPass : OBecome(p, j)
        BY <2>4, OWriteTyped
      <3>2. OJobs
        BY <1>0, <3>1, OBecomeTyped
      <3>3. /\ opass[p].id \in NoteId /\ opass[p].article \in Note /\ opass[p].prior \in NoteId \cup {None}
            /\ IF opass[p].prior = None THEN UpsertNote(opass[p].id, opass[p].article)
               ELSE SupersedeNote(opass[p].prior, opass[p].id, opass[p].article)
            /\ UNCHANGED <<released, minted>>
        BY <2>4, OWriteTyped
      <3>4. RowsTyped'
        BY <1>0, <3>3, UpsertTyped, SupersedeTyped
      <3>5. QED
        BY <1>0, <1>3, <1>5, <1>16, <3>2, <3>3, <3>4
    <2>5. QED
      BY <1>16, <2>1, <2>2, <2>3, <2>4
  <1>17. CASE Retrying
    <2>1. OJobs
      BY <1>0, <1>17 DEF Retrying
    <2> HIDE DEF Rows, People, CJobs, OJobs
    <2>2. QED
      BY <1>2, <1>3, <1>5, <1>17, <2>1 DEF Retrying
  <1>18. CASE UNCHANGED vars
    <2> HIDE DEF Rows, People, CJobs, OJobs
    <2>1. QED
      BY <1>2, <1>3, <1>4, <1>5, <1>18 DEF vars
  <1>19. Goal
    <2> HIDE DEF Goal
    <2>1. CASE Next
      BY <1>8, <1>9, <1>10, <1>11, <1>12, <1>13, <1>14, <1>15, <1>16, <1>17, <2>1, NextSplits
         DEF CSteps, OSteps
    <2>2. QED
      BY <1>18, <2>1
  <1>20. QED
    BY <1>19

-----------------------------------------------------------------------------
\* What a version says never changes

\* o[n] is version n as it was first written, or as it will be by the plan that drew
\* its id; version n agrees with it for ever.
Matches(v, o, n) ==
    /\ o[n] \in Note
    /\ v.text = o[n].text /\ v.source = o[n].source /\ v.prev = o[n].prev /\ v.kind = o[n].kind

RowsConform(o) == \A n \in NoteId : Exists(n) => n <= minted /\ Matches(note[n], o, n)

AuthorsConform(o) ==
    /\ spoken \subseteq 1 .. minted
    /\ \A n \in NoteId : n <= minted /\ o[n] # Absent =>
          /\ o[n].source = "human" <=> n \in spoken
          /\ o[n].prev < n
          /\ o[n].prev \in spoken => n \in spoken

EditConform(o, m, r) == r \in Editor => r.id <= m /\ Matches(r.read, o, r.id)

CConform(o, m, j) ==
    /\ j.pc = "call" => \A n \in DOMAIN j.seen : n <= m /\ Matches(j.seen[n], o, n)
    /\ j.pc = "write" =>
          /\ \A u \in j.upserts : u.id <= m /\ Matches(u.note, o, u.id)
          /\ \A s \in j.supersedes : s.id <= m /\ s.note.prev = s.old /\ Matches(s.note, o, s.id)

OConform(o, m, j) ==
    /\ j.pc = "call" => \/ j.prior = None
                        \/ j.prior <= m /\ o[j.prior] \in Note /\ o[j.prior].source # "human"
    /\ j.pc = "write" => j.id <= m /\ j.article.prev = j.prior /\ Matches(j.article, o, j.id)

Conform(o) ==
    /\ o \in [NoteId -> Note \cup {Absent}]
    /\ RowsConform(o) /\ AuthorsConform(o)
    /\ \A e \in Editors : EditConform(o, minted, editor[e])
    /\ \A p \in CPasses : CConform(o, minted, cpass[p])
    /\ \A p \in OPasses : OConform(o, minted, opass[p])

Grows(o, o2, m) == \A n \in NoteId : n <= m => o2[n] = o[n]

LEMMA MatchesKept ==
    ASSUME NEW o, NEW o2, NEW m \in Nat, Grows(o, o2, m), NEW n \in NoteId, n <= m, NEW v, Matches(v, o, n)
    PROVE  Matches(v, o2, n)
  BY DEF Grows, Matches

LEMMA JobsKept ==
    ASSUME NEW o, NEW o2, NEW m \in Nat, NEW m2 \in Nat, m <= m2, Grows(o, o2, m)
    PROVE  /\ \A r : EditConform(o, m, r) => EditConform(o2, m2, r)
           /\ \A j \in CPass \cup {CIdle} : CConform(o, m, j) => CConform(o2, m2, j)
           /\ \A j \in OPass \cup {OIdle} : OConform(o, m, j) => OConform(o2, m2, j)
  <1>1. \A n \in NoteId : n <= m => n <= m2
    BY DEF NoteId
  <1>2. ASSUME NEW r, EditConform(o, m, r)
        PROVE  EditConform(o2, m2, r)
    <2>1. r \in Editor => r.id \in NoteId
      BY DEF Editor
    <2>2. QED
      BY <1>1, <1>2, <2>1, MatchesKept DEF EditConform
  <1>3. ASSUME NEW j \in CPass \cup {CIdle}, CConform(o, m, j)
        PROVE  CConform(o2, m2, j)
    <2>1. ASSUME j.pc = "call", NEW n \in DOMAIN j.seen
          PROVE  n <= m2 /\ Matches(j.seen[n], o2, n)
      <3>1. n \in NoteId
        BY <2>1, CJobTyped DEF Seen
      <3>2. n <= m /\ Matches(j.seen[n], o, n)
        BY <1>3, <2>1 DEF CConform
      <3>3. QED
        BY <1>1, <3>1, <3>2, MatchesKept
    <2>2. ASSUME j.pc = "write", NEW u \in j.upserts
          PROVE  u.id <= m2 /\ Matches(u.note, o2, u.id)
      <3>1. u.id \in NoteId
        BY <2>2, CJobTyped
      <3>2. u.id <= m /\ Matches(u.note, o, u.id)
        BY <1>3, <2>2 DEF CConform
      <3>3. QED
        BY <1>1, <3>1, <3>2, MatchesKept
    <2>3. ASSUME j.pc = "write", NEW s \in j.supersedes
          PROVE  s.id <= m2 /\ s.note.prev = s.old /\ Matches(s.note, o2, s.id)
      <3>1. s.id \in NoteId
        BY <2>3, CJobTyped
      <3>2. s.id <= m /\ s.note.prev = s.old /\ Matches(s.note, o, s.id)
        BY <1>3, <2>3 DEF CConform
      <3>3. QED
        BY <1>1, <3>1, <3>2, MatchesKept
    <2>4. QED
      BY <2>1, <2>2, <2>3 DEF CConform
  <1>4. ASSUME NEW j \in OPass \cup {OIdle}, OConform(o, m, j)
        PROVE  OConform(o2, m2, j)
    <2>1. j.pc = "call" => j.prior \in NoteId \cup {None}
      BY OJobTyped
    <2>2. j.pc = "write" => j.id \in NoteId
      BY OJobTyped
    <2>3. ASSUME j.pc = "call", j.prior # None
          PROVE  j.prior <= m2 /\ o2[j.prior] \in Note /\ o2[j.prior].source # "human"
      <3>1. j.prior \in NoteId /\ j.prior <= m /\ o[j.prior] \in Note /\ o[j.prior].source # "human"
        BY <1>4, <2>1, <2>3 DEF OConform
      <3>2. QED
        BY <1>1, <3>1 DEF Grows
    <2>4. ASSUME j.pc = "write"
          PROVE  j.id <= m2 /\ j.article.prev = j.prior /\ Matches(j.article, o2, j.id)
      <3>1. j.id \in NoteId /\ j.id <= m /\ j.article.prev = j.prior /\ Matches(j.article, o, j.id)
        BY <1>4, <2>2, <2>4 DEF OConform
      <3>2. QED
        BY <1>1, <3>1, MatchesKept
    <2>5. QED
      BY <2>3, <2>4 DEF OConform
  <1>5. QED
    BY <1>2, <1>3, <1>4

\* The pieces of a step put together.
LEMMA Assemble ==
    ASSUME Types, Types', NEW o, Conform(o), NEW o2 \in [NoteId -> Note \cup {Absent}],
           Grows(o, o2, minted), minted' \in minted .. MaxNotes,
           RowsConform(o2)', AuthorsConform(o2)',
           \A e \in Editors : editor'[e] = editor[e] \/ EditConform(o2, minted, editor[e])'
                              \/ editor'[e] = EIdle,
           \A p \in CPasses : cpass'[p] = cpass[p] \/ CConform(o2, minted, cpass[p])',
           \A p \in OPasses : opass'[p] = opass[p] \/ OConform(o2, minted, opass[p])'
    PROVE  Conform(o2)'
  <1>1. minted \in Nat /\ minted' \in Nat /\ minted <= minted'
    BY TypesGive
  <1>2. ASSUME NEW e \in Editors
        PROVE  EditConform(o2, minted, editor[e])'
    <2>1. EditConform(o, minted, editor[e])
      BY DEF Conform
    <2>2. EditConform(o2, minted', editor[e])
      BY <1>1, <2>1, JobsKept
    <2>3. EditConform(o2, minted', EIdle)
      BY DEF EditConform, Editor, EIdle
    <2>4. QED
      BY <2>2, <2>3
  <1>3. ASSUME NEW p \in CPasses
        PROVE  CConform(o2, minted, cpass[p])'
    <2>1. CConform(o, minted, cpass[p]) /\ cpass[p] \in CPass \cup {CIdle}
      BY TypesGive DEF Conform
    <2>2. CConform(o2, minted', cpass[p])
      BY <1>1, <2>1, JobsKept
    <2>3. QED
      BY <2>2
  <1>4. ASSUME NEW p \in OPasses
        PROVE  OConform(o2, minted, opass[p])'
    <2>1. OConform(o, minted, opass[p]) /\ opass[p] \in OPass \cup {OIdle}
      BY TypesGive DEF Conform
    <2>2. OConform(o2, minted', opass[p])
      BY <1>1, <2>1, JobsKept
    <2>3. QED
      BY <2>2
  <1>5. QED
    BY <1>2, <1>3, <1>4 DEF Conform

-----------------------------------------------------------------------------
\* Writes that keep what a version says

LEMMA RowsKept ==
    ASSUME Types, NEW o, RowsConform(o), NEW o2, Grows(o, o2, minted), minted' \in Nat, minted <= minted',
           UNCHANGED note
    PROVE  RowsConform(o2)'
  <1>1. minted \in Nat
    BY TypesGive
  <1>2. ASSUME NEW n \in NoteId, Exists(n)'
        PROVE  n <= minted' /\ Matches(note'[n], o2, n)
    <2>1. Exists(n) /\ note'[n] = note[n]
      BY <1>2 DEF Exists
    <2>2. n <= minted /\ Matches(note[n], o, n)
      BY <2>1 DEF RowsConform
    <2>3. n <= minted'
      BY <1>1, <2>2 DEF NoteId
    <2>4. QED
      BY <1>1, <2>1, <2>2, <2>3, MatchesKept
  <1>3. QED
    BY <1>2 DEF RowsConform

LEMMA UpsertConforms ==
    ASSUME Types, NEW o, RowsConform(o), NEW o2, Grows(o, o2, minted), minted' \in Nat, minted <= minted',
           NEW id \in NoteId, NEW v, UpsertNote(id, v), id <= minted', Matches(v, o2, id)
    PROVE  RowsConform(o2)'
  <1>1. minted \in Nat /\ note \in [NoteId -> Note \cup {Absent}]
    BY TypesGive DEF RowsTyped
  <1>2. ASSUME NEW n \in NoteId, Exists(n)'
        PROVE  n <= minted' /\ Matches(note'[n], o2, n)
    <2>1. CASE n = id
      BY <1>1, <2>1 DEF UpsertNote
    <2>2. CASE n # id
      <3>1. Exists(n) /\ note'[n] = note[n]
        BY <1>1, <1>2, <2>2 DEF Exists, UpsertNote
      <3>2. n <= minted /\ Matches(note[n], o, n)
        BY <3>1 DEF RowsConform
      <3>3. n <= minted'
        BY <1>1, <3>2 DEF NoteId
      <3>4. QED
        BY <1>1, <3>1, <3>2, <3>3, MatchesKept
    <2>3. QED
      BY <2>1, <2>2
  <1>3. QED
    BY <1>2 DEF RowsConform

\* The old version keeps what it says.
LEMMA Retired ==
    ASSUME NEW v \in Note, NEW n \in NoteId
    PROVE  LET w == [v EXCEPT !.status = "superseded", !.next = n]
           IN w \in Note /\ w.text = v.text /\ w.source = v.source /\ w.prev = v.prev /\ w.kind = v.kind
              /\ w.evidence = v.evidence /\ w.disputed = v.disputed /\ w.project = v.project
              /\ w.status = "superseded" /\ w.next = n
  BY DEF Note

LEMMA RetiredAbsent ==
    ASSUME NEW n
    PROVE  [Absent EXCEPT !.status = "superseded", !.next = n] = Absent
  <1> DEFINE w == [Absent EXCEPT !.status = "superseded"]
  <1>1. w = Absent
    BY DEF Absent
  <1>2. [w EXCEPT !.next = n] = Absent
    BY <1>1 DEF Absent
  <1>3. QED
    BY <1>2

LEMMA SupersedeConforms ==
    ASSUME Types, NEW o, RowsConform(o), NEW o2, Grows(o, o2, minted), minted' \in Nat, minted <= minted',
           NEW old \in NoteId, NEW id \in NoteId, NEW v \in Note,
           SupersedeNote(old, id, v), id <= minted', Matches([v EXCEPT !.prev = old], o2, id)
    PROVE  RowsConform(o2)'
  <1>1. minted \in Nat /\ note \in [NoteId -> Note \cup {Absent}]
    BY TypesGive DEF RowsTyped
  <1> DEFINE w == [note[old] EXCEPT !.status = "superseded", !.next = id]
             x == [v EXCEPT !.prev = old]
  <1>2. note' = [note EXCEPT ![old] = w, ![id] = x]
    BY DEF SupersedeNote
  <1>3. /\ note[old] = Absent => w = Absent
        /\ note[old] # Absent => /\ w.text = note[old].text /\ w.source = note[old].source
                                 /\ w.prev = note[old].prev /\ w.kind = note[old].kind
    <2>1. CASE note[old] = Absent
      <3>1. w = Absent
        BY <2>1, RetiredAbsent
      <3>2. QED
        BY <2>1, <3>1
    <2>2. CASE note[old] # Absent
      <3>1. note[old] \in Note
        BY <1>1, <2>2
      <3>2. QED
        BY ZenonT(60), <2>2, <3>1, Retired
    <2>3. QED
      BY <2>1, <2>2
  <1>4. Matches(x, o2, id)
    OBVIOUS
  <1> HIDE DEF w, x
  <1>5. ASSUME NEW n \in NoteId, Exists(n)'
        PROVE  n <= minted' /\ Matches(note'[n], o2, n)
    <2>1. CASE n = id
      BY <1>1, <1>2, <1>4, <2>1
    <2>2. CASE n # id
      <3>1. note'[n] = IF n = old THEN w ELSE note[n]
        BY <1>1, <1>2, <2>2
      <3>2. note[n] # Absent
        BY <1>3, <1>5, <3>1 DEF Exists
      <3>3. n <= minted /\ Matches(note[n], o, n)
        BY <3>2 DEF RowsConform, Exists
      <3>4. Matches(note[n], o2, n) /\ n <= minted'
        BY SMTT(30), <1>1, <3>3, MatchesKept DEF NoteId
      <3>5. Matches(note'[n], o2, n)
        BY <1>3, <3>1, <3>2, <3>4 DEF Matches
      <3>6. QED
        BY <3>4, <3>5
    <2>3. QED
      BY <2>1, <2>2
  <1>6. QED
    BY <1>5 DEF RowsConform

LEMMA StrippedKeeps ==
    ASSUME NEW v \in Note, NEW S, Stripped(v, S) # Absent
    PROVE  LET w == Stripped(v, S)
           IN /\ w.text = v.text /\ w.source = v.source /\ w.prev = v.prev /\ w.kind = v.kind
              /\ w.project = v.project /\ w.next = v.next
              /\ w.evidence = v.evidence \ S /\ w.disputed = v.disputed \ S
              /\ w.status = "superseded" <=> v.status = "superseded"
  <1>1. Stripped(v, S) = [v EXCEPT !.evidence = v.evidence \ S, !.disputed = v.disputed \ S,
                !.status = IF v.evidence \ S = {} /\ v.source = "ai" /\ v.status # "superseded"
                           THEN "stale" ELSE v.status]
    BY DEF Stripped
  <1>2. QED
    BY <1>1 DEF Note

LEMMA StripConforms ==
    ASSUME Types, NEW o, RowsConform(o), NEW S, StripNotes(S), UNCHANGED minted
    PROVE  RowsConform(o)'
  <1>1. minted \in Nat /\ note \in [NoteId -> Note \cup {Absent}]
    BY TypesGive DEF RowsTyped
  <1>2. ASSUME NEW n \in NoteId, Exists(n)'
        PROVE  n <= minted' /\ Matches(note'[n], o, n)
    <2>1. note'[n] = IF Cites(note[n], S) THEN Stripped(note[n], S) ELSE note[n]
      BY <1>1 DEF StripNotes
    <2>2. Exists(n)
      BY <1>2, <2>1 DEF Exists, Cites
    <2>3. n <= minted /\ Matches(note[n], o, n) /\ note[n] \in Note
      BY <1>1, <2>2 DEF RowsConform, Exists
    <2>4. Matches(note'[n], o, n)
      BY <1>2, <2>1, <2>3, StrippedKeeps DEF Matches, Exists
    <2>5. QED
      BY <2>3, <2>4
  <1>3. QED
    BY <1>2 DEF RowsConform

-----------------------------------------------------------------------------
LEMMA AuthorsGrow ==
    ASSUME Types, NEW o, AuthorsConform(o), NEW o2, Grows(o, o2, minted), minted' \in Nat, minted <= minted',
           spoken \subseteq spoken', spoken' \subseteq 1 .. minted',
           \A n \in spoken' : n \in spoken \/ n > minted,
           \A n \in NoteId : minted < n /\ n <= minted' /\ o2[n] # Absent =>
              /\ o2[n].source = "human" <=> n \in spoken'
              /\ o2[n].prev < n
              /\ o2[n].prev \in spoken' => n \in spoken',
           o \in [NoteId -> Note \cup {Absent}]
    PROVE  AuthorsConform(o2)'
  <1>1. minted \in Nat
    BY TypesGive
  <1>2. ASSUME NEW n \in NoteId, n <= minted', o2[n] # Absent
        PROVE  /\ o2[n].source = "human" <=> n \in spoken'
               /\ o2[n].prev < n
               /\ o2[n].prev \in spoken' => n \in spoken'
    <2>1. CASE minted < n
      BY <1>2, <2>1
    <2>2. CASE ~(minted < n)
      <3>1. n <= minted /\ n \in Nat
        BY <1>1, <2>2 DEF NoteId
      <3>2. o2[n] = o[n] /\ o[n] \in Note
        BY <1>2, <3>1 DEF Grows
      <3>3. /\ o[n].source = "human" <=> n \in spoken
            /\ o[n].prev < n
            /\ o[n].prev \in spoken => n \in spoken
        BY <1>2, <3>1, <3>2 DEF AuthorsConform
      <3>4. n \in spoken' <=> n \in spoken
        BY <1>1, <3>1
      <3>5. o[n].prev \in Nat
        BY <3>2 DEF Note, NoteId, None
      <3>6. o[n].prev \in spoken' => o[n].prev \in spoken
        BY <1>1, <3>1, <3>3, <3>5
      <3>7. QED
        BY <3>2, <3>3, <3>4, <3>6
    <2>3. QED
      BY <2>1, <2>2
  <1>3. QED
    BY <1>2 DEF AuthorsConform

LEMMA GrowsSame == \A o, m : Grows(o, o, m)
  BY DEF Grows

LEMMA AuthorsKept ==
    ASSUME NEW o, AuthorsConform(o), UNCHANGED <<minted, spoken>>
    PROVE  AuthorsConform(o)'
  BY DEF AuthorsConform

\* One id more, for a row w.
LEMMA MintsOne ==
    ASSUME Types, NEW o, Conform(o), minted + 1 \in NoteId, minted' = minted + 1, NEW w \in Note,
           w.prev < minted + 1,
           \/ w.source = "human" /\ spoken' = spoken \cup {minted + 1}
           \/ w.source = "ai" /\ spoken' = spoken /\ w.prev \notin spoken
    PROVE  \E o2 \in [NoteId -> Note \cup {Absent}] :
              /\ Grows(o, o2, minted) /\ o2[minted + 1] = w
              /\ AuthorsConform(o2)'
              /\ minted' \in minted .. MaxNotes
  <1>0. minted \in Nat /\ minted' \in Nat /\ minted <= minted' /\ o \in [NoteId -> Note \cup {Absent}]
    BY TypesGive DEF Conform
  <1>1. PICK o2 \in [NoteId -> Note \cup {Absent}] :
           o2[minted + 1] = w /\ \A n \in NoteId : n # minted + 1 => o2[n] = o[n]
    <2> DEFINE f == [o EXCEPT ![minted + 1] = w]
    <2>1. f \in [NoteId -> Note \cup {Absent}]
      BY <1>0
    <2>2. f[minted + 1] = w /\ \A n \in NoteId : n # minted + 1 => f[n] = o[n]
      BY <1>0
    <2> HIDE DEF f
    <2>3. QED
      BY <2>1, <2>2
  <1>2. Grows(o, o2, minted)
    <2>1. \A n \in NoteId : n <= minted => n # minted + 1
      BY <1>0
    <2>2. QED
      BY <1>1, <2>1 DEF Grows
  <1>3. minted' \in minted .. MaxNotes
    BY <1>0 DEF NoteId
  <1>4. AuthorsConform(o) /\ spoken \subseteq 1 .. minted
    BY DEF Conform, AuthorsConform
  <1>5. minted + 1 \notin spoken
    BY <1>0, <1>4
  <1>6. /\ spoken \subseteq spoken' /\ spoken' \subseteq 1 .. minted'
        /\ \A n \in spoken' : n \in spoken \/ n > minted
    <2>1. spoken \subseteq spoken' /\ spoken' \subseteq spoken \cup {minted + 1}
      OBVIOUS
    <2>2. \A n \in 1 .. minted : n \in 1 .. minted'
      BY <1>0
    <2>3. minted + 1 \in 1 .. minted' /\ minted + 1 > minted
      BY <1>0
    <2>4. spoken' \subseteq 1 .. minted'
      BY <1>4, <2>1, <2>2, <2>3
    <2>5. QED
      BY <2>1, <2>3, <2>4
  <1>7. ASSUME NEW n \in NoteId, minted < n, n <= minted', o2[n] # Absent
        PROVE  /\ o2[n].source = "human" <=> n \in spoken'
               /\ o2[n].prev < n
               /\ o2[n].prev \in spoken' => n \in spoken'
    <2>1. n = minted + 1
      BY <1>0, <1>7 DEF NoteId
    <2>2. o2[n] = w
      BY <1>1, <2>1
    <2>3. w.prev # minted + 1
      BY <1>0 DEF Note, NoteId, None
    <2>4. QED
      BY <1>5, <2>1, <2>2, <2>3
  <1>8. AuthorsConform(o2)'
    BY <1>0, <1>2, <1>4, <1>6, <1>7, AuthorsGrow
  <1>9. QED
    BY <1>1, <1>2, <1>3, <1>8

\* What a step must show.
Grown(o) == \E o2 \in [NoteId -> Note \cup {Absent}] : Grows(o, o2, minted) /\ Conform(o2)'

LEMMA QuietStep ==
    ASSUME Types, Types', NEW o, Conform(o), UNCHANGED <<note, minted, spoken>>,
           \A e \in Editors : editor'[e] = editor[e] \/ EditConform(o, minted, editor[e])' \/ editor'[e] = EIdle,
           \A p \in CPasses : cpass'[p] = cpass[p] \/ CConform(o, minted, cpass[p])',
           \A p \in OPasses : opass'[p] = opass[p] \/ OConform(o, minted, opass[p])'
    PROVE  Grown(o)
  <1>1. minted' \in Nat /\ minted <= minted' /\ minted' \in minted .. MaxNotes
    BY TypesGive
  <1>2. RowsConform(o)'
    BY <1>1, RowsKept, GrowsSame DEF Conform
  <1>3. AuthorsConform(o)'
    BY AuthorsKept DEF Conform
  <1>4. o \in [NoteId -> Note \cup {Absent}] /\ Grows(o, o, minted)
    BY GrowsSame DEF Conform
  <1>5. Conform(o)'
    BY <1>1, <1>2, <1>3, <1>4, Assemble
  <1>6. QED
    BY <1>4, <1>5 DEF Grown

LEMMA ArriveConforms ==
    ASSUME Types, Types', NEW o, Conform(o), NEW d \in Digest, Arrive(d)
    PROVE  Grown(o)
  <1>0. UNCHANGED <<cvars, ovars, editor, limits, history>>
    BY ArriveTyped
  <1>1. UNCHANGED <<cpass, opass, editor, spoken>>
    BY <1>0 DEF cvars, ovars, history
  <1>2. CASE UNCHANGED notes
    BY <1>1, <1>2, QuietStep DEF notes
  <1>3. CASE /\ minted + 1 \in NoteId /\ minted' = minted + 1
             /\ Quoted(d, minted + 1) \in Note
             /\ UpsertNote(minted + 1, Quoted(d, minted + 1))
    <2> DEFINE w == Quoted(d, minted + 1)
    <2>1. w.source = "ai" /\ w.prev = None
      BY DEF Quoted, NewNote
    <2>2. minted \in Nat /\ minted <= minted' /\ minted' \in Nat
      BY <1>3, TypesGive
    <2>3. None \notin spoken /\ None < minted + 1
      BY <2>2 DEF Conform, AuthorsConform, None
    <2>4. w \in Note /\ UpsertNote(minted + 1, w)
      BY <1>3
    <2> HIDE DEF w
    <2>5. PICK o2 \in [NoteId -> Note \cup {Absent}] :
              /\ Grows(o, o2, minted) /\ o2[minted + 1] = w
              /\ AuthorsConform(o2)'
              /\ minted' \in minted .. MaxNotes
      BY <1>1, <1>3, <2>1, <2>3, <2>4, MintsOne
    <2>6. RowsConform(o2)'
      <3>1. Matches(w, o2, minted + 1)
        BY <2>4, <2>5 DEF Matches
      <3>2. RowsConform(o) /\ minted + 1 <= minted'
        BY <1>3, <2>2 DEF Conform
      <3>3. QED
        BY <1>3, <2>2, <2>4, <2>5, <3>1, <3>2, UpsertConforms
    <2>7. Conform(o2)'
      BY <1>1, <2>5, <2>6, Assemble
    <2>8. QED
      BY <2>5, <2>7 DEF Grown
  <1>4. QED
    BY <1>2, <1>3, ArriveTyped

LEMMA CreateConforms ==
    ASSUME Types, Types', NEW o, Conform(o), NEW e \in Editors, NEW kind \in {"claim", "article"},
           NEW project \in Projects, Create(e, kind, project)
    PROVE  Grown(o)
  <1> DEFINE w == Spoken(kind, project, minted + 1)
  <1>0. /\ minted + 1 \in NoteId /\ minted' = minted + 1
        /\ spoken' = spoken \cup {minted + 1}
        /\ w \in Note /\ UpsertNote(minted + 1, w)
        /\ UNCHANGED <<released, cvars, ovars, editor, purged>>
    BY CreateTyped
  <1>1. UNCHANGED <<cpass, opass, editor>>
    BY <1>0 DEF cvars, ovars
  <1>2. minted \in Nat /\ minted <= minted' /\ minted' \in Nat
    BY <1>0, TypesGive
  <1>3. w.source = "human" /\ w.prev = None
    BY DEF Spoken
  <1>4. w.prev < minted + 1
    BY <1>2, <1>3 DEF None
  <1> HIDE DEF w
  <1>5. PICK o2 \in [NoteId -> Note \cup {Absent}] :
            /\ Grows(o, o2, minted) /\ o2[minted + 1] = w
            /\ AuthorsConform(o2)'
            /\ minted' \in minted .. MaxNotes
    BY <1>0, <1>3, <1>4, MintsOne
  <1>6. RowsConform(o2)'
    <2>1. Matches(w, o2, minted + 1)
      BY <1>0, <1>5 DEF Matches
    <2>2. RowsConform(o) /\ minted + 1 <= minted'
      BY <1>0, <1>2 DEF Conform
    <2>3. QED
      BY <1>0, <1>2, <1>5, <2>1, <2>2, UpsertConforms
  <1>7. Conform(o2)'
    BY <1>1, <1>5, <1>6, Assemble
  <1>8. QED
    BY <1>5, <1>7 DEF Grown

LEMMA ReadsConforms ==
    ASSUME Types, Types', NEW o, Conform(o), Reading
    PROVE  Grown(o)
  <1>1. PICK e \in Editors, n \in NoteId, pc \in {"edit", "confirm"}, text \in NoteId \cup {None} :
           Reads(e, n, pc, text)
    BY DEF Reading
  <1>2. /\ Exists(n) /\ note[n] \in Note
        /\ UNCHANGED <<released, notes, cvars, ovars, history>>
    BY <1>1, ReadsTyped
  <1>3. PICK r \in Editor : r.id = n /\ r.read = note[n] /\ Serve(e, r)
    BY <1>1, ReadsTyped
  <1>4. UNCHANGED <<note, minted, spoken, cpass, opass>>
    BY <1>2 DEF notes, cvars, ovars, history
  <1>5. editor'[e] = r /\ \A f \in Editors : f # e => editor'[f] = editor[f]
    BY <1>3, ServeTyped
  <1>6. n <= minted /\ Matches(note[n], o, n)
    BY <1>2 DEF Conform, RowsConform
  <1>7. EditConform(o, minted, editor[e])'
    BY <1>3, <1>4, <1>5, <1>6 DEF EditConform
  <1>8. \A f \in Editors : editor'[f] = editor[f] \/ EditConform(o, minted, editor[f])'
    BY <1>5, <1>7
  <1>9. QED
    BY <1>4, <1>8, QuietStep

LEMMA LettingGoConforms ==
    ASSUME Types, Types', NEW o, Conform(o), LettingGo
    PROVE  Grown(o)
  <1>1. PICK e \in Editors : Serve(e, EIdle) /\ UNCHANGED <<released, notes, cvars, ovars, history>>
    BY DEF LettingGo
  <1>2. UNCHANGED <<note, minted, spoken, cpass, opass>>
    BY <1>1 DEF notes, cvars, ovars, history
  <1>3. \A f \in Editors : editor'[f] = editor[f] \/ editor'[f] = EIdle
    BY <1>1, ServeTyped
  <1>4. QED
    BY <1>2, <1>3, QuietStep

LEMMA WriteVersionConforms ==
    ASSUME Types, Types', NEW o, Conform(o), NEW e \in Editors, WriteVersion(e)
    PROVE  Grown(o)
  <1>0. /\ editor[e] \in Editor
        /\ minted + 1 \in NoteId /\ minted' = minted + 1
        /\ spoken' = spoken \cup {minted + 1}
        /\ Serve(e, EIdle)
        /\ UNCHANGED <<released, cvars, ovars, limits, purged>>
    BY WriteVersionTyped
  <1>1. PICK text \in NoteId :
              /\ Edited(editor[e].read, text, minted + 1) \in Note
              /\ SupersedeNote(editor[e].id, minted + 1, Edited(editor[e].read, text, minted + 1))
    BY WriteVersionTyped
  <1> DEFINE v == Edited(editor[e].read, text, minted + 1)
             old == editor[e].id
             w == [v EXCEPT !.prev = old]
  <1>2. minted \in Nat /\ minted <= minted' /\ minted' \in Nat
    BY <1>0, TypesGive
  <1>3. old \in NoteId /\ editor[e].read \in Note
    BY <1>0, EditorTyped
  <1>4. v \in Note /\ v.source = "human"
    BY <1>1, <1>3 DEF Edited, Note
  <1>5. SupersedeNote(old, minted + 1, v)
    BY <1>1
  <1>6. old <= minted
    BY <1>0 DEF Conform, EditConform
  <1> HIDE DEF v, old
  <1>7. w \in Note /\ w.source = "human" /\ w.prev = old
    BY <1>3, <1>4 DEF Note
  <1>8. w.prev < minted + 1
    BY <1>2, <1>3, <1>6, <1>7 DEF NoteId
  <1>9. SupersedeNote(old, minted + 1, v) /\ w = [v EXCEPT !.prev = old]
    BY <1>5
  <1> HIDE DEF w
  <1>10. PICK o2 \in [NoteId -> Note \cup {Absent}] :
            /\ Grows(o, o2, minted) /\ o2[minted + 1] = w
            /\ AuthorsConform(o2)'
            /\ minted' \in minted .. MaxNotes
    BY <1>0, <1>7, <1>8, MintsOne
  <1>11. RowsConform(o2)'
    <2>1. Matches([v EXCEPT !.prev = old], o2, minted + 1)
      BY <1>7, <1>9, <1>10 DEF Matches
    <2>2. RowsConform(o) /\ minted + 1 <= minted'
      BY <1>0, <1>2 DEF Conform
    <2>3. QED
      BY <1>0, <1>2, <1>3, <1>4, <1>5, <1>10, <2>1, <2>2, SupersedeConforms
  <1>12. \A f \in Editors : editor'[f] = editor[f] \/ editor'[f] = EIdle
    BY <1>0, ServeTyped
  <1>13. UNCHANGED <<cpass, opass>>
    BY <1>0 DEF cvars, ovars
  <1>14. Conform(o2)'
    BY <1>10, <1>11, <1>12, <1>13, Assemble
  <1>15. QED
    BY <1>10, <1>14 DEF Grown

LEMMA WriteConfirmationConforms ==
    ASSUME Types, Types', NEW o, Conform(o), NEW e \in Editors, WriteConfirmation(e)
    PROVE  Grown(o)
  <1>0. /\ editor[e] \in Editor
        /\ Confirmed(editor[e].read) \in Note
        /\ UpsertNote(editor[e].id, Confirmed(editor[e].read))
        /\ Serve(e, EIdle)
        /\ UNCHANGED <<released, minted, cvars, ovars, limits, history>>
    BY WriteConfirmationTyped
  <1>1. editor[e].id \in NoteId /\ editor[e].read \in Note
    BY <1>0, EditorTyped
  <1>2. editor[e].id <= minted /\ Matches(editor[e].read, o, editor[e].id)
    BY <1>0 DEF Conform, EditConform
  <1>3. Matches(Confirmed(editor[e].read), o, editor[e].id)
    BY <1>1, <1>2 DEF Matches, Confirmed, Note
  <1>4. minted' \in Nat /\ minted <= minted' /\ minted' \in minted .. MaxNotes
    BY <1>0, TypesGive
  <1>5. RowsConform(o)'
    BY <1>0, <1>1, <1>2, <1>3, <1>4, GrowsSame, UpsertConforms DEF Conform
  <1>6. AuthorsConform(o)'
    BY <1>0, AuthorsKept DEF Conform, history
  <1>7. \A f \in Editors : editor'[f] = editor[f] \/ editor'[f] = EIdle
    BY <1>0, ServeTyped
  <1>8. UNCHANGED <<cpass, opass>>
    BY <1>0 DEF cvars, ovars
  <1>9. o \in [NoteId -> Note \cup {Absent}] /\ Grows(o, o, minted)
    BY GrowsSame DEF Conform
  <1>10. Conform(o)'
    BY <1>4, <1>5, <1>6, <1>7, <1>8, <1>9, Assemble
  <1>11. QED
    BY <1>9, <1>10 DEF Grown

LEMMA PurgeConforms ==
    ASSUME Types, Types', NEW o, Conform(o), NEW S, Purge(S)
    PROVE  Grown(o)
  <1>1. UNCHANGED <<minted, spoken, cpass, editor, ovars>> /\ StripNotes(S)
    BY DEF Purge
  <1>2. minted' \in minted .. MaxNotes
    BY <1>1, TypesGive
  <1>3. RowsConform(o)'
    BY <1>1, StripConforms DEF Conform
  <1>4. AuthorsConform(o)'
    BY <1>1, AuthorsKept DEF Conform
  <1>5. o \in [NoteId -> Note \cup {Absent}] /\ Grows(o, o, minted)
    BY GrowsSame DEF Conform
  <1>6. UNCHANGED opass
    BY <1>1 DEF ovars
  <1>7. Conform(o)'
    BY <1>1, <1>2, <1>3, <1>4, <1>5, <1>6, Assemble
  <1>8. QED
    BY <1>5, <1>7 DEF Grown

-----------------------------------------------------------------------------
\* The passes keep what versions say

LEMMA SupportKeeps ==
    ASSUME NEW v \in Note, NEW d
    PROVE  /\ Support(v, d).text = v.text /\ Support(v, d).source = v.source
           /\ Support(v, d).prev = v.prev /\ Support(v, d).kind = v.kind
           /\ Support(v, d).project = v.project /\ Support(v, d).next = v.next
           /\ Support(v, d).evidence = v.evidence \cup {d} /\ Support(v, d).disputed = v.disputed
           /\ v.status # "superseded" => Support(v, d).status # "superseded"
  <1> DEFINE w == [v EXCEPT !.evidence = v.evidence \cup {d}, !.actors = v.actors \cup {d.actor}]
             st == IF /\ w.status = "candidate"
                      /\ \/ Cardinality(w.evidence) >= PromoteEvidence
                         \/ Cardinality(w.actors) >= PromoteActors
                   THEN "established" ELSE w.status
  <1>1. Support(v, d) = [w EXCEPT !.status = st]
    BY DEF Support, Promoted
  <1>2. /\ w.text = v.text /\ w.source = v.source /\ w.prev = v.prev /\ w.kind = v.kind
        /\ w.project = v.project /\ w.next = v.next
        /\ w.evidence = v.evidence \cup {d} /\ w.disputed = v.disputed /\ w.status = v.status
        /\ DOMAIN w = {"kind", "project", "text", "source", "status", "evidence", "disputed", "actors",
                       "prev", "next"}
        /\ w = [x \in DOMAIN w |-> w[x]]
    BY DEF Note
  <1>3. v.status # "superseded" => st # "superseded"
    BY <1>2
  <1> HIDE DEF w, st
  <1>4. QED
    BY <1>1, <1>2, <1>3

LEMMA ContradictKeeps ==
    ASSUME NEW v \in Note, NEW d
    PROVE  /\ Contradict(v, d).text = v.text /\ Contradict(v, d).source = v.source
           /\ Contradict(v, d).prev = v.prev /\ Contradict(v, d).kind = v.kind
           /\ Contradict(v, d).project = v.project /\ Contradict(v, d).next = v.next
           /\ Contradict(v, d).evidence = v.evidence
           /\ Contradict(v, d).disputed = v.disputed \cup {d}
           /\ Contradict(v, d).status = "disputed"
  BY DEF Contradict, Note

LEMMA RefineKeeps ==
    ASSUME NEW v \in Note, NEW d, NEW n, NEW id
    PROVE  /\ Refine(n, v, d, id).text = id /\ Refine(n, v, d, id).source = v.source
           /\ Refine(n, v, d, id).prev = n /\ Refine(n, v, d, id).kind = v.kind
           /\ Refine(n, v, d, id).project = v.project /\ Refine(n, v, d, id).next = None
           /\ Refine(n, v, d, id).evidence = v.evidence \cup {d}
           /\ Refine(n, v, d, id).disputed = {}
           /\ Refine(n, v, d, id).status # "superseded"
  BY DEF Refine, Note

LEMMA CBecomeStep ==
    ASSUME Types, Types', NEW o, Conform(o), NEW p \in CPasses, NEW j \in CPass \cup {CIdle}, CBecome(p, j),
           UNCHANGED <<notes, ovars, editor, history>>, CConform(o, minted, j)
    PROVE  Grown(o)
  <1>1. UNCHANGED <<note, minted, spoken, opass>>
    BY DEF notes, ovars, history
  <1>2. cpass'[p] = j /\ \A q \in CPasses : q # p => cpass'[q] = cpass[q]
    BY CBecomeTyped, TypesFrom DEF Parts
  <1>3. CConform(o, minted, cpass[p])'
    BY <1>1, <1>2 DEF CConform, Matches
  <1>4. \A q \in CPasses : cpass'[q] = cpass[q] \/ CConform(o, minted, cpass[q])'
    BY <1>2, <1>3
  <1>5. QED
    BY <1>1, <1>4, QuietStep

LEMMA OBecomeStep ==
    ASSUME Types, Types', NEW o, Conform(o), NEW p \in OPasses, NEW j \in OPass \cup {OIdle}, OBecome(p, j),
           UNCHANGED <<notes, cvars, editor, history>>, OConform(o, minted, j)
    PROVE  Grown(o)
  <1>1. UNCHANGED <<note, minted, spoken, cpass>>
    BY DEF notes, cvars, history
  <1>2. opass'[p] = j /\ \A q \in OPasses : q # p => opass'[q] = opass[q]
    BY OBecomeTyped, TypesFrom DEF Parts
  <1>3. OConform(o, minted, opass[p])'
    BY <1>1, <1>2 DEF OConform, Matches
  <1>4. \A q \in OPasses : opass'[q] = opass[q] \/ OConform(o, minted, opass[q])'
    BY <1>2, <1>3
  <1>5. QED
    BY <1>1, <1>4, QuietStep

LEMMA CRetrieveConforms ==
    ASSUME Types, Types', NEW o, Conform(o), NEW p \in CPasses, CRetrieve(p),
           UNCHANGED <<ovars, editor, history>>
    PROVE  Grown(o)
  <1>1. PICK C \in SUBSET NoteId, j \in CPass :
              /\ j.pc = "call" /\ DOMAIN j.seen = C
              /\ \A n \in C : Exists(n) /\ j.seen[n] = note[n]
              /\ CBecome(p, j)
              /\ UNCHANGED <<released, notes>>
    BY CRetrieveTyped
  <1>2. \A n \in C : n <= minted /\ Matches(j.seen[n], o, n)
    BY <1>1 DEF Conform, RowsConform
  <1>3. CConform(o, minted, j)
    BY <1>1, <1>2 DEF CConform
  <1>4. QED
    BY <1>1, <1>3, CBecomeStep

LEMMA CWriteConforms ==
    ASSUME Types, Types', NEW o, Conform(o), NEW p \in CPasses, CWrite(p),
           UNCHANGED <<ovars, editor, history>>
    PROVE  Grown(o)
  <1>1. /\ cpass[p] \in CPass /\ cpass[p].pc = "write"
        /\ UNCHANGED <<released, minted>>
        /\ cpass[p].upserts \in SUBSET [id : NoteId, note : Note]
        /\ cpass[p].supersedes \in SUBSET [old : NoteId, id : NoteId, note : Note]
    BY CWriteTyped DEF CWrite
  <1>2. PICK j \in CPass : /\ j.pc = "write" /\ CBecome(p, j)
                           /\ j.upserts \subseteq cpass[p].upserts /\ j.supersedes \subseteq cpass[p].supersedes
    BY CWriteTyped DEF CWrite
  <1>3. CConform(o, minted, cpass[p])
    BY DEF Conform
  <1>4. CConform(o, minted, j)
    BY <1>1, <1>2, <1>3 DEF CConform
  <1>5. minted' \in Nat /\ minted <= minted' /\ minted' \in minted .. MaxNotes
    BY <1>1, TypesGive
  <1>6. RowsConform(o) /\ Grows(o, o, minted) /\ o \in [NoteId -> Note \cup {Absent}]
    BY GrowsSame DEF Conform
  <1>7. RowsConform(o)'
    <2>1. ASSUME NEW u \in cpass[p].upserts, UpsertNote(u.id, u.note)
          PROVE  RowsConform(o)'
      <3>1. u.id \in NoteId /\ u.id <= minted' /\ Matches(u.note, o, u.id)
        BY <1>1, <1>3, <2>1 DEF CConform
      <3>2. QED
        BY <1>5, <1>6, <2>1, <3>1, UpsertConforms
    <2>2. ASSUME NEW s \in cpass[p].supersedes, SupersedeNote(s.old, s.id, s.note)
          PROVE  RowsConform(o)'
      <3>1. s.id \in NoteId /\ s.old \in NoteId /\ s.note \in Note
        BY <1>1, <2>2
      <3>2. s.id <= minted' /\ s.note.prev = s.old /\ Matches(s.note, o, s.id)
        BY <1>1, <1>3, <2>2 DEF CConform
      <3>3. [s.note EXCEPT !.prev = s.old] = s.note
        BY <3>1, <3>2 DEF Note
      <3>4. Matches([s.note EXCEPT !.prev = s.old], o, s.id)
        BY <3>2, <3>3
      <3>5. QED
        BY <1>5, <1>6, <2>2, <3>1, <3>2, <3>4, SupersedeConforms
    <2>3. QED
      BY <2>1, <2>2, CWriteTyped DEF CWrite
  <1>8. AuthorsConform(o)'
    BY <1>1, AuthorsKept DEF Conform, history
  <1>9. cpass'[p] = j /\ \A q \in CPasses : q # p => cpass'[q] = cpass[q]
    BY <1>2, CBecomeTyped, TypesFrom DEF Parts
  <1>10. CConform(o, minted, cpass[p])'
    BY <1>1, <1>4, <1>9 DEF CConform, Matches
  <1>11. \A q \in CPasses : cpass'[q] = cpass[q] \/ CConform(o, minted, cpass[q])'
    BY <1>9, <1>10
  <1>12. UNCHANGED <<opass, editor>>
    BY DEF ovars
  <1>13. Conform(o)'
    BY <1>5, <1>6, <1>7, <1>8, <1>11, <1>12, Assemble
  <1>14. QED
    BY <1>6, <1>13 DEF Grown

LEMMA OLookConforms ==
    ASSUME Types, Types', NEW o, Conform(o), NEW p \in OPasses, OLook(p),
           UNCHANGED <<cvars, editor, history>>
    PROVE  Grown(o)
  <1>1. PICK j \in OPass :
                 /\ j.pc # "write" /\ OBecome(p, j)
                 /\ j.pc = "call" => \/ j.prior = None
                                     \/ Exists(j.prior) /\ note[j.prior].source # "human"
    BY OLookTyped
  <1>2. ASSUME j.pc = "call", j.prior # None
        PROVE  j.prior <= minted /\ o[j.prior] \in Note /\ o[j.prior].source # "human"
    <2>1. j.prior \in NoteId /\ Exists(j.prior) /\ note[j.prior].source # "human"
      BY <1>1, <1>2, OJobTyped
    <2>2. QED
      BY <2>1 DEF Conform, RowsConform, Matches
  <1>3. OConform(o, minted, j)
    BY <1>1, <1>2 DEF OConform
  <1>4. UNCHANGED notes
    BY OLookTyped
  <1>5. QED
    BY <1>1, <1>3, <1>4, OBecomeStep

LEMMA OWriteConforms ==
    ASSUME Types, Types', NEW o, Conform(o), NEW p \in OPasses, OWrite(p),
           UNCHANGED <<cvars, editor, history>>
    PROVE  Grown(o)
  <1>1. /\ opass[p] \in OPass /\ opass[p].pc = "write"
        /\ opass[p].id \in NoteId /\ opass[p].article \in Note /\ opass[p].prior \in NoteId \cup {None}
        /\ IF opass[p].prior = None THEN UpsertNote(opass[p].id, opass[p].article)
           ELSE SupersedeNote(opass[p].prior, opass[p].id, opass[p].article)
        /\ UNCHANGED <<released, minted>>
    BY OWriteTyped
  <1>2. PICK j \in OPass : j.pc \notin {"call", "write"} /\ OBecome(p, j)
    BY OWriteTyped
  <1>3. /\ opass[p].id <= minted /\ opass[p].article.prev = opass[p].prior
        /\ Matches(opass[p].article, o, opass[p].id)
    BY <1>1 DEF Conform, OConform
  <1>4. minted' \in Nat /\ minted <= minted' /\ minted' \in minted .. MaxNotes
    BY <1>1, TypesGive
  <1>5. RowsConform(o) /\ Grows(o, o, minted) /\ o \in [NoteId -> Note \cup {Absent}]
    BY GrowsSame DEF Conform
  <1>6. RowsConform(o)'
    <2>1. CASE opass[p].prior = None
      BY <1>1, <1>3, <1>4, <1>5, <2>1, UpsertConforms
    <2>2. CASE opass[p].prior # None
      <3> DEFINE a == opass[p].article
      <3>1. [a EXCEPT !.prev = opass[p].prior] = a
        BY <1>1, <1>3 DEF Note
      <3>2. Matches([a EXCEPT !.prev = opass[p].prior], o, opass[p].id)
        BY <1>3, <3>1
      <3>3. SupersedeNote(opass[p].prior, opass[p].id, a) /\ opass[p].prior \in NoteId
        BY <1>1, <2>2
      <3>4. QED
        BY <1>1, <1>3, <1>4, <1>5, <3>2, <3>3, SupersedeConforms
    <2>3. QED
      BY <2>1, <2>2
  <1>7. AuthorsConform(o)'
    BY <1>1, AuthorsKept DEF Conform, history
  <1>8. opass'[p] = j /\ \A q \in OPasses : q # p => opass'[q] = opass[q]
    BY <1>2, OBecomeTyped, TypesFrom DEF Parts
  <1>9. OConform(o, minted, opass[p])'
    BY <1>2, <1>8 DEF OConform
  <1>10. \A q \in OPasses : opass'[q] = opass[q] \/ OConform(o, minted, opass[q])'
    BY <1>8, <1>9
  <1>11. UNCHANGED <<cpass, editor>>
    BY DEF cvars
  <1>12. Conform(o)'
    BY <1>4, <1>5, <1>6, <1>7, <1>10, <1>11, Assemble
  <1>13. QED
    BY <1>5, <1>12 DEF Grown

LEMMA OAnswerConforms ==
    ASSUME Types, Types', NEW o, Conform(o), NEW p \in OPasses, OAnswer(p),
           UNCHANGED <<cvars, editor, history>>
    PROVE  Grown(o)
  <1>0. /\ opass[p] \in OPass /\ opass[p].pc = "call" /\ opass[p].prior \in NoteId \cup {None}
        /\ minted + 1 \in NoteId /\ minted' = minted + 1
        /\ UNCHANGED <<released, note, recent>>
    BY OAnswerTyped
  <1>1. PICK j \in OPass :
                 /\ j.pc = "write" /\ OBecome(p, j)
                 /\ j.id = minted + 1 /\ j.prior = opass[p].prior
                 /\ j.article = Article(opass[p].project, opass[p].comps, j.prior, opass[p].stood, minted + 1)
    BY OAnswerTyped
  <1>2. j.article \in Note
    BY <1>1, OJobTyped
  <1>3. j.article.source = "ai" /\ j.article.prev = j.prior
    BY <1>1 DEF Article
  <1>4. minted \in Nat /\ minted <= minted' /\ minted' \in Nat
    BY <1>0, TypesGive
  <1>5. j.prior < minted + 1 /\ j.prior \notin spoken
    <2>1. OConform(o, minted, opass[p]) /\ AuthorsConform(o)
      BY DEF Conform
    <2>2. CASE j.prior = None
      BY <1>4, <2>1, <2>2 DEF AuthorsConform, None
    <2>3. CASE j.prior # None
      <3>1. j.prior \in NoteId /\ j.prior <= minted /\ o[j.prior] \in Note /\ o[j.prior].source # "human"
        BY <1>0, <1>1, <2>1, <2>3 DEF OConform
      <3>2. j.prior \notin spoken
        BY <2>1, <3>1, AbsentOutside DEF AuthorsConform
      <3>3. QED
        BY <1>4, <3>1, <3>2 DEF NoteId
    <2>4. QED
      BY <2>2, <2>3
  <1>6. spoken' = spoken
    BY DEF history
  <1>7. PICK o2 \in [NoteId -> Note \cup {Absent}] :
            /\ Grows(o, o2, minted) /\ o2[minted + 1] = j.article
            /\ AuthorsConform(o2)'
            /\ minted' \in minted .. MaxNotes
    BY <1>0, <1>2, <1>3, <1>5, <1>6, MintsOne
  <1>8. RowsConform(o2)'
    BY <1>0, <1>4, <1>7, RowsKept DEF Conform
  <1>9. opass'[p] = j /\ \A q \in OPasses : q # p => opass'[q] = opass[q]
    BY <1>1, OBecomeTyped, TypesFrom DEF Parts
  <1>10. OConform(o2, minted, opass[p])'
    <2>1. Matches(j.article, o2, j.id)
      BY <1>1, <1>2, <1>7 DEF Matches
    <2>2. j.id <= minted'
      BY <1>0, <1>1, <1>4
    <2>3. QED
      BY <1>1, <1>3, <1>9, <2>1, <2>2 DEF OConform, Matches
  <1>11. \A q \in OPasses : opass'[q] = opass[q] \/ OConform(o2, minted, opass[q])'
    BY <1>9, <1>10
  <1>12. UNCHANGED <<cpass, editor>>
    BY DEF cvars
  <1>13. Conform(o2)'
    BY <1>7, <1>8, <1>11, <1>12, Assemble
  <1>14. QED
    BY <1>7, <1>13 DEF Grown

\* The rows a plan will write under the ids it drew.
Planned(o, seen, d, verdict, top) ==
    [n \in NoteId |->
        IF n <= minted THEN o[n]
        ELSE IF \E r \in Refined(seen, verdict) : Fresh(Refined(seen, verdict), r) = n
        THEN LET r == CHOOSE r \in Refined(seen, verdict) : Fresh(Refined(seen, verdict), r) = n
             IN Refine(r, seen[r], d, n)
        ELSE IF n <= top THEN NewNote(d, n) ELSE Absent]

LEMMA CAnswerConforms ==
    ASSUME Types, Types', NEW o, Conform(o), NEW p \in CPasses, CAnswer(p),
           UNCHANGED <<ovars, editor, history>>
    PROVE  Grown(o)
  <1>0. /\ cpass[p].pc = "call" /\ cpass[p].seen \in Seen /\ cpass[p].cur \in Digest
        /\ UNCHANGED <<released, note, recent>>
    BY CAnswerTyped
  <1>1. PICK verdict \in [DOMAIN cpass[p].seen -> Relation], new \in Nat, j \in CPass :
                 /\ minted' = minted + Cardinality(Refined(cpass[p].seen, verdict)) + new
                 /\ minted' \in minted .. MaxNotes
                 /\ CPlan(j, cpass[p].seen, cpass[p].cur, verdict, new)
                 /\ CBecome(p, j)
    BY CAnswerTyped
  <1>2. PICK seen \in Seen, d \in Digest, R \in SUBSET NoteId :
           seen = cpass[p].seen /\ d = cpass[p].cur /\ R = Refined(seen, verdict)
    <2>1. Refined(cpass[p].seen, verdict) \in SUBSET NoteId
      BY <1>0, RefinedSubset
    <2>2. QED
      BY <1>0, <2>1
  <1>3. /\ DOMAIN seen \in SUBSET NoteId /\ \A n \in DOMAIN seen : seen[n] \in Note
        /\ R \in SUBSET DOMAIN seen /\ Cardinality(R) \in Nat
    BY <1>2, RefinedSubset
  <1>4. minted \in Nat /\ minted' \in Nat /\ minted <= minted' /\ minted' = minted + Cardinality(R) + new
    BY <1>1, <1>2, TypesGive
  <1>5. \A n \in DOMAIN seen : n <= minted /\ Matches(seen[n], o, n)
    BY <1>0, <1>2 DEF Conform, CConform
  <1>6. \A r \in R : /\ Fresh(R, r) \in minted + 1 .. minted + Cardinality(R)
                     /\ Fresh(R, r) \in NoteId /\ Fresh(R, r) <= minted' /\ minted < Fresh(R, r)
    <2>1. SUFFICES ASSUME NEW r \in R
                   PROVE  /\ Fresh(R, r) \in minted + 1 .. minted + Cardinality(R)
                          /\ Fresh(R, r) \in NoteId /\ Fresh(R, r) <= minted' /\ minted < Fresh(R, r)
      OBVIOUS
    <2>2. Fresh(R, r) \in minted + 1 .. minted + Cardinality(R)
      BY <1>4, FreshRange
    <2>3. minted' <= MaxNotes /\ MaxNotes \in Nat
      BY <1>1
    <2>4. QED
      BY <1>3, <1>4, <2>2, <2>3 DEF NoteId
  <1>7. \A r \in R, q \in R : Fresh(R, r) = Fresh(R, q) => r = q
    BY <1>4, FreshDistinct
  <1>8. PICK o2 : o2 = Planned(o, seen, d, verdict, minted')
    OBVIOUS
  <1>9. \A r \in R : o2[Fresh(R, r)] = Refine(r, seen[r], d, Fresh(R, r))
    <2>1. SUFFICES ASSUME NEW r \in R
                   PROVE  o2[Fresh(R, r)] = Refine(r, seen[r], d, Fresh(R, r))
      OBVIOUS
    <2> DEFINE n == Fresh(R, r)
    <2>2. n \in NoteId /\ ~(n <= minted) /\ n = Fresh(R, r)
      BY <1>4, <1>6 DEF NoteId
    <2> HIDE DEF n
    <2>3. (CHOOSE q \in R : Fresh(R, q) = n) = r
      BY <1>7, <2>2
    <2>4. o2[n] = Refine(r, seen[r], d, n)
      BY <1>2, <1>8, <2>2, <2>3 DEF Planned
    <2>5. QED
      BY <2>2, <2>4
  <1>10. \A n \in NoteId : minted + Cardinality(R) < n /\ n <= minted' => o2[n] = NewNote(d, n)
    <2>1. SUFFICES ASSUME NEW n \in NoteId, minted + Cardinality(R) < n, n <= minted'
                   PROVE  o2[n] = NewNote(d, n)
      OBVIOUS
    <2>2. \A r \in R : Fresh(R, r) # n
      BY <1>3, <1>4, <1>6, <2>1 DEF NoteId
    <2>3. ~(n <= minted)
      BY <1>3, <1>4, <2>1 DEF NoteId
    <2>4. QED
      BY <1>2, <1>8, <2>1, <2>2, <2>3 DEF Planned
  <1>11. Grows(o, o2, minted)
    BY <1>8 DEF Grows, Planned
  <1>12. \A n \in NoteId : minted < n /\ n <= minted' =>
            \/ \E r \in R : n = Fresh(R, r) /\ o2[n] = Refine(r, seen[r], d, n)
            \/ o2[n] = NewNote(d, n)
    <2>1. SUFFICES ASSUME NEW n \in NoteId, minted < n, n <= minted'
                   PROVE  \/ \E r \in R : n = Fresh(R, r) /\ o2[n] = Refine(r, seen[r], d, n)
                          \/ o2[n] = NewNote(d, n)
      OBVIOUS
    <2>2. CASE \E r \in R : Fresh(R, r) = n
      BY <1>9, <2>2
    <2>3. CASE ~\E r \in R : Fresh(R, r) = n
      <3>1. ~(n <= minted)
        BY <1>4, <2>1 DEF NoteId
      <3>2. QED
        BY <1>2, <1>8, <2>1, <2>3, <3>1 DEF Planned
    <2>4. QED
      BY <2>2, <2>3
  <1>13. o2 \in [NoteId -> Note \cup {Absent}]
    <2>1. \A n \in NoteId : o2[n] \in Note \cup {Absent}
      <3>1. SUFFICES ASSUME NEW n \in NoteId
                     PROVE  o2[n] \in Note \cup {Absent}
        OBVIOUS
      <3>2. CASE n <= minted
        BY <1>11, <3>2 DEF Grows, Conform
      <3>3. CASE ~(n <= minted) /\ n <= minted'
        <4>1. minted < n
          BY <1>4, <3>3 DEF NoteId
        <4>2. ASSUME NEW r \in R, o2[n] = Refine(r, seen[r], d, n)
              PROVE  o2[n] \in Note
          BY <1>3, <4>2, RefineTyped
        <4>3. NewNote(d, n) \in Note
          BY NewNoteTyped
        <4>4. QED
          BY <1>12, <3>3, <4>1, <4>2, <4>3
      <3>4. CASE ~(n <= minted) /\ ~(n <= minted')
        <4>1. \A r \in R : Fresh(R, r) # n
          BY <1>6, <3>4
        <4>2. o2[n] = Absent
          BY <1>2, <1>8, <3>4, <4>1 DEF Planned
        <4>3. QED
          BY <4>2
      <3>5. QED
        BY <3>2, <3>3, <3>4
    <2>2. o2 = [n \in NoteId |-> o2[n]]
      BY <1>8 DEF Planned
    <2>3. QED
      BY <2>1, <2>2
  <1>14. spoken' = spoken /\ AuthorsConform(o) /\ spoken \subseteq 1 .. minted
    BY DEF history, Conform, AuthorsConform
  <1>15. \A r \in R : seen[r].source = "ai" /\ r \notin spoken /\ r <= minted /\ r \in NoteId /\ seen[r] \in Note
    <2>1. SUFFICES ASSUME NEW r \in R
                   PROVE  seen[r].source = "ai" /\ r \notin spoken /\ r <= minted /\ r \in NoteId /\ seen[r] \in Note
      OBVIOUS
    <2>2. r \in DOMAIN seen /\ r \in NoteId /\ seen[r] \in Note /\ r <= minted /\ Matches(seen[r], o, r)
      BY <1>3, <1>5
    <2>3. Judged(seen[r], verdict[r]) = "refines"
      BY <1>2 DEF Refined
    <2>4. seen[r].source # "human"
      BY <2>3 DEF Judged
    <2>5. seen[r].source = "ai"
      BY <2>2, <2>4 DEF Note
    <2>6. o[r].source = "ai" /\ o[r] # Absent
      BY <2>2, <2>5, AbsentOutside DEF Matches
    <2>7. QED
      BY <1>14, <2>2, <2>5, <2>6 DEF AuthorsConform
  <1>16. ASSUME NEW n \in NoteId, minted < n, n <= minted', o2[n] # Absent
         PROVE  /\ o2[n].source = "human" <=> n \in spoken'
                /\ o2[n].prev < n
                /\ o2[n].prev \in spoken' => n \in spoken'
    <2>1. n \notin spoken /\ None \notin spoken /\ None < n
      BY <1>4, <1>14, <1>16 DEF NoteId, None
    <2>2. ASSUME NEW r \in R, n = Fresh(R, r), o2[n] = Refine(r, seen[r], d, n)
          PROVE  o2[n].source = "ai" /\ o2[n].prev < n /\ o2[n].prev \notin spoken
      <3>1. o2[n].source = "ai" /\ o2[n].prev = r
        BY <1>15, <2>2, RefineKeeps
      <3>2. r < n
        BY <1>4, <1>15, <1>16 DEF NoteId
      <3>3. QED
        BY <1>15, <3>1, <3>2
    <2>3. ASSUME o2[n] = NewNote(d, n)
          PROVE  o2[n].source = "ai" /\ o2[n].prev < n /\ o2[n].prev \notin spoken
      BY <2>1, <2>3 DEF NewNote
    <2>4. o2[n].source = "ai" /\ o2[n].prev < n /\ o2[n].prev \notin spoken
      BY <1>12, <1>16, <2>2, <2>3
    <2>5. QED
      BY <1>14, <2>1, <2>4
  <1>17. AuthorsConform(o2)'
    <2>1. /\ spoken \subseteq spoken' /\ spoken' \subseteq 1 .. minted'
          /\ \A n \in spoken' : n \in spoken \/ n > minted
      <3>1. \A n \in 1 .. minted : n \in 1 .. minted'
        BY <1>4
      <3>2. QED
        BY <1>14, <3>1
    <2>2. QED
      BY <1>4, <1>11, <1>14, <1>16, <2>1, AuthorsGrow DEF Conform
  <1>18. RowsConform(o2)'
    BY <1>0, <1>4, <1>11, RowsKept DEF Conform
  <1>19. CPlan(j, seen, d, verdict, new)
    BY <1>1, <1>2
  <1>20. ASSUME NEW u \in j.upserts
         PROVE  u.id <= minted' /\ Matches(u.note, o2, u.id)
    <2>1. u \in Upserts(seen, verdict, d, new)
      BY <1>19 DEF CPlan
    <2>2. ASSUME NEW n \in DOMAIN seen, u = [id |-> n, note |-> Support(seen[n], d)]
          PROVE  u.id <= minted' /\ Matches(u.note, o2, u.id)
      <3>1. n \in NoteId /\ n <= minted /\ Matches(seen[n], o, n) /\ seen[n] \in Note
        BY <1>3, <1>5
      <3>2. Matches(Support(seen[n], d), o, n)
        BY <3>1, SupportKeeps DEF Matches
      <3>3. Matches(Support(seen[n], d), o2, n)
        BY <1>4, <1>11, <3>1, <3>2, MatchesKept
      <3>4. QED
        BY <1>4, <2>2, <3>1, <3>3 DEF NoteId
    <2>3. ASSUME NEW n \in DOMAIN seen, u = [id |-> n, note |-> Contradict(seen[n], d)]
          PROVE  u.id <= minted' /\ Matches(u.note, o2, u.id)
      <3>1. n \in NoteId /\ n <= minted /\ Matches(seen[n], o, n) /\ seen[n] \in Note
        BY <1>3, <1>5
      <3>2. Matches(Contradict(seen[n], d), o, n)
        BY <3>1, ContradictKeeps DEF Matches
      <3>3. Matches(Contradict(seen[n], d), o2, n)
        BY <1>4, <1>11, <3>1, <3>2, MatchesKept
      <3>4. QED
        BY <1>4, <2>3, <3>1, <3>3 DEF NoteId
    <2>4. ASSUME NEW i \in 1 .. new, u.id = minted + Cardinality(R) + i,
                 u = [id |-> u.id, note |-> NewNote(d, u.id)]
          PROVE  u.id <= minted' /\ Matches(u.note, o2, u.id)
      <3>1. u.id <= minted' /\ minted + Cardinality(R) < u.id /\ u.id \in NoteId
        <4>1. minted' <= MaxNotes /\ MaxNotes \in Nat
          BY <1>1
        <4>2. QED
          BY <1>3, <1>4, <2>4, <4>1 DEF NoteId
      <3>2. o2[u.id] = NewNote(d, u.id)
        BY <1>10, <3>1
      <3>3. u.note = NewNote(d, u.id) /\ NewNote(d, u.id) \in Note
        BY <2>4, <3>1, NewNoteTyped
      <3>4. QED
        BY <3>1, <3>2, <3>3 DEF Matches
    <2>5. QED
      BY <1>2, <2>1, <2>2, <2>3, <2>4, UpsertsAre
  <1>21. ASSUME NEW s \in j.supersedes
         PROVE  s.id <= minted' /\ s.note.prev = s.old /\ Matches(s.note, o2, s.id)
    <2>1. s \in Supersedes(seen, verdict, d)
      BY <1>19 DEF CPlan
    <2>2. /\ s.old \in R /\ s.id = Fresh(R, s.old)
          /\ s.note = Refine(s.old, seen[s.old], d, s.id)
      BY <1>2, <2>1, SupersedesAre
    <2>3. s.id <= minted' /\ s.id \in NoteId /\ o2[s.id] = s.note
      BY <1>6, <1>9, <2>2
    <2>4. s.note \in Note /\ s.note.prev = s.old
      BY <1>15, <2>2, <2>3, RefineTyped, RefineKeeps
    <2>5. QED
      BY <2>3, <2>4 DEF Matches
  <1>22. cpass'[p] = j /\ \A q \in CPasses : q # p => cpass'[q] = cpass[q]
    BY <1>1, CBecomeTyped, TypesFrom DEF Parts
  <1>23. CConform(o2, minted, cpass[p])'
    <2>1. j.pc = "write"
      BY <1>19 DEF CPlan
    <2>2. QED
      BY <1>20, <1>21, <1>22, <2>1 DEF CConform, Matches
  <1>24. \A q \in CPasses : cpass'[q] = cpass[q] \/ CConform(o2, minted, cpass[q])'
    BY <1>22, <1>23
  <1>25. UNCHANGED <<opass, editor>>
    BY DEF ovars
  <1>26. Conform(o2)'
    BY <1>1, <1>11, <1>13, <1>17, <1>18, <1>24, <1>25, Assemble
  <1>27. QED
    BY <1>11, <1>13, <1>26 DEF Grown

-----------------------------------------------------------------------------
\* The invariant

IInv == Types /\ \E o : Conform(o)

LEMMA ConformBackward ==
    ASSUME Types, NEW o, Conform(o)
    PROVE  Backward
  <1>1. ASSUME NEW n \in NoteId, Exists(n)
        PROVE  note[n].prev < n
    <2>1. n <= minted /\ o[n] # Absent /\ note[n].prev = o[n].prev
      BY <1>1, AbsentOutside DEF Conform, RowsConform, Matches
    <2>2. QED
      BY <2>1 DEF Conform, AuthorsConform
  <1>2. QED
    BY <1>1 DEF Backward

LEMMA IInvTargets == IInv => TargetsExist /\ Backward
  <1>1. SUFFICES ASSUME IInv
                 PROVE  TargetsExist /\ Backward
    OBVIOUS
  <1>2. Backward
    BY <1>1, ConformBackward DEF IInv
  <1>3. RowsTyped
    BY <1>1, TypesGive DEF IInv
  <1>4. QED
    BY <1>2, <1>3, HistoryExists DEF TargetsExist

LEMMA IInvInit == Init => IInv
  <1>1. SUFFICES ASSUME Init
                 PROVE  IInv
    OBVIOUS
  <1>2. Types
    BY <1>1, TypesInit
  <1> DEFINE o == [n \in NoteId |-> Absent]
  <1>3. \A n \in NoteId : ~Exists(n)
    BY <1>1 DEF Init, NotesInit, Exists
  <1>4. AuthorsConform(o) /\ RowsConform(o)
    BY <1>1, <1>3 DEF AuthorsConform, RowsConform, Init
  <1>5. \A e \in Editors : EditConform(o, minted, editor[e])
    BY <1>1 DEF Init, EditConform, Editor, EIdle
  <1>6. \A p \in CPasses : CConform(o, minted, cpass[p])
    BY <1>1 DEF Init, ConsolidationInit, CConform, CIdle
  <1>7. \A p \in OPasses : OConform(o, minted, opass[p])
    BY <1>1 DEF Init, OverviewInit, OConform, OIdle
  <1>8. o \in [NoteId -> Note \cup {Absent}]
    OBVIOUS
  <1> HIDE DEF o
  <1>9. Conform(o)
    BY <1>4, <1>5, <1>6, <1>7, <1>8 DEF Conform
  <1>10. QED
    BY <1>2, <1>9 DEF IInv

\* Every step extends what the versions say.
LEMMA ConformStep ==
    ASSUME Types, Types', TargetsExist, [Next]_vars, NEW o, Conform(o)
    PROVE  Grown(o)
  <1>1. ASSUME NEW d \in Digest, Arrive(d)
        PROVE  Grown(o)
    BY <1>1, ArriveConforms
  <1>2. ASSUME NEW S \in SUBSET released, Purge(S)
        PROVE  Grown(o)
    BY <1>2, PurgeConforms
  <1>3. CASE Creating
    BY <1>3, CreateConforms DEF Creating
  <1>4. CASE Reading
    BY <1>4, ReadsConforms
  <1>5. CASE LettingGo
    BY <1>5, LettingGoConforms
  <1>6. ASSUME NEW e \in Editors, WriteVersion(e) \/ WriteConfirmation(e)
        PROVE  Grown(o)
    BY <1>6, WriteVersionConforms, WriteConfirmationConforms
  <1>7. ASSUME NEW p \in CPasses, CPlain(p), UNCHANGED <<ovars, editor, history>>
        PROVE  Grown(o)
    <2>1. PICK j \in CPass \cup {CIdle} : j.pc \notin {"call", "write"} /\ CBecome(p, j)
      BY <1>7, CPlainTyped
    <2>2. CConform(o, minted, j)
      BY <2>1 DEF CConform
    <2>3. UNCHANGED notes
      BY <1>7, CPlainTyped
    <2>4. QED
      BY <1>7, <2>1, <2>2, <2>3, CBecomeStep
  <1>8. ASSUME NEW p \in CPasses, CRetrieve(p) \/ CAnswer(p) \/ CWrite(p), UNCHANGED <<ovars, editor, history>>
        PROVE  Grown(o)
    BY <1>8, CRetrieveConforms, CAnswerConforms, CWriteConforms
  <1>9. ASSUME NEW p \in OPasses, OPlain(p), UNCHANGED <<cvars, editor, history>>
        PROVE  Grown(o)
    <2>1. PICK j \in OPass \cup {OIdle} : j.pc \notin {"call", "write"} /\ OBecome(p, j)
      BY <1>9, OPlainTyped
    <2>2. OConform(o, minted, j)
      BY <2>1 DEF OConform
    <2>3. UNCHANGED notes
      BY <1>9, OPlainTyped
    <2>4. QED
      BY <1>9, <2>1, <2>2, <2>3, OBecomeStep
  <1>10. ASSUME NEW p \in OPasses, OLook(p) \/ OAnswer(p) \/ OWrite(p), UNCHANGED <<cvars, editor, history>>
         PROVE  Grown(o)
    BY <1>10, OLookConforms, OAnswerConforms, OWriteConforms
  <1>11. CASE UNCHANGED <<notes, cpass, opass, editor, history>>
    <2>1. UNCHANGED <<note, minted, spoken, cpass, opass, editor>>
      BY <1>11 DEF notes, history
    <2>2. QED
      BY <2>1, QuietStep
  <1>12. CASE Retrying
    BY <1>11, <1>12 DEF Retrying, cvars
  <1>13. CASE UNCHANGED vars
    BY <1>11, <1>13 DEF vars, cvars, ovars
  <1>14. CASE Next
    BY <1>1, <1>2, <1>3, <1>4, <1>5, <1>6, <1>7, <1>8, <1>9, <1>10, <1>12, <1>14, NextSplits
       DEF CSteps, OSteps
  <1>15. QED
    BY <1>13, <1>14

LEMMA IInvStep == IInv /\ [Next]_vars => IInv'
  <1>1. SUFFICES ASSUME IInv, [Next]_vars
                 PROVE  IInv'
    OBVIOUS
  <1>2. Types /\ TargetsExist
    BY <1>1, IInvTargets DEF IInv
  <1>3. Types'
    BY <1>1, <1>2, TypesStep
  <1>4. PICK o : Conform(o)
    BY <1>1 DEF IInv
  <1>5. Grown(o)
    BY <1>1, <1>2, <1>3, <1>4, ConformStep
  <1>6. PICK o2 : Conform(o2)'
    BY <1>5 DEF Grown
  <1>7. QED
    BY <1>3, <1>6 DEF IInv

LEMMA Invariant == Spec => []IInv
  BY IInvInit, IInvStep, PTL DEF Spec

-----------------------------------------------------------------------------
\* The theorems

\* Type correctness of the wiki: the rows, the passes and the requests stay what the
\* schemas say, however the threads of the server interleave and crash.
THEOREM WikiTyped == Spec => []TypeOK
  <1>1. IInv => TypeOK
    BY DEF IInv, Types
  <1>2. QED
    BY <1>1, Invariant, PTL

\* However the consolidator, the overviews and the people interleave, a version that
\* replaces what a person wrote is a person's, and no version a model wrote passes for a
\* person's (apply_verdicts disputes a human note, an overview leaves a human article).
THEOREM HumansOutrank == Spec => []HumanOutranks
  <1>1. ASSUME IInv
        PROVE  HumanOutranks
    <2>1. PICK o : Conform(o)
      BY <1>1 DEF IInv
    <2>2. ASSUME NEW n \in NoteId, Exists(n)
          PROVE  /\ note[n].source = "human" => n \in spoken
                 /\ note[n].prev \in spoken => n \in spoken
      <3>1. n <= minted /\ Matches(note[n], o, n) /\ o[n] # Absent
        BY <2>1, <2>2, AbsentOutside DEF Conform, RowsConform, Matches
      <3>2. QED
        BY <2>1, <3>1 DEF Conform, AuthorsConform, Matches
    <2>3. QED
      BY <2>2 DEF HumanOutranks
  <1>2. QED
    BY <1>1, Invariant, PTL

\* Only a purge takes a row away, and only a quote.
LEMMA GoneWasQuote ==
    ASSUME Types, TargetsExist, [Next]_vars, NEW n \in NoteId, Exists(n), note'[n] = Absent
    PROVE  note[n].kind = "quote"
  <1>0. RowsTyped /\ note \in [NoteId -> Note \cup {Absent}] /\ note[n] \in Note
    BY TypesGive DEF RowsTyped, Exists
  <1>1. ASSUME NEW id \in NoteId, NEW v \in Note, UpsertNote(id, v)
        PROVE  FALSE
    BY <1>0, <1>1, AbsentOutside DEF UpsertNote, Exists
  <1>2. ASSUME NEW old \in NoteId, NEW id \in NoteId, NEW v \in Note, SupersedeNote(old, id, v)
        PROVE  FALSE
    <2> DEFINE w == [note[old] EXCEPT !.status = "superseded", !.next = id]
               x == [v EXCEPT !.prev = old]
    <2>1. note' = [note EXCEPT ![old] = w, ![id] = x]
      BY <1>2 DEF SupersedeNote
    <2>2. x \in Note
      BY DEF Note
    <2>3. note[old] \in Note => w \in Note
      BY Retired
    <2> HIDE DEF w, x
    <2>4. note'[n] = IF n = id THEN x ELSE IF n = old THEN w ELSE note[n]
      BY <1>0, <2>1
    <2>5. QED
      BY <1>0, <2>2, <2>3, <2>4, AbsentOutside DEF Exists
  <1>3. CASE UNCHANGED note
    BY <1>3 DEF Exists
  <1>4. ASSUME NEW d \in Digest, Arrive(d)
        PROVE  note[n].kind = "quote"
    BY <1>1, <1>3, <1>4, ArriveTyped DEF notes
  <1>5. ASSUME NEW S \in SUBSET released, Purge(S)
        PROVE  note[n].kind = "quote"
    <2>1. note'[n] = IF Cites(note[n], S) THEN Stripped(note[n], S) ELSE note[n]
      BY <1>0, <1>5 DEF Purge, StripNotes
    <2>2. Stripped(note[n], S) = Absent
      BY <2>1 DEF Exists
    <2>3. ASSUME note[n].kind # "quote"
          PROVE  Stripped(note[n], S) \in Note
      <3> DEFINE v == note[n]
                 st == IF v.evidence \ S = {} /\ v.source = "ai" /\ v.status # "superseded"
                       THEN "stale" ELSE v.status
      <3>1. st \in {"candidate", "established", "disputed", "superseded", "stale"}
        BY <1>0 DEF Note
      <3>2. Stripped(v, S) = [v EXCEPT !.evidence = v.evidence \ S, !.disputed = v.disputed \ S, !.status = st]
        BY <2>3 DEF Stripped
      <3> HIDE DEF st
      <3>3. QED
        BY ZenonT(60), <1>0, <3>1, <3>2 DEF Note
    <2>4. QED
      BY <2>2, <2>3, AbsentOutside
  <1>6. CASE Creating
    BY <1>1, <1>6, CreateTyped DEF Creating
  <1>7. CASE Reading
    BY <1>3, <1>7, ReadsTyped DEF Reading, notes
  <1>8. CASE LettingGo
    BY <1>3, <1>8 DEF LettingGo, notes
  <1>9. ASSUME NEW e \in Editors, WriteVersion(e) \/ WriteConfirmation(e)
        PROVE  FALSE
    BY <1>1, <1>2, <1>9, WriteVersionTyped, WriteConfirmationTyped, EditorTyped
  <1>10. ASSUME NEW p \in CPasses, CPlain(p) \/ CRetrieve(p) \/ CAnswer(p)
         PROVE  UNCHANGED note
    BY <1>10, CPlainTyped, CRetrieveTyped, CAnswerTyped DEF notes
  <1>11. ASSUME NEW p \in CPasses, CWrite(p)
         PROVE  FALSE
    <2>1. /\ \/ \E u \in cpass[p].upserts : UpsertNote(u.id, u.note)
             \/ \E s \in cpass[p].supersedes : SupersedeNote(s.old, s.id, s.note)
          /\ cpass[p].upserts \in SUBSET [id : NoteId, note : Note]
          /\ cpass[p].supersedes \in SUBSET [old : NoteId, id : NoteId, note : Note]
      BY <1>11, CWriteTyped DEF CWrite
    <2>2. QED
      BY <1>1, <1>2, <2>1
  <1>12. ASSUME NEW p \in OPasses, OPlain(p) \/ OLook(p) \/ OAnswer(p)
         PROVE  UNCHANGED note
    BY <1>12, OPlainTyped, OLookTyped, OAnswerTyped DEF notes
  <1>13. ASSUME NEW p \in OPasses, OWrite(p)
         PROVE  FALSE
    BY <1>1, <1>2, <1>13, OWriteTyped
  <1>14. CASE Retrying
    BY <1>3, <1>14 DEF Retrying, notes
  <1>15. CASE UNCHANGED vars
    BY <1>3, <1>15 DEF vars, notes
  <1>16. CASE Next
    BY <1>3, <1>4, <1>5, <1>6, <1>7, <1>8, <1>9, <1>10, <1>11, <1>12, <1>13, <1>14, <1>16, NextSplits
       DEF CSteps, OSteps
  <1>17. QED
    BY <1>15, <1>16

\* A version keeps its text, its author and what it replaced through every step of every
\* thread, and the only row a step takes away is a quote whose sessions are purged
\* (upsert_note merges what it is given; delete_compactions).
THEOREM VersionsKept == Spec => HistoryKept
  <1> DEFINE Kept == \A n \in NoteId : Exists(n) =>
          IF note'[n] = Absent THEN note[n].kind = "quote"
          ELSE /\ note'[n].text = note[n].text /\ note'[n].source = note[n].source
               /\ note'[n].prev = note[n].prev
  <1>1. ASSUME IInv, [Next]_vars
        PROVE  Kept
    <2>1. Types /\ TargetsExist
      BY <1>1, IInvTargets DEF IInv
    <2>2. Types'
      BY <1>1, <2>1, TypesStep
    <2>3. PICK o : Conform(o)
      BY <1>1 DEF IInv
    <2>4. PICK o2 : Grows(o, o2, minted) /\ Conform(o2)'
      BY <1>1, <2>1, <2>2, <2>3, ConformStep DEF Grown
    <2>5. ASSUME NEW n \in NoteId, Exists(n), note'[n] # Absent
          PROVE  /\ note'[n].text = note[n].text /\ note'[n].source = note[n].source
                 /\ note'[n].prev = note[n].prev
      <3>1. n <= minted /\ Matches(note[n], o, n)
        BY <2>3, <2>5 DEF Conform, RowsConform
      <3>2. Matches(note[n], o2, n)'
        BY <2>4, <2>5 DEF Conform, RowsConform, Exists
      <3>3. o2[n] = o[n]
        BY <2>4, <3>1 DEF Grows
      <3>4. QED
        BY <3>1, <3>2, <3>3 DEF Matches
    <2>6. ASSUME NEW n \in NoteId, Exists(n), note'[n] = Absent
          PROVE  note[n].kind = "quote"
      BY <1>1, <2>1, <2>6, GoneWasQuote
    <2>7. QED
      BY <2>5, <2>6
  <1>2. IInv /\ [Next]_vars => [Kept]_vars
    BY <1>1
  <1> HIDE DEF Kept
  <1>3. Spec => [][Kept]_vars
    BY <1>2, Invariant, PTL DEF Spec
  <1>4. QED
    BY <1>3 DEF HistoryKept, Kept

\* No digest is marked consolidated before its whole plan is on record: a failure, a
\* crash or a purge in between leaves it to be consolidated again (mark_consolidation_done
\* follows the last write; delete_compactions drops the mark).
THEOREM MarkedWasApplied == Spec => []DoneWasApplied
  <1>1. ASSUME Init
        PROVE  DoneWasApplied
    BY <1>1 DEF Init, ConsolidationInit, DoneWasApplied, NoCState
  <1>2. ASSUME IInv, DoneWasApplied, [Next]_vars
        PROVE  DoneWasApplied'
    <2>0. cstate \in [Digest -> CState]
      BY <1>2, TypesFrom DEF IInv, Parts, Books
    <2>1. CASE UNCHANGED <<cstate, applied>>
      BY <1>2, <2>1 DEF DoneWasApplied
    <2>2. ASSUME NEW S \in SUBSET released, Purge(S)
          PROVE  DoneWasApplied'
      BY <1>2, <2>0, <2>2 DEF Purge, DoneWasApplied, NoCState
    <2>3. ASSUME NEW p \in CPasses, CAbandon(p) \/ CRecordFailure(p) \/ CMark(p)
          PROVE  DoneWasApplied'
      <3> DEFINE d == cpass[p].cur
      <3>1. ASSUME NEW s \in {"abandoned", "failed", "done"}, NEW k,
                   cstate' = [cstate EXCEPT ![d] = [state |-> s, attempts |-> k]],
                   applied' = IF s = "done" THEN applied \cup {d} ELSE applied
            PROVE  DoneWasApplied'
        <4>1. \A e \in Digest : cstate'[e].state = IF e = d THEN s ELSE cstate[e].state
          BY <2>0, <3>1
        <4> HIDE DEF d
        <4>2. QED
          BY <1>2, <3>1, <4>1 DEF DoneWasApplied
      <3>2. CASE CAbandon(p)
        BY <3>1, <3>2 DEF CAbandon
      <3>3. CASE CRecordFailure(p)
        BY <3>1, <3>3 DEF CRecordFailure
      <3>4. CASE CMark(p)
        BY <3>1, <3>4 DEF CMark
      <3>5. QED
        BY <2>3, <3>2, <3>3, <3>4
    <2>4. ASSUME NEW p \in CPasses, StartConsolidation(p) \/ Consolidates(p)
          PROVE  DoneWasApplied'
      BY <2>1, <2>3, <2>4 DEF StartConsolidation, CBegin, Consolidates, Consolidating, CEnd, CTake,
         CRetrieve, CQuota, CCallFails, CAnswer, CUpsert, CSupersede
    <2>5. ASSUME NEW d \in Digest, Arrive(d)
          PROVE  DoneWasApplied'
      BY <2>1, <2>5 DEF Arrive, cvars
    <2>6. ASSUME NEW e \in Editors, Editing(e)
          PROVE  DoneWasApplied'
      BY <2>1, <2>6 DEF Editing, Create, EditNote, ConfirmNote, RevertNote, Reads, WriteVersion,
         VersionGone, WriteConfirmation, cvars
    <2>7. ASSUME NEW p \in OPasses, StartOverview(p) \/ Overviews(p)
          PROVE  DoneWasApplied'
      BY <2>1, <2>7 DEF StartOverview, Overviews, cvars
    <2>8. ASSUME NEW q \in Projects, RetryOverview(q)
          PROVE  DoneWasApplied'
      BY <2>1, <2>8 DEF RetryOverview, cvars
    <2>9. CASE Crash
      BY <2>1, <2>9 DEF Crash, CCrash, cvars
    <2>10. CASE UNCHANGED vars
      BY <2>1, <2>10 DEF vars, cvars
    <2>11. QED
      BY <1>2, <2>2, <2>4, <2>5, <2>6, <2>7, <2>8, <2>9, <2>10 DEF Next
  <1>3. QED
    BY <1>1, <1>2, Invariant, PTL DEF Spec

-----------------------------------------------------------------------------
(***************************************************************************)
(* From here on requests and passes run one at a time and people act on    *)
(* live versions: what holds before any race, with crashes between two     *)
(* writes.                                                                 *)
(***************************************************************************)

HIDE WikiAssumption
HIDE OverviewAssumption
HIDE ConsolidationAssumption
HIDE NotesAssumption

-----------------------------------------------------------------------------
\* One at a time

CIdles == \A p \in CPasses : cpass[p] = CIdle
OIdles == \A p \in OPasses : opass[p] = OIdle
EIdles == \A e \in Editors : editor[e] = EIdle

\* At most one thread is at work.
Solo ==
    /\ (CIdles /\ OIdles) \/ (CIdles /\ EIdles) \/ (OIdles /\ EIdles)
    /\ \A p, q \in CPasses : cpass[p] # CIdle /\ cpass[q] # CIdle => p = q
    /\ \A p, q \in OPasses : opass[p] # OIdle /\ opass[q] # OIdle => p = q
    /\ \A e, f \in Editors : editor[e] # EIdle /\ editor[f] # EIdle => e = f

-----------------------------------------------------------------------------
\* The rows between two writes

Cited(v) == v.evidence \cup v.disputed
LiveArticle(n, q) == Live(n) /\ note[n].kind = "article" /\ note[n].project = q

\* A version has one successor, and none while it is live.
Chain ==
    /\ \A a, b \in NoteId :
          Exists(a) /\ Exists(b) /\ note[a].prev = note[b].prev /\ note[a].prev # None => a = b
    /\ \A n \in NoteId : Exists(n) /\ note[n].prev # None => ~Live(note[n].prev)

\* The articles are those that were ever stamped.
StampedIds == {recent[i] : i \in DOMAIN recent}
Stamps == StampedIds = {n \in NoteId : Exists(n) /\ note[n].kind = "article"}

OneArticle == \A q \in Projects : \A a, b \in NoteId : LiveArticle(a, q) /\ LiveArticle(b, q) => a = b

HumanArticle(n, q) == Exists(n) /\ note[n].kind = "article" /\ note[n].project = q /\ note[n].source = "human"

HumanStays ==
    \A q \in Projects : (\E n \in NoteId : HumanArticle(n, q))
        => \E m \in NoteId : LiveArticle(m, q) /\ note[m].source = "human"

\* What is left of the sessions recorded for project q.
Recorded(q) == ostate[q].contributors \ purged

Drawn ==
    \A q \in Projects : ostate[q].state = "done" =>
        /\ \E n \in NoteId : LiveArticle(n, q)
        /\ \A n \in NoteId : LiveArticle(n, q) /\ note[n].source = "ai" => Recorded(q) \subseteq note[n].evidence

Ledgered == \A q \in Projects : \A d \in Recorded(q) : d \in released /\ d.project = q

-----------------------------------------------------------------------------
\* What the thread at work holds is what is stored

EFresh(r) == r \in Editor => Live(r.id) /\ r.read = note[r.id]

\* An id no row has, nor names as the one it replaced.
NewId(id) == ~Exists(id) /\ \A n \in NoteId : Exists(n) => note[n].prev # id

\* A planned row is the stored one with more said of it, or a new one.
Renews(u) ==
    /\ u.note.kind = "claim" /\ u.note.status # "superseded" /\ Cited(u.note) \subseteq released
    /\ \/ Live(u.id) /\ note[u.id].kind = "claim" /\ note[u.id].prev = u.note.prev
       \/ NewId(u.id) /\ u.id <= minted /\ u.note.prev = None

Replaces(s) ==
    /\ s.note.kind = "claim" /\ s.note.status # "superseded" /\ Cited(s.note) \subseteq released
    /\ Live(s.old) /\ note[s.old].kind = "claim"
    /\ NewId(s.id) /\ s.id <= minted

CFresh(j) ==
    /\ j.pc # "idle" => \A c \in j.todo : c.id \in released
    /\ j.pc \in {"abandon", "retrieve", "failed", "call", "write"} => j.cur \in released
    /\ j.pc = "call" => \A n \in DOMAIN j.seen : Live(n) /\ j.seen[n] = note[n] /\ note[n].kind = "claim"
    /\ j.pc = "write" =>
          /\ \A u \in j.upserts : Renews(u)
          /\ \A s \in j.supersedes : Replaces(s)
          /\ \A u \in j.upserts, s \in j.supersedes : u.id # s.id
          /\ \A s, t \in j.supersedes : s.old = t.old \/ s.id = t.id => s = t

\* The article a pass was shown is the project's, and a model wrote it.
Shown(j) ==
    IF j.prior = None THEN \A n \in NoteId : ~LiveArticle(n, j.project)
    ELSE LiveArticle(j.prior, j.project) /\ note[j.prior].source = "ai"

OFresh(j) ==
    /\ j.pc # "idle" => \A q \in j.todo : j.seen[q] = ostate[q]
    /\ j.pc \notin {"idle", "next"} =>
          /\ j.project \notin j.todo
          /\ \A d \in j.comps : d \in released /\ d.project = j.project
          /\ Recorded(j.project) \subseteq j.comps
    /\ j.pc \in {"call", "write"} => Shown(j)
    /\ j.pc = "write" =>
          /\ NewId(j.id) /\ j.id <= minted
          /\ j.article.kind = "article" /\ j.article.project = j.project /\ j.article.source = "ai"
          /\ j.article.status # "superseded" /\ j.article.evidence = j.comps /\ j.article.disputed = {}
          /\ j.article.prev = j.prior
    /\ j.pc = "mark" => /\ LiveArticle(j.id, j.project) /\ note[j.id].source = "ai"
                        /\ note[j.id].evidence = j.comps

Rows == Grounded /\ Chain /\ Stamps /\ OneArticle /\ HumanStays /\ Drawn /\ Ledgered

Fresh3 ==
    /\ \A e \in Editors : EFresh(editor[e])
    /\ \A p \in CPasses : CFresh(cpass[p])
    /\ \A p \in OPasses : OFresh(opass[p])

Serial == Solo /\ Rows /\ Fresh3

-----------------------------------------------------------------------------
\* Writes between which the rows are sound

LEMMA StampTyped ==
    ASSUME Types, NEW id \in NoteId, NEW v, Touch(id, v)
    PROVE  StampedIds' = IF v.kind = "article" THEN StampedIds \cup {id} ELSE StampedIds
  <1>0. recent \in Seq(NoteId)
    BY TypesGive DEF RowsTyped
  <1>1. CASE v.kind # "article"
    BY <1>1 DEF Touch, StampedIds
  <1>2. CASE v.kind = "article"
    <2>1. recent' = Append(recent, id)
      BY <1>2 DEF Touch
    <2>2. /\ Len(recent) \in Nat /\ DOMAIN recent = 1 .. Len(recent)
          /\ DOMAIN recent' = 1 .. Len(recent) + 1
          /\ \A i \in 1 .. Len(recent) : recent'[i] = recent[i]
          /\ recent'[Len(recent) + 1] = id
      BY <1>0, <2>1
    <2>3. \A i \in 1 .. Len(recent) + 1 : i \in 1 .. Len(recent) \/ i = Len(recent) + 1
      BY <2>2
    <2>4. \A i \in 1 .. Len(recent) : i \in 1 .. Len(recent) + 1
      BY <2>2
    <2>5. Len(recent) + 1 \in 1 .. Len(recent) + 1
      BY <2>2
    <2>6. QED
      BY <1>2, <2>2, <2>3, <2>4, <2>5 DEF StampedIds
  <1>3. QED
    BY <1>1, <1>2

LEMMA StampStrip ==
    ASSUME Types, NEW S, StripNotes(S)
    PROVE  StampedIds' = StampedIds \cup {n \in NoteId : Cites(note[n], S) /\ note[n].kind = "article"}
  <1> DEFINE hit == {n \in NoteId : Cites(note[n], S) /\ note[n].kind = "article"}
  <1>0. recent \in Seq(NoteId)
    BY TypesGive DEF RowsTyped
  <1>1. PICK order \in [1 .. Cardinality(hit) -> hit] :
           /\ \A n \in hit : \E i \in 1 .. Cardinality(hit) : order[i] = n
           /\ recent' = recent \o order
    BY DEF StripNotes
  <1>2. hit \subseteq NoteId /\ Cardinality(hit) \in Nat
    <2>1. hit \subseteq NoteId
      OBVIOUS
    <2> HIDE DEF hit
    <2>2. QED
      BY <2>1, NoteIdsFinite, FS_Subset, FS_CardinalityType
  <1> HIDE DEF hit
  <1> DEFINE k == Cardinality(hit)
             m == Len(recent)
  <1>3. order \in Seq(NoteId) /\ Len(order) = k
    <2>1. order \in [1 .. k -> NoteId]
      BY <1>2
    <2>2. order \in Seq(NoteId)
      BY <1>2, <2>1, IsASeq
    <2>3. QED
      BY <1>2, <2>1, <2>2
  <1>4. m \in Nat /\ DOMAIN recent = 1 .. m /\ DOMAIN order = 1 .. k /\ k \in Nat
    BY <1>0, <1>2
  <1>5. DOMAIN recent' = 1 .. m + k
    BY <1>0, <1>1, <1>3, <1>4, ConcatProperties
  <1>6. \A i \in 1 .. m + k : recent'[i] = IF i <= m THEN recent[i] ELSE order[i - m]
    BY <1>0, <1>1, <1>3, <1>4, ConcatProperties
  <1>7. ASSUME NEW i \in 1 .. m + k
        PROVE  recent'[i] \in StampedIds \cup hit
    <2>1. CASE i <= m
      <3>1. i \in DOMAIN recent
        BY <1>4, <2>1
      <3>2. QED
        BY <1>6, <2>1, <3>1 DEF StampedIds
    <2>2. CASE ~(i <= m)
      <3>1. i - m \in 1 .. k
        BY <1>4, <2>2
      <3>2. QED
        BY <1>6, <2>2, <3>1
    <2>3. QED
      BY <2>1, <2>2
  <1>8. ASSUME NEW i \in DOMAIN recent
        PROVE  recent[i] \in StampedIds'
    <2>1. i \in 1 .. m + k /\ i <= m
      BY <1>4
    <2>2. recent'[i] = recent[i]
      BY <1>6, <2>1
    <2>3. QED
      BY <1>5, <2>1, <2>2 DEF StampedIds
  <1>9. ASSUME NEW n \in hit
        PROVE  n \in StampedIds'
    <2>1. PICK i \in 1 .. k : order[i] = n
      BY <1>1
    <2>2. m + i \in 1 .. m + k /\ ~(m + i <= m) /\ m + i - m = i
      BY <1>4
    <2>3. recent'[m + i] = n
      BY <1>6, <2>1, <2>2
    <2>4. QED
      BY <1>5, <2>2, <2>3 DEF StampedIds
  <1>10. StampedIds' \subseteq StampedIds \cup hit
    BY <1>5, <1>7 DEF StampedIds
  <1>11. StampedIds \subseteq StampedIds'
    BY <1>8 DEF StampedIds
  <1>12. StampedIds' = StampedIds \cup hit
    BY <1>9, <1>10, <1>11
  <1>13. QED
    BY <1>12 DEF hit

LEMMA RowOf ==
    ASSUME Types, NEW n \in NoteId, Exists(n)
    PROVE  note[n] \in Note /\ note[n].project \in Projects /\ note[n].prev \in NoteId \cup {None}
  <1>1. note[n] \in Note
    BY TypesGive DEF RowsTyped, Exists
  <1>2. QED
    BY <1>1 DEF Note

\* A live row is written again.
LEMMA RefreshRow ==
    ASSUME Types, Rows, NEW id \in NoteId, NEW v \in Note, UpsertNote(id, v), Live(id),
           v.kind = note[id].kind, v.prev = note[id].prev,
           v.status # "superseded", Cited(v) \subseteq released,
           v.kind = "article" => /\ v.project = note[id].project /\ v.source = note[id].source
                                 /\ note[id].evidence \subseteq v.evidence,
           UNCHANGED <<released, ostate, purged>>
    PROVE  Rows'
  <1>0. note \in [NoteId -> Note \cup {Absent}] /\ Exists(id)
    BY TypesGive DEF RowsTyped, Live
  <1>1. \A n \in NoteId : note'[n] = IF n = id THEN v ELSE note[n]
    BY <1>0 DEF UpsertNote
  <1>2. \A n \in NoteId : Exists(n)' <=> Exists(n)
    BY <1>0, <1>1, AbsentOutside DEF Exists
  <1>3. \A n \in NoteId : Live(n)' <=> Live(n)
    BY <1>0, <1>1, <1>2 DEF Live
  <1>4. \A n \in NoteId : Exists(n) =>
           /\ note'[n].kind = note[n].kind /\ note'[n].prev = note[n].prev
           /\ note[n].kind = "article" => note'[n].project = note[n].project /\ note'[n].source = note[n].source
    BY <1>1
  <1>5. \A n \in NoteId : \A q : LiveArticle(n, q)' <=> LiveArticle(n, q)
    BY <1>3, <1>4 DEF LiveArticle, Live
  <1>6. Grounded'
    BY <1>1, <1>2 DEF Rows, Grounded, Cited
  <1>7. Chain'
    <2>1. \A n \in NoteId : Exists(n) => note[n].prev \in NoteId \cup {None}
      BY RowOf
    <2>2. QED
      BY <1>2, <1>3, <1>4, <2>1 DEF Rows, Chain
  <1>8. Stamps'
    <2>1. StampedIds' = StampedIds
      BY <1>0, StampTyped DEF Rows, Stamps, UpsertNote
    <2>2. QED
      BY <1>2, <1>4, <2>1 DEF Rows, Stamps
  <1>9. OneArticle'
    BY <1>5 DEF Rows, OneArticle
  <1>10. HumanStays'
    <2>1. \A n \in NoteId : \A q : HumanArticle(n, q)' <=> HumanArticle(n, q)
      BY <1>2, <1>4 DEF HumanArticle
    <2>2. \A m \in NoteId : \A q : LiveArticle(m, q) => note'[m].source = note[m].source
      BY <1>4 DEF LiveArticle, Live
    <2>3. QED
      BY <1>5, <2>1, <2>2 DEF Rows, HumanStays
  <1>11. Drawn'
    <2>1. \A n \in NoteId : \A q : LiveArticle(n, q) => /\ note[n].evidence \subseteq note'[n].evidence
                                                    /\ note'[n].source = note[n].source
      BY <1>1 DEF LiveArticle
    <2>2. \A q : Recorded(q)' = Recorded(q)
      BY DEF Recorded
    <2>3. QED
      BY <1>4, <1>5, <2>1, <2>2 DEF Rows, Drawn, LiveArticle, Live
  <1>12. Ledgered'
    BY DEF Rows, Ledgered, Recorded
  <1>13. QED
    BY <1>6, <1>7, <1>8, <1>9, <1>10, <1>11, <1>12 DEF Rows

\* A row with no predecessor is added.
LEMMA AddRow ==
    ASSUME Types, Rows, NEW id \in NoteId, NEW v \in Note, UpsertNote(id, v), NewId(id),
           v.prev = None, v.status # "superseded", Cited(v) \subseteq released',
           released \subseteq released',
           v.kind = "article" => \A n \in NoteId : ~LiveArticle(n, v.project),
           v.kind = "article" /\ v.source = "ai" => Recorded(v.project) \subseteq v.evidence,
           UNCHANGED <<ostate, purged>>
    PROVE  Rows'
  <1>0. note \in [NoteId -> Note \cup {Absent}] /\ ~Exists(id)
    BY TypesGive DEF RowsTyped, NewId
  <1>1. \A n \in NoteId : note'[n] = IF n = id THEN v ELSE note[n]
    BY <1>0 DEF UpsertNote
  <1>2. \A n \in NoteId : Exists(n)' <=> Exists(n) \/ n = id
    BY <1>0, <1>1, AbsentOutside DEF Exists
  <1>3. \A n \in NoteId : Live(n)' <=> Live(n) \/ n = id
    BY <1>0, <1>1, <1>2 DEF Live
  <1>4. \A n \in NoteId : Exists(n) => n # id /\ note'[n] = note[n]
    BY <1>0, <1>1
  <1>5. \A n \in NoteId : \A q : LiveArticle(n, q)' <=> LiveArticle(n, q) \/ (n = id /\ v.kind = "article" /\ v.project = q)
    BY <1>1, <1>3, <1>4 DEF LiveArticle, Live
  <1>6. Grounded'
    BY <1>1, <1>2, <1>4 DEF Rows, Grounded, Cited
  <1>7. Chain'
    <2>1. \A n \in NoteId : Exists(n) => note[n].prev \in NoteId \cup {None}
      BY RowOf
    <2>2. \A n \in NoteId : Exists(n) => note[n].prev # id
      BY DEF NewId
    <2>3. \A n \in NoteId : Exists(n)' /\ note'[n].prev # None => Exists(n) /\ note'[n].prev = note[n].prev
      BY <1>1, <1>2, <1>4
    <2>4. QED
      BY <1>3, <1>4, <2>1, <2>2, <2>3 DEF Rows, Chain
  <1>8. Stamps'
    <2>1. StampedIds' = IF v.kind = "article" THEN StampedIds \cup {id} ELSE StampedIds
      BY StampTyped DEF UpsertNote
    <2>2. QED
      BY <1>1, <1>2, <1>4, <2>1 DEF Rows, Stamps
  <1>9. OneArticle'
    BY <1>5 DEF Rows, OneArticle
  <1>10. HumanStays'
    <2>1. \A n \in NoteId : \A q : HumanArticle(n, q)' =>
             HumanArticle(n, q) \/ (n = id /\ v.kind = "article" /\ v.project = q /\ v.source = "human")
      BY <1>1, <1>2, <1>4 DEF HumanArticle
    <2>2. \A m \in NoteId : \A q : LiveArticle(m, q) => note'[m].source = note[m].source
      BY <1>4 DEF LiveArticle, Live
    <2>3. note'[id] = v
      BY <1>1
    <2>4. QED
      BY <1>5, <2>1, <2>2, <2>3 DEF Rows, HumanStays
  <1>11. \A q : Recorded(q)' = Recorded(q)
    BY DEF Recorded
  <1>12. Drawn'
    <2>1. SUFFICES ASSUME NEW q \in Projects, ostate[q].state = "done"
                   PROVE  /\ \E n \in NoteId : LiveArticle(n, q)'
                          /\ \A n \in NoteId : LiveArticle(n, q)' /\ note'[n].source = "ai"
                                => Recorded(q)' \subseteq note'[n].evidence
      BY DEF Drawn
    <2>2. \E n \in NoteId : LiveArticle(n, q)'
      BY <1>5, <2>1 DEF Rows, Drawn
    <2>3. ASSUME NEW n \in NoteId, LiveArticle(n, q)', note'[n].source = "ai"
          PROVE  Recorded(q)' \subseteq note'[n].evidence
      <3>1. CASE n = id /\ v.kind = "article" /\ v.project = q
        BY <1>1, <1>11, <2>3, <3>1
      <3>2. CASE LiveArticle(n, q)
        <4>1. note'[n] = note[n]
          BY <1>4, <3>2 DEF LiveArticle, Live
        <4>2. QED
          BY <1>11, <2>1, <2>3, <3>2, <4>1 DEF Rows, Drawn
      <3>3. QED
        BY <1>5, <2>3, <3>1, <3>2
    <2>4. QED
      BY <2>2, <2>3
  <1>13. Ledgered'
    BY <1>11 DEF Rows, Ledgered
  <1>14. QED
    BY <1>6, <1>7, <1>8, <1>9, <1>10, <1>12, <1>13 DEF Rows

\* A live row is retired for a new one.
LEMMA ReplaceRow ==
    ASSUME Types, Rows, NEW old \in NoteId, NEW id \in NoteId, NEW v \in Note, SupersedeNote(old, id, v),
           Live(old), NewId(id), v.kind = note[old].kind,
           v.status # "superseded", Cited(v) \subseteq released,
           v.kind = "article" => v.project = note[old].project,
           v.kind = "article" => \/ v.source = "human"
                                 \/ note[old].source = "ai" /\ Recorded(v.project) \subseteq v.evidence,
           UNCHANGED <<released, ostate, purged>>
    PROVE  Rows'
  <1> DEFINE w == [note[old] EXCEPT !.status = "superseded", !.next = id]
             x == [v EXCEPT !.prev = old]
  <1>0. note \in [NoteId -> Note \cup {Absent}] /\ Exists(old) /\ note[old] \in Note /\ ~Exists(id)
    BY TypesGive DEF RowsTyped, Live, Exists, NewId
  <1>1. /\ w \in Note /\ w.kind = note[old].kind /\ w.project = note[old].project
        /\ w.source = note[old].source /\ w.prev = note[old].prev /\ w.status = "superseded"
        /\ w.evidence = note[old].evidence /\ w.disputed = note[old].disputed
    <2>1. note[old] \in Note
      BY <1>0
    <2>2. QED
      BY ONLY ZenonT(60), <2>1, old \in NoteId, id \in NoteId, Retired DEF w
  <1>2. /\ x \in Note /\ x.kind = v.kind /\ x.project = v.project /\ x.source = v.source
        /\ x.prev = old /\ x.status = v.status /\ x.evidence = v.evidence /\ x.disputed = v.disputed
    BY DEF Note
  <1>3. old # id
    BY <1>0
  <1>4. \A n \in NoteId : note'[n] = IF n = id THEN x ELSE IF n = old THEN w ELSE note[n]
    BY <1>0, <1>3 DEF SupersedeNote
  <1> HIDE DEF w, x
  <1>5. \A n \in NoteId : Exists(n)' <=> Exists(n) \/ n = id
    BY <1>0, <1>1, <1>2, <1>4, AbsentOutside DEF Exists
  <1>6. \A n \in NoteId : Live(n)' <=> (Live(n) /\ n # old) \/ n = id
    BY <1>0, <1>1, <1>2, <1>4, <1>5 DEF Live
  <1>7. \A n \in NoteId : Exists(n) =>
           /\ n # id
           /\ note'[n].kind = note[n].kind /\ note'[n].project = note[n].project
           /\ note'[n].source = note[n].source /\ note'[n].prev = note[n].prev
           /\ note'[n].evidence = note[n].evidence /\ note'[n].disputed = note[n].disputed
    BY <1>0, <1>1, <1>4
  <1>8. note'[id] = x
    BY <1>4
  <1>9. \A n \in NoteId : \A q : LiveArticle(n, q)' <=>
           (LiveArticle(n, q) /\ n # old) \/ (n = id /\ v.kind = "article" /\ v.project = q)
    BY <1>2, <1>6, <1>7, <1>8 DEF LiveArticle, Live
  <1>10. v.kind = "article" => LiveArticle(old, v.project)
    BY DEF LiveArticle
  <1>11. \A q : LiveArticle(old, q) => v.kind = "article" /\ v.project = q
    BY DEF LiveArticle
  <1>12. Grounded'
    BY <1>2, <1>5, <1>7, <1>8 DEF Rows, Grounded, Cited
  <1>13. Chain'
    <2>1. \A n \in NoteId : Exists(n) => note[n].prev \in NoteId \cup {None} /\ note[n].prev # id
      BY RowOf DEF NewId
    <2>2. \A n \in NoteId : Exists(n) => note[n].prev # old
      BY NoneOutside DEF Rows, Chain
    <2>3. \A n \in NoteId : Exists(n)' =>
             (n = id /\ note'[n].prev = old) \/ (Exists(n) /\ note'[n].prev = note[n].prev)
      BY <1>2, <1>5, <1>7, <1>8
    <2>4. \A a, b \in NoteId : Exists(a)' /\ Exists(b)' /\ note'[a].prev = note'[b].prev /\ note'[a].prev # None => a = b
      BY <2>2, <2>3 DEF Rows, Chain
    <2>5. \A n, m \in NoteId : Exists(n)' /\ note'[n].prev = m => ~(Live(m)')
      BY <1>3, <1>6, <2>1, <2>3, NoneOutside DEF Rows, Chain
    <2>6. \A n \in NoteId : Exists(n)' => note'[n].prev \in NoteId \cup {None}
      BY <2>1, <2>3
    <2>7. QED
      BY <2>4, <2>5, <2>6 DEF Chain
  <1>14. Stamps'
    <2>1. StampedIds' = IF v.kind = "article" THEN StampedIds \cup {id} ELSE StampedIds
      BY StampTyped DEF SupersedeNote
    <2>2. QED
      BY <1>2, <1>5, <1>7, <1>8, <2>1 DEF Rows, Stamps
  <1>15. OneArticle'
    <2>1. SUFFICES ASSUME NEW q \in Projects, NEW a \in NoteId, NEW b \in NoteId,
                          LiveArticle(a, q)', LiveArticle(b, q)'
                   PROVE  a = b
      BY DEF OneArticle
    <2>2. QED
      BY <1>9, <1>10, <2>1 DEF Rows, OneArticle
  <1>16. HumanStays'
    <2>1. SUFFICES ASSUME NEW q \in Projects, NEW n \in NoteId, HumanArticle(n, q)'
                   PROVE  \E m \in NoteId : LiveArticle(m, q)' /\ note'[m].source = "human"
      BY DEF HumanStays
    <2>2. HumanArticle(n, q) \/ (n = id /\ v.kind = "article" /\ v.project = q /\ v.source = "human")
      BY <1>2, <1>5, <1>7, <1>8, <2>1 DEF HumanArticle
    <2>3. CASE n = id /\ v.kind = "article" /\ v.project = q /\ v.source = "human"
      BY <1>2, <1>8, <1>9, <2>3
    <2>4. CASE HumanArticle(n, q)
      <3>1. PICK m \in NoteId : LiveArticle(m, q) /\ note[m].source = "human"
        BY <2>4 DEF Rows, HumanStays
      <3>2. CASE m # old
        BY <1>7, <1>9, <3>1, <3>2 DEF LiveArticle, Live
      <3>3. CASE m = old
        <4>1. v.kind = "article" /\ v.project = q /\ v.source = "human"
          BY <1>11, <3>1, <3>3
        <4>2. QED
          BY <1>2, <1>8, <1>9, <4>1
      <3>4. QED
        BY <3>2, <3>3
    <2>5. QED
      BY <2>2, <2>3, <2>4
  <1>17. \A q : Recorded(q)' = Recorded(q)
    BY DEF Recorded
  <1>18. Drawn'
    <2>1. SUFFICES ASSUME NEW q \in Projects, ostate[q].state = "done"
                   PROVE  /\ \E n \in NoteId : LiveArticle(n, q)'
                          /\ \A n \in NoteId : LiveArticle(n, q)' /\ note'[n].source = "ai"
                                => Recorded(q)' \subseteq note'[n].evidence
      BY DEF Drawn
    <2>2. \E n \in NoteId : LiveArticle(n, q)'
      BY <1>9, <1>11, <2>1 DEF Rows, Drawn
    <2>3. ASSUME NEW n \in NoteId, LiveArticle(n, q)', note'[n].source = "ai"
          PROVE  Recorded(q)' \subseteq note'[n].evidence
      <3>1. CASE n = id /\ v.kind = "article" /\ v.project = q
        BY <1>2, <1>8, <1>17, <2>3, <3>1
      <3>2. CASE LiveArticle(n, q)
        BY <1>7, <1>17, <2>1, <2>3, <3>2 DEF Rows, Drawn, LiveArticle, Live
      <3>3. QED
        BY <1>9, <2>3, <3>1, <3>2
    <2>4. QED
      BY <2>2, <2>3
  <1>19. Ledgered'
    BY <1>17 DEF Rows, Ledgered
  <1>20. QED
    BY <1>12, <1>13, <1>14, <1>15, <1>16, <1>18, <1>19 DEF Rows

\* Sessions go, and what the notes cite of them.
LEMMA StripRows ==
    ASSUME Types, Rows, NEW S, StripNotes(S), S \subseteq released, released' = released \ S,
           purged' = purged \cup S, UNCHANGED ostate
    PROVE  Rows'
  <1>0. note \in [NoteId -> Note \cup {Absent}]
    BY TypesGive DEF RowsTyped
  <1>1. \A n \in NoteId : note'[n] = IF Cites(note[n], S) THEN Stripped(note[n], S) ELSE note[n]
    BY DEF StripNotes
  <1>2. \A n \in NoteId : Exists(n)' => Exists(n) /\ note[n] \in Note
    <2>1. SUFFICES ASSUME NEW n \in NoteId, ~Exists(n)
                   PROVE  ~(Exists(n)')
      BY <1>0 DEF Exists
    <2>2. QED
      BY <1>1, <2>1 DEF Cites, Exists
  <1>3. \A n \in NoteId : Exists(n)' =>
           /\ note'[n].kind = note[n].kind /\ note'[n].project = note[n].project
           /\ note'[n].source = note[n].source /\ note'[n].prev = note[n].prev
           /\ note'[n].evidence = note[n].evidence \ S /\ note'[n].disputed = note[n].disputed \ S
           /\ note'[n].status = "superseded" <=> note[n].status = "superseded"
    <2>1. SUFFICES ASSUME NEW n \in NoteId, Exists(n)'
                   PROVE  /\ note'[n].kind = note[n].kind /\ note'[n].project = note[n].project
                          /\ note'[n].source = note[n].source /\ note'[n].prev = note[n].prev
                          /\ note'[n].evidence = note[n].evidence \ S /\ note'[n].disputed = note[n].disputed \ S
                          /\ note'[n].status = "superseded" <=> note[n].status = "superseded"
      OBVIOUS
    <2>2. CASE Cites(note[n], S)
      <3>1. note'[n] = Stripped(note[n], S) /\ note'[n] # Absent /\ note[n] \in Note
        BY <1>1, <1>2, <2>1, <2>2 DEF Exists
      <3>2. QED
        BY <3>1, StrippedKeeps
    <2>3. CASE ~Cites(note[n], S)
      <3>1. note'[n] = note[n] /\ note[n] # Absent
        BY <1>1, <1>2, <2>1, <2>3 DEF Exists
      <3>2. note[n].evidence \ S = note[n].evidence /\ note[n].disputed \ S = note[n].disputed
        BY <2>3, <3>1 DEF Cites
      <3>3. QED
        BY <3>1, <3>2
    <2>4. QED
      BY <2>2, <2>3
  <1>4. \A n \in NoteId : Exists(n) /\ note[n].kind = "article" => Exists(n)'
    <2>1. SUFFICES ASSUME NEW n \in NoteId, Exists(n), note[n].kind = "article", Cites(note[n], S)
                   PROVE  Exists(n)'
      BY <1>1 DEF Exists
    <2>2. note'[n] = Stripped(note[n], S) /\ note[n] \in Note
      BY <1>0, <1>1, <2>1 DEF Exists
    <2>3. Stripped(note[n], S) \in Note
      BY <2>1, <2>2 DEF Stripped, Note
    <2>4. QED
      BY <2>2, <2>3, AbsentOutside DEF Exists
  <1>5. \A n \in NoteId : Live(n)' => Live(n)
    BY <1>2, <1>3 DEF Live
  <1>6. \A n \in NoteId : \A q : LiveArticle(n, q)' <=> LiveArticle(n, q)
    BY <1>2, <1>3, <1>4 DEF LiveArticle, Live
  <1>7. \A q : Recorded(q)' = Recorded(q) \ S
    BY DEF Recorded
  <1>8. Grounded'
    BY <1>2, <1>3 DEF Rows, Grounded
  <1>9. Chain'
    <2>1. \A n \in NoteId : Exists(n) => note[n].prev \in NoteId \cup {None}
      BY RowOf
    <2>2. QED
      BY <1>2, <1>3, <1>5, <2>1 DEF Rows, Chain
  <1>10. Stamps'
    <2>1. StampedIds' = StampedIds \cup {n \in NoteId : Cites(note[n], S) /\ note[n].kind = "article"}
      BY StampStrip
    <2>2. \A n \in NoteId : Cites(note[n], S) => Exists(n)
      BY DEF Cites, Exists
    <2>3. \A n \in NoteId : Exists(n)' /\ note'[n].kind = "article" <=> Exists(n) /\ note[n].kind = "article"
      BY <1>2, <1>3, <1>4
    <2>4. QED
      BY <2>1, <2>2, <2>3 DEF Rows, Stamps
  <1>11. OneArticle'
    BY <1>6 DEF Rows, OneArticle
  <1>12. HumanStays'
    <2>1. \A n \in NoteId : \A q : HumanArticle(n, q)' => HumanArticle(n, q)
      BY <1>2, <1>3 DEF HumanArticle
    <2>2. \A m \in NoteId : \A q : LiveArticle(m, q) => note'[m].source = note[m].source
      BY <1>3, <1>4 DEF LiveArticle, Live
    <2>3. QED
      BY <1>6, <2>1, <2>2 DEF Rows, HumanStays
  <1>13. Drawn'
    <2>1. \A n \in NoteId : \A q : LiveArticle(n, q) =>
             note'[n].source = note[n].source /\ note'[n].evidence = note[n].evidence \ S
      BY <1>3, <1>4 DEF LiveArticle, Live
    <2>2. QED
      BY <1>6, <1>7, <2>1 DEF Rows, Drawn
  <1>14. Ledgered'
    BY <1>7 DEF Rows, Ledgered
  <1>15. QED
    BY <1>8, <1>9, <1>10, <1>11, <1>12, <1>13, <1>14 DEF Rows

\* The rows stay as they are, and no session goes.
LEMMA RowsStill ==
    ASSUME Rows, UNCHANGED <<note, recent, ostate, purged>>, released \subseteq released'
    PROVE  Rows'
  <1>1. Grounded' /\ Ledgered'
    BY DEF Rows, Grounded, Ledgered, Recorded, Exists
  <1>2. Chain' /\ OneArticle' /\ HumanStays' /\ Drawn'
    BY DEF Rows, Chain, OneArticle, HumanStays, Drawn, Recorded, LiveArticle, HumanArticle, Live, Exists
  <1>3. Stamps'
    BY DEF Rows, Stamps, StampedIds, Exists
  <1>4. QED
    BY <1>1, <1>2, <1>3 DEF Rows

\* The state row of one project is written.
LEMMA BookRow ==
    ASSUME Types, Rows, UNCHANGED <<released, notes, purged>>, NEW q \in Projects, NEW st,
           ostate' = [ostate EXCEPT ![q] = st],
           \A d \in st.contributors \ purged : d \in released /\ d.project = q,
           st.state = "done" =>
              /\ \E n \in NoteId : LiveArticle(n, q)
              /\ \A n \in NoteId : LiveArticle(n, q) => st.contributors \ purged \subseteq note[n].evidence
    PROVE  Rows'
  <1>0. UNCHANGED <<note, recent>>
    BY DEF notes
  <1>1. \A x \in Projects : ostate'[x] = IF x = q THEN st ELSE ostate[x]
    BY DEF Types, TypeOK, OverviewTypeOK
  <1>2. Grounded' /\ Chain' /\ OneArticle' /\ HumanStays'
    BY <1>0 DEF Rows, Grounded, Chain, OneArticle, HumanStays, LiveArticle, HumanArticle, Live, Exists
  <1>3. Stamps'
    BY <1>0 DEF Rows, Stamps, StampedIds, Exists
  <1>4. Ledgered'
    BY <1>1 DEF Rows, Ledgered, Recorded
  <1>5. \A n \in NoteId : \A x : LiveArticle(n, x)' <=> LiveArticle(n, x)
    BY <1>0 DEF LiveArticle, Live, Exists
  <1>6. Drawn'
    <2>1. SUFFICES ASSUME NEW x \in Projects, ostate'[x].state = "done"
                   PROVE  /\ \E n \in NoteId : LiveArticle(n, x)'
                          /\ \A n \in NoteId : LiveArticle(n, x)' /\ note'[n].source = "ai"
                                => Recorded(x)' \subseteq note'[n].evidence
      BY DEF Drawn
    <2>2. CASE x = q
      BY <1>0, <1>1, <1>5, <2>1, <2>2 DEF Recorded
    <2>3. CASE x # q
      BY <1>0, <1>1, <1>5, <2>1, <2>3 DEF Rows, Drawn, Recorded
    <2>4. QED
      BY <2>2, <2>3
  <1>7. QED
    BY <1>2, <1>3, <1>4, <1>6 DEF Rows

\* An id not yet drawn is new.
LEMMA FreshIsNew ==
    ASSUME Types, Backward, NEW o, RowsConform(o), NEW id \in NoteId, id > minted
    PROVE  NewId(id)
  <1>1. minted \in Nat
    BY TypesGive
  <1>2. \A n \in NoteId : Exists(n) => n <= minted /\ note[n].prev < n /\ note[n].prev \in NoteId \cup {None}
    BY RowOf DEF RowsConform, Backward
  <1>3. id \in Nat /\ \A n \in NoteId : n \in Nat
    BY DEF NoteId
  <1>4. \A n \in NoteId \cup {None} : n \in Nat
    BY DEF NoteId, None
  <1>5. QED
    BY <1>1, <1>2, <1>3, <1>4 DEF NewId

\* The article a page shows is the live article, and there is one unless none is live.
LEMMA OverviewShows ==
    ASSUME Types, Stamps, NEW q
    PROVE  /\ CurrentOverview(q) = None => \A n \in NoteId : ~LiveArticle(n, q)
           /\ CurrentOverview(q) # None => LiveArticle(CurrentOverview(q), q) /\ CurrentOverview(q) \in NoteId
  <1> DEFINE live == {i \in DOMAIN recent : Live(recent[i]) /\ note[recent[i]].project = q}
  <1>1. /\ live = {} => CurrentOverview(q) = None
        /\ live # {} => \E i \in live : CurrentOverview(q) = recent[i]
    BY TypesGive, CurrentOverviewIs
  <1>2. \A i \in DOMAIN recent : recent[i] \in NoteId /\ note[recent[i]].kind = "article"
    BY DEF Stamps, StampedIds
  <1>3. \A n \in NoteId : LiveArticle(n, q) => \E i \in DOMAIN recent : recent[i] = n
    BY DEF Stamps, StampedIds, LiveArticle, Live
  <1>4. CASE live = {}
    BY <1>1, <1>3, <1>4 DEF LiveArticle
  <1>5. CASE live # {}
    <2>1. PICK i \in live : CurrentOverview(q) = recent[i]
      BY <1>1, <1>5
    <2>2. QED
      BY <1>2, <2>1, NoneOutside DEF LiveArticle
  <1>6. QED
    BY <1>4, <1>5

-----------------------------------------------------------------------------
\* One thread at work

LEMMA IdlesFresh ==
    /\ EFresh(EIdle) /\ CFresh(CIdle) /\ OFresh(OIdle)
    /\ EFresh(EIdle)' /\ CFresh(CIdle)' /\ OFresh(OIdle)'
  BY DEF EFresh, CFresh, OFresh, EIdle, CIdle, OIdle, Editor

LEMMA CAlone ==
    ASSUME Solo, NEW p \in CPasses, cpass[p] # CIdle
    PROVE  OIdles /\ EIdles /\ \A q \in CPasses : q # p => cpass[q] = CIdle
  BY DEF Solo, CIdles

LEMMA OAlone ==
    ASSUME Solo, NEW p \in OPasses, opass[p] # OIdle
    PROVE  CIdles /\ EIdles /\ \A q \in OPasses : q # p => opass[q] = OIdle
  BY DEF Solo, OIdles

LEMMA EAlone ==
    ASSUME Solo, NEW e \in Editors, editor[e] # EIdle
    PROVE  CIdles /\ OIdles /\ \A f \in Editors : f # e => editor[f] = EIdle
  BY DEF Solo, EIdles

\* A pass alone becomes j.
LEMMA CSteps1 ==
    ASSUME Types, Solo, NEW p \in CPasses, cpass[p] # CIdle \/ Quiet, NEW j \in CPass \cup {CIdle},
           CBecome(p, j), UNCHANGED <<opass, editor>>, CFresh(j)'
    PROVE  Solo' /\ Fresh3'
  <1>1. OIdles /\ EIdles /\ \A q \in CPasses : q # p => cpass[q] = CIdle
    BY CAlone DEF Quiet, OIdles, EIdles
  <1>2. cpass'[p] = j /\ \A q \in CPasses : q # p => cpass'[q] = CIdle
    BY <1>1, CBecomeTyped DEF Types
  <1>3. OIdles' /\ EIdles'
    BY <1>1 DEF OIdles, EIdles
  <1>4. Solo'
    BY <1>2, <1>3 DEF Solo, OIdles, EIdles
  <1>5. \A q \in CPasses : CFresh(cpass[q])'
    BY <1>2, IdlesFresh DEF CFresh, Renews, Replaces, NewId, Cited, Live, Exists
  <1>6. (\A q \in OPasses : OFresh(opass[q])') /\ (\A e \in Editors : EFresh(editor[e])')
    BY <1>3, IdlesFresh DEF OIdles, EIdles, OFresh, EFresh
  <1>7. QED
    BY <1>4, <1>5, <1>6 DEF Fresh3

LEMMA OSteps1 ==
    ASSUME Types, Solo, NEW p \in OPasses, opass[p] # OIdle \/ Quiet, NEW j \in OPass \cup {OIdle},
           OBecome(p, j), UNCHANGED <<cpass, editor>>, OFresh(j)'
    PROVE  Solo' /\ Fresh3'
  <1>1. CIdles /\ EIdles /\ \A q \in OPasses : q # p => opass[q] = OIdle
    BY OAlone DEF Quiet, CIdles, EIdles
  <1>2. opass'[p] = j /\ \A q \in OPasses : q # p => opass'[q] = OIdle
    BY <1>1, OBecomeTyped DEF Types
  <1>3. CIdles' /\ EIdles'
    BY <1>1 DEF CIdles, EIdles
  <1>4. Solo'
    BY <1>2, <1>3 DEF Solo, CIdles, EIdles
  <1>5. \A q \in OPasses : OFresh(opass[q])'
    BY <1>2, IdlesFresh DEF OFresh, Shown, Recorded, NewId, LiveArticle, Live, Exists
  <1>6. (\A q \in CPasses : CFresh(cpass[q])') /\ (\A e \in Editors : EFresh(editor[e])')
    BY <1>3, IdlesFresh DEF CIdles, EIdles, CFresh, EFresh
  <1>7. QED
    BY <1>4, <1>5, <1>6 DEF Fresh3

LEMMA ESteps1 ==
    ASSUME Types, Solo, NEW e \in Editors, editor[e] # EIdle \/ Quiet, NEW r \in Editor \cup {EIdle},
           Serve(e, r), UNCHANGED <<cpass, opass>>, EFresh(r)'
    PROVE  Solo' /\ Fresh3'
  <1>1. CIdles /\ OIdles /\ \A f \in Editors : f # e => editor[f] = EIdle
    BY EAlone DEF Quiet, CIdles, OIdles
  <1>2. editor'[e] = r /\ \A f \in Editors : f # e => editor'[f] = EIdle
    BY <1>1, ServeTyped
  <1>3. CIdles' /\ OIdles'
    BY <1>1 DEF CIdles, OIdles
  <1>4. Solo'
    BY <1>2, <1>3 DEF Solo, CIdles, OIdles
  <1>5. \A f \in Editors : EFresh(editor[f])'
    BY <1>2, IdlesFresh DEF EFresh, Live, Exists
  <1>6. (\A q \in CPasses : CFresh(cpass[q])') /\ (\A q \in OPasses : OFresh(opass[q])')
    BY <1>3, IdlesFresh DEF CIdles, OIdles, CFresh, OFresh
  <1>7. QED
    BY <1>4, <1>5, <1>6 DEF Fresh3

LEMMA QuietStep1 ==
    ASSUME Solo, Quiet, UNCHANGED <<cpass, opass, editor>>
    PROVE  Solo' /\ Fresh3'
  <1>1. Solo'
    BY DEF Solo, CIdles, OIdles, EIdles
  <1>2. /\ \A q \in CPasses : cpass'[q] = CIdle
        /\ \A q \in OPasses : opass'[q] = OIdle
        /\ \A e \in Editors : editor'[e] = EIdle
    BY DEF Quiet
  <1>3. /\ \A q \in CPasses : CFresh(cpass[q])'
        /\ \A q \in OPasses : OFresh(opass[q])'
        /\ \A e \in Editors : EFresh(editor[e])'
    BY <1>2, IdlesFresh DEF CFresh, OFresh, EFresh
  <1>4. QED
    BY <1>1, <1>3 DEF Fresh3

-----------------------------------------------------------------------------
\* A session arrives while a thread is at work

LEMMA ArriveSerial ==
    ASSUME Types, Backward, NEW o, RowsConform(o), Serial, NEW d \in Digest, Arrive(d)
    PROVE  Serial'
  <1>0. /\ released' = released \cup {d} /\ minted \in Nat
        /\ UNCHANGED <<cpass, opass, editor, ostate, purged>>
    BY TypesGive DEF Arrive, cvars, ovars, history
  <1>1. \/ UNCHANGED notes
        \/ /\ minted + 1 \in NoteId /\ minted' = minted + 1
           /\ Quoted(d, minted + 1) \in Note
           /\ UpsertNote(minted + 1, Quoted(d, minted + 1))
    BY ArriveTyped
  <1>2. Solo'
    BY <1>0 DEF Serial, Solo, CIdles, OIdles, EIdles
  <1>3. CASE UNCHANGED notes
    <2>1. UNCHANGED <<note, minted, recent>>
      BY <1>3 DEF notes
    <2>2. Rows'
      BY <1>0, <2>1, RowsStill DEF Serial
    <2>3. Fresh3'
      <3>1. \A e \in Editors : EFresh(editor[e])'
        BY <1>0, <2>1 DEF Serial, Fresh3, EFresh, Live, Exists
      <3>2. \A p \in CPasses : CFresh(cpass[p])'
        BY <1>0, <2>1 DEF Serial, Fresh3, CFresh, Renews, Replaces, NewId, Live, Exists
      <3>3. \A p \in OPasses : OFresh(opass[p])'
        BY <1>0, <2>1 DEF Serial, Fresh3, OFresh, Shown, Recorded, NewId, LiveArticle, Live, Exists
      <3>4. QED
        BY <3>1, <3>2, <3>3 DEF Fresh3
    <2>4. QED
      BY <1>2, <2>2, <2>3 DEF Serial
  <1>4. CASE /\ minted + 1 \in NoteId /\ minted' = minted + 1
             /\ Quoted(d, minted + 1) \in Note
             /\ UpsertNote(minted + 1, Quoted(d, minted + 1))
    <2> DEFINE id == minted + 1
               v == Quoted(d, minted + 1)
    <2>1. v.kind = "quote" /\ v.prev = None /\ v.status = "candidate" /\ v.evidence = {d} /\ v.disputed = {}
      BY DEF Quoted, NewNote
    <2>2. NewId(id)
      BY <1>0, <1>4, FreshIsNew
    <2>3. v \in Note /\ id \in NoteId /\ UpsertNote(id, v) /\ id > minted /\ minted' = id
      BY <1>0, <1>4
    <2> HIDE DEF v, id
    <2>4. Cited(v) \subseteq released'
      BY <1>0, <2>1 DEF Cited
    <2>5. Rows'
      BY <1>0, <2>1, <2>2, <2>3, <2>4, AddRow DEF Serial
    <2>6. \A n \in NoteId : note'[n] = IF n = id THEN v ELSE note[n]
      BY <2>3, TypesGive DEF UpsertNote, RowsTyped
    <2>7. \A n \in NoteId : Exists(n) => n # id /\ Exists(n)' /\ note'[n] = note[n]
      BY <2>2, <2>6 DEF NewId, Exists
    <2>8. \A n \in NoteId : Live(n) => Live(n)'
      BY <2>7 DEF Live
    <2>9. \A n \in NoteId : \A q : LiveArticle(n, q)' <=> LiveArticle(n, q)
      BY <2>1, <2>6, <2>7 DEF LiveArticle, Live, Exists
    <2>10. \A n \in NoteId : n <= minted => n # id /\ n <= minted'
      BY <1>0, <2>3 DEF NoteId
    <2>11. \A n \in NoteId : NewId(n) /\ n <= minted => NewId(n)'
      BY <2>1, <2>6, <2>7, <2>10, NoneOutside DEF NewId, Exists
    <2>12. \A e \in Editors : EFresh(editor[e])'
      <3>1. SUFFICES ASSUME NEW e \in Editors, editor[e] \in Editor
                     PROVE  Live(editor[e].id)' /\ editor[e].read = note'[editor[e].id]
        BY <1>0 DEF EFresh
      <3>2. editor[e].id \in NoteId /\ Live(editor[e].id) /\ editor[e].read = note[editor[e].id]
        BY <3>1, EditorTyped DEF Serial, Fresh3, EFresh
      <3>3. QED
        BY <1>0, <2>7, <2>8, <3>2 DEF Live
    <2>13. \A p \in CPasses : CFresh(cpass[p])'
      <3>1. SUFFICES ASSUME NEW p \in CPasses, NEW j, j = cpass[p]
                     PROVE  CFresh(j)'
        BY <1>0 DEF CFresh, Renews, Replaces, NewId, Live, Exists
      <3>2. CFresh(j)
        BY <3>1 DEF Serial, Fresh3
      <3>3. j \in CPass \cup {CIdle}
        BY <3>1, TypesGive
      <3>4. j.pc # "idle" => \A c \in j.todo : c.id \in released'
        BY <1>0, <3>2 DEF CFresh
      <3>5. j.pc \in {"abandon", "retrieve", "failed", "call", "write"} => j.cur \in released'
        BY <1>0, <3>2 DEF CFresh
      <3>6. j.pc = "call" => \A n \in DOMAIN j.seen : Live(n)' /\ j.seen[n] = note'[n] /\ note'[n].kind = "claim"
        <4>1. SUFFICES ASSUME j.pc = "call", NEW n \in DOMAIN j.seen
                       PROVE  Live(n)' /\ j.seen[n] = note'[n] /\ note'[n].kind = "claim"
          OBVIOUS
        <4>2. n \in NoteId
          BY <3>3, <4>1, CJobTyped DEF Seen
        <4>3. QED
          BY <2>7, <2>8, <3>2, <4>1, <4>2 DEF CFresh, Live
      <3>7. ASSUME j.pc = "write", NEW u \in j.upserts
            PROVE  Renews(u)'
        <4>1. u.id \in NoteId /\ Renews(u)
          BY <3>2, <3>3, <3>7, CJobTyped DEF CFresh
        <4>2. u.id <= minted => u.id <= minted'
          BY <2>10, <4>1
        <4>3. CASE Live(u.id)
          BY <1>0, <2>7, <2>8, <4>1, <4>3 DEF Renews, Live, NewId
        <4>4. CASE ~Live(u.id)
          BY <1>0, <2>11, <4>1, <4>2, <4>4 DEF Renews
        <4>5. QED
          BY <4>3, <4>4
      <3>8. ASSUME j.pc = "write", NEW s \in j.supersedes
            PROVE  Replaces(s)'
        <4>1. s.id \in NoteId /\ s.old \in NoteId /\ Replaces(s)
          BY <3>2, <3>3, <3>8, CJobTyped DEF CFresh
        <4>2. QED
          BY <1>0, <2>7, <2>8, <2>10, <2>11, <4>1 DEF Replaces, Live
      <3>9. QED
        BY <3>2, <3>4, <3>5, <3>6, <3>7, <3>8 DEF CFresh
    <2>14. \A p \in OPasses : OFresh(opass[p])'
      <3>1. SUFFICES ASSUME NEW p \in OPasses, NEW j, j = opass[p]
                     PROVE  OFresh(j)'
        BY <1>0 DEF OFresh, Shown, Recorded, NewId, LiveArticle, Live, Exists
      <3>2. OFresh(j) /\ j \in OPass \cup {OIdle}
        BY <3>1, TypesGive DEF Serial, Fresh3
      <3>3. \A q : Recorded(q)' = Recorded(q)
        BY <1>0 DEF Recorded
      <3>4. j.pc \notin {"idle", "next"} =>
               /\ j.project \notin j.todo
               /\ \A x \in j.comps : x \in released' /\ x.project = j.project
               /\ Recorded(j.project)' \subseteq j.comps
        BY <1>0, <3>2, <3>3 DEF OFresh
      <3>5. j.pc \in {"call", "write"} => Shown(j)'
        <4>1. SUFFICES ASSUME j.pc \in {"call", "write"}
                       PROVE  Shown(j)'
          OBVIOUS
        <4>2. Shown(j) /\ j.prior \in NoteId \cup {None}
          BY <3>2, <4>1, OJobTyped DEF OFresh
        <4>3. QED
          BY <2>7, <2>9, <4>2 DEF Shown, LiveArticle, Live
      <3>6. j.pc = "write" =>
               /\ NewId(j.id)' /\ j.id <= minted'
               /\ j.article.kind = "article" /\ j.article.project = j.project /\ j.article.source = "ai"
               /\ j.article.status # "superseded" /\ j.article.evidence = j.comps /\ j.article.disputed = {}
               /\ j.article.prev = j.prior
        <4>1. SUFFICES ASSUME j.pc = "write"
                       PROVE  NewId(j.id)' /\ j.id <= minted'
          BY <3>2 DEF OFresh
        <4>2. j.id \in NoteId
          BY <3>2, <4>1, OJobTyped
        <4>3. QED
          BY <2>10, <2>11, <3>2, <4>1, <4>2 DEF OFresh
      <3>7. j.pc = "mark" => /\ LiveArticle(j.id, j.project)' /\ note'[j.id].source = "ai"
                             /\ note'[j.id].evidence = j.comps
        <4>1. j.pc = "mark" => j.id \in NoteId
          BY <3>2, OJobTyped
        <4>2. QED
          BY <2>7, <2>9, <3>2, <4>1 DEF OFresh, LiveArticle, Live
      <3>8. QED
        BY <1>0, <3>2, <3>4, <3>5, <3>6, <3>7 DEF OFresh
    <2>15. QED
      BY <1>2, <2>5, <2>12, <2>13, <2>14 DEF Serial, Fresh3
  <1>5. QED
    BY <1>1, <1>3, <1>4

-----------------------------------------------------------------------------
\* People, purges and retries

LEMMA CreateSerial ==
    ASSUME Types, Exclusive, Careful, Backward, NEW o, RowsConform(o), Serial, NEW e \in Editors,
           NEW kind \in {"claim", "article"}, NEW project \in Projects, Create(e, kind, project)
    PROVE  Serial'
  <1>1. Quiet /\ (kind = "article" => CurrentOverview(project) = None)
    BY DEF Create, Request, MayStart
  <1>2. /\ minted + 1 \in NoteId /\ minted \in Nat
        /\ Spoken(kind, project, minted + 1) \in Note
        /\ UpsertNote(minted + 1, Spoken(kind, project, minted + 1))
        /\ UNCHANGED <<released, cpass, ostate, opass, editor, purged>>
    BY CreateTyped, TypesGive DEF cvars, ovars
  <1> DEFINE id == minted + 1
             v == Spoken(kind, project, minted + 1)
  <1>3. /\ v.kind = kind /\ v.prev = None /\ v.status = "established" /\ v.source = "human"
        /\ v.evidence = {} /\ v.disputed = {} /\ v.project = project
    BY DEF Spoken
  <1>4. NewId(id)
    BY <1>2, FreshIsNew
  <1>5. v \in Note /\ id \in NoteId /\ UpsertNote(id, v)
    BY <1>2
  <1> HIDE DEF v, id
  <1>6. kind = "article" => \A n \in NoteId : ~LiveArticle(n, project)
    BY <1>1, OverviewShows DEF Serial, Rows
  <1>7. Rows'
    BY <1>2, <1>3, <1>4, <1>5, <1>6, AddRow DEF Serial, Cited
  <1>8. Solo' /\ Fresh3'
    BY <1>1, <1>2, QuietStep1 DEF Serial
  <1>9. QED
    BY <1>7, <1>8 DEF Serial

LEMMA PurgeSerial ==
    ASSUME Types, Exclusive, Serial, NEW S, Purge(S)
    PROVE  Serial'
  <1>1. Quiet
    BY DEF Purge, Request, MayStart
  <1>2. /\ StripNotes(S) /\ S \subseteq released /\ released' = released \ S /\ purged' = purged \cup S
        /\ UNCHANGED <<cpass, ostate, opass, editor>>
    BY DEF Purge, ovars
  <1>3. Rows'
    BY <1>2, StripRows DEF Serial
  <1>4. QED
    BY <1>1, <1>2, <1>3, QuietStep1 DEF Serial

LEMMA RetrySerial ==
    ASSUME Types, Exclusive, Serial, NEW q \in Projects, RetryOverview(q)
    PROVE  Serial'
  <1>1. Quiet
    BY DEF RetryOverview, Request, MayStart
  <1>2. /\ ostate' = [ostate EXCEPT ![q] = NoOState]
        /\ UNCHANGED <<released, notes, purged, cpass, opass, editor>>
    BY DEF RetryOverview, ORetry, cvars, history
  <1>3. NoOState.contributors = {} /\ NoOState.state = "none"
    BY DEF NoOState
  <1>4. Rows'
    BY <1>2, <1>3, BookRow DEF Serial
  <1>5. QED
    BY <1>1, <1>2, <1>4, QuietStep1 DEF Serial

\* A request reads a live version, or a version in the history of one.
LEMMA ReadsSerial ==
    ASSUME Types, Exclusive, Careful, Serial, NEW e \in Editors, NEW n \in NoteId,
           NEW pc \in {"edit", "confirm"}, NEW text \in NoteId \cup {None}, Reads(e, n, pc, text)
    PROVE  Serial'
  <1>1. Quiet /\ Live(n)
    BY DEF Reads, Request, MayStart
  <1>2. PICK r \in Editor : r.id = n /\ r.read = note[n] /\ Serve(e, r)
    BY ReadsTyped
  <1>3. UNCHANGED <<released, note, recent, minted, cpass, ostate, opass, purged>>
    BY DEF Reads, notes, cvars, ovars, history
  <1>4. Rows'
    BY <1>3, RowsStill DEF Serial
  <1>5. EFresh(r)'
    BY <1>1, <1>2, <1>3 DEF EFresh, Live, Exists
  <1>6. QED
    BY <1>1, <1>2, <1>3, <1>4, <1>5, ESteps1 DEF Serial

LEMMA LetGoSerial ==
    ASSUME Types, Serial, NEW e \in Editors, editor[e] # EIdle, Serve(e, EIdle),
           UNCHANGED <<released, notes, cvars, ovars, history>>
    PROVE  Serial'
  <1>1. UNCHANGED <<released, note, recent, cpass, ostate, opass, purged>>
    BY DEF notes, cvars, ovars, history
  <1>2. Rows'
    BY <1>1, RowsStill DEF Serial
  <1>3. QED
    BY <1>1, <1>2, ESteps1, IdlesFresh DEF Serial

LEMMA WriteVersionSerial ==
    ASSUME Types, Backward, NEW o, RowsConform(o), Serial, NEW e \in Editors, WriteVersion(e)
    PROVE  Serial'
  <1>1. /\ editor[e] \in Editor /\ minted + 1 \in NoteId /\ minted \in Nat
        /\ Serve(e, EIdle) /\ UNCHANGED <<released, cpass, ostate, opass, purged>>
    BY WriteVersionTyped, TypesGive DEF cvars, ovars
  <1>2. PICK text \in NoteId :
           /\ Edited(editor[e].read, text, minted + 1) \in Note
           /\ SupersedeNote(editor[e].id, minted + 1, Edited(editor[e].read, text, minted + 1))
    BY WriteVersionTyped
  <1> DEFINE old == editor[e].id
             id == minted + 1
             v == Edited(editor[e].read, text, minted + 1)
  <1>3. old \in NoteId /\ Live(old) /\ editor[e].read = note[old] /\ note[old] \in Note /\ editor[e] # EIdle
    BY <1>1, EditorTyped DEF Serial, Fresh3, EFresh
  <1>4. /\ v.kind = note[old].kind /\ v.project = note[old].project /\ v.source = "human"
        /\ v.status = "established" /\ v.evidence = note[old].evidence /\ v.disputed = {}
    <2>1. note[old] \in Note
      BY <1>3
    <2>2. Edited(note[old], text, minted + 1).kind = note[old].kind
          /\ Edited(note[old], text, minted + 1).project = note[old].project
          /\ Edited(note[old], text, minted + 1).source = "human"
          /\ Edited(note[old], text, minted + 1).status = "established"
          /\ Edited(note[old], text, minted + 1).evidence = note[old].evidence
          /\ Edited(note[old], text, minted + 1).disputed = {}
      BY <2>1 DEF Edited, Note
    <2>3. QED
      BY <1>3, <2>2
  <1>5. NewId(id)
    BY <1>1, FreshIsNew
  <1>6. v \in Note /\ SupersedeNote(old, id, v) /\ id \in NoteId
    BY <1>1, <1>2
  <1> HIDE DEF old, id, v
  <1>7. Cited(v) \subseteq released
    BY <1>3, <1>4 DEF Serial, Rows, Grounded, Cited, Live
  <1>8. Rows'
    BY <1>1, <1>3, <1>4, <1>5, <1>6, <1>7, ReplaceRow DEF Serial
  <1>9. QED
    BY <1>1, <1>3, <1>8, ESteps1, IdlesFresh DEF Serial

LEMMA WriteConfirmationSerial ==
    ASSUME Types, Serial, NEW e \in Editors, WriteConfirmation(e)
    PROVE  Serial'
  <1>1. /\ editor[e] \in Editor /\ Confirmed(editor[e].read) \in Note
        /\ UpsertNote(editor[e].id, Confirmed(editor[e].read))
        /\ Serve(e, EIdle) /\ UNCHANGED <<released, cpass, ostate, opass, purged>>
    BY WriteConfirmationTyped DEF cvars, ovars, history
  <1> DEFINE id == editor[e].id
             v == Confirmed(editor[e].read)
  <1>2. id \in NoteId /\ Live(id) /\ editor[e].read = note[id] /\ note[id] \in Note /\ editor[e] # EIdle
    BY <1>1, EditorTyped DEF Serial, Fresh3, EFresh
  <1>3. /\ v.kind = note[id].kind /\ v.project = note[id].project /\ v.source = note[id].source
        /\ v.prev = note[id].prev /\ v.status = "established"
        /\ v.evidence = note[id].evidence /\ v.disputed = note[id].disputed
    <2>1. note[id] \in Note
      BY <1>2
    <2>2. Confirmed(note[id]).kind = note[id].kind /\ Confirmed(note[id]).project = note[id].project
          /\ Confirmed(note[id]).source = note[id].source /\ Confirmed(note[id]).prev = note[id].prev
          /\ Confirmed(note[id]).status = "established"
          /\ Confirmed(note[id]).evidence = note[id].evidence
          /\ Confirmed(note[id]).disputed = note[id].disputed
      BY <2>1 DEF Confirmed, Note
    <2>3. QED
      BY <1>2, <2>2
  <1>4. v \in Note /\ UpsertNote(id, v)
    BY <1>1
  <1> HIDE DEF id, v
  <1>5. Cited(v) \subseteq released
    BY <1>2, <1>3 DEF Serial, Rows, Grounded, Cited, Live
  <1>6. Rows'
    BY <1>1, <1>2, <1>3, <1>4, <1>5, RefreshRow DEF Serial
  <1>7. QED
    BY <1>1, <1>2, <1>6, ESteps1, IdlesFresh DEF Serial

-----------------------------------------------------------------------------
\* The consolidation pass at work

LEMMA CJobSerial ==
    ASSUME Types, Serial, NEW p \in CPasses, cpass[p] # CIdle \/ Quiet, NEW j \in CPass \cup {CIdle},
           CBecome(p, j), UNCHANGED <<released, note, recent, ostate, opass, editor, purged>>, CFresh(j)'
    PROVE  Serial'
  <1>1. Rows'
    BY RowsStill DEF Serial
  <1>2. QED
    BY <1>1, CSteps1 DEF Serial

LEMMA CPlainSerial ==
    ASSUME Types, Serial, NEW p \in CPasses, CPlain(p), CBegin(p) => Quiet,
           UNCHANGED <<ostate, opass, editor, purged>>
    PROVE  Serial'
  <1>0. cpass[p] # CIdle \/ Quiet
    BY DEF CPlain, CBegin, CEnd, CTake, CAbandon, CQuota, CCallFails, CRecordFailure, CMark, CCrash, CAt, CIdle
  <1>1. PICK j \in CPass \cup {CIdle} : j.pc \notin {"call", "write"} /\ CBecome(p, j)
    BY CPlainTyped
  <1>2. cpass'[p] = j
    BY <1>1, CBecomeTyped DEF Types
  <1>3. UNCHANGED <<released, note, recent, minted>>
    BY CPlainTyped DEF notes
  <1>4. \A x : CBecome(p, x) => x = j
    BY <1>2 DEF CBecome, Types
  <1> DEFINE J == cpass[p]
             Good(x) == /\ x.pc # "idle" => \A c \in x.todo : c.id \in released
                        /\ x.pc \in {"abandon", "retrieve", "failed"} => x.cur \in released
  <1>5. /\ J.pc # "idle" => \A c \in J.todo : c.id \in released
        /\ J.pc \in {"abandon", "retrieve", "failed", "call", "write"} => J.cur \in released
    BY DEF Serial, Fresh3, CFresh
  <1>6. Good(j)
    <2>0. SUFFICES Good(j)
      OBVIOUS
    <2>1. CASE CBegin(p)
      <3> DEFINE T == {[id |-> d, attempts |-> cstate[d].attempts] : d \in NewestOf(Unconsolidated, Batch)}
      <3>1. j = [pc |-> "next", todo |-> T]
        BY <1>4, <2>1 DEF CBegin
      <3>2. ASSUME NEW c \in T
            PROVE  c.id \in released
        <4>1. PICK d \in NewestOf(Unconsolidated, Batch) : c = [id |-> d, attempts |-> cstate[d].attempts]
          OBVIOUS
        <4>2. c.id = d
          BY <4>1
        <4>3. QED
          BY <4>2 DEF NewestOf, Unconsolidated
      <3> HIDE DEF T
      <3>3. QED
        BY <3>1, <3>2
    <2>2. CASE CEnd(p) \/ CQuota(p) \/ CCrash(p)
      <3>1. j = CIdle
        BY <1>4, <2>2 DEF CEnd, CQuota, CCrash
      <3>2. QED
        BY <3>1 DEF CIdle
    <2>3. CASE CTake(p)
      <3>1. PICK c \in J.todo : j = [pc |-> IF c.attempts >= CMaxAttempts THEN "abandon" ELSE "retrieve",
                                     todo |-> J.todo \ {c}, cur |-> c.id]
        BY <1>4, <2>3 DEF CTake
      <3>2. j.todo \subseteq J.todo /\ j.cur = c.id /\ J.pc = "next"
        BY <2>3, <3>1 DEF CTake, CAt
      <3>3. QED
        BY <1>5, <3>2
    <2>4. CASE CAbandon(p) \/ CRecordFailure(p) \/ CMark(p)
      <3>1. j = [pc |-> "next", todo |-> J.todo] /\ J.pc # "idle"
        BY <1>4, <2>4 DEF CAbandon, CRecordFailure, CMark, CProceed, CAt
      <3>2. QED
        BY <1>5, <3>1
    <2>5. CASE CCallFails(p)
      <3>1. j = [pc |-> "failed", todo |-> J.todo, cur |-> J.cur] /\ J.pc = "call"
        BY <1>4, <2>5 DEF CCallFails, CGoto, CAt
      <3>2. QED
        BY <1>5, <3>1
    <2>6. QED
      BY <2>1, <2>2, <2>3, <2>4, <2>5 DEF CPlain
  <1> HIDE DEF J
  <1>7. CFresh(j)'
    <2>1. j.pc \in {"idle", "next", "abandon", "retrieve", "failed", "call", "write"}
      BY DEF CPass, CIdle
    <2>2. QED
      BY <1>1, <1>3, <1>6, <2>1 DEF CFresh
  <1>8. QED
    BY <1>0, <1>1, <1>3, <1>7, CJobSerial

LEMMA CRetrieveSerial ==
    ASSUME Types, Serial, NEW p \in CPasses, CRetrieve(p), UNCHANGED <<ostate, opass, editor, purged>>
    PROVE  Serial'
  <1>1. PICK C \in Retrievable(cpass[p].cur) :
           CBecome(p, [pc |-> "call", todo |-> cpass[p].todo, cur |-> cpass[p].cur, seen |-> [n \in C |-> note[n]]])
    BY DEF CRetrieve
  <1> DEFINE x == [pc |-> "call", todo |-> cpass[p].todo, cur |-> cpass[p].cur, seen |-> [n \in C |-> note[n]]]
  <1>2. UNCHANGED <<released, note, recent>> /\ cpass[p].pc = "retrieve"
    BY DEF CRetrieve, notes, CAt
  <1>3. PICK j \in CPass : j.pc = "call" /\ CBecome(p, j)
    BY CRetrieveTyped
  <1>4. j = x
    BY <1>1, <1>3 DEF CBecome, Types
  <1>5. \A n \in C : Live(n) /\ note[n].kind = "claim"
    BY DEF Retrievable
  <1>6. /\ \A c \in cpass[p].todo : c.id \in released
        /\ cpass[p].cur \in released
    BY <1>2 DEF Serial, Fresh3, CFresh
  <1>7. x.pc = "call" /\ x.todo = cpass[p].todo /\ x.cur = cpass[p].cur /\ DOMAIN x.seen = C
        /\ \A n \in C : x.seen[n] = note[n]
    OBVIOUS
  <1> HIDE DEF x
  <1>8. CFresh(j)'
    BY <1>2, <1>4, <1>5, <1>6, <1>7 DEF CFresh, Live, Exists
  <1>9. cpass[p] # CIdle
    BY <1>2 DEF CIdle
  <1>10. QED
    BY <1>2, <1>3, <1>8, <1>9, CJobSerial

LEMMA CAnswerSerial ==
    ASSUME Types, Backward, NEW o, RowsConform(o), Serial, NEW p \in CPasses, CAnswer(p),
           UNCHANGED <<ostate, opass, editor, purged>>
    PROVE  Serial'
  <1> DEFINE seen == cpass[p].seen
             d == cpass[p].cur
  <1>1. /\ cpass[p].pc = "call" /\ seen \in Seen /\ d \in Digest /\ minted \in Nat
        /\ UNCHANGED <<released, note, recent>>
    BY CAnswerTyped, TypesGive
  <1>2. PICK verdict \in [DOMAIN seen -> Relation], new \in Nat, j \in CPass :
           /\ minted' = minted + Cardinality(Refined(seen, verdict)) + new
           /\ minted' \in minted .. MaxNotes
           /\ CPlan(j, seen, d, verdict, new)
           /\ CBecome(p, j)
    BY CAnswerTyped
  <1>3. /\ d \in released
        /\ \A c \in cpass[p].todo : c.id \in released
        /\ \A n \in DOMAIN seen : Live(n) /\ seen[n] = note[n] /\ note[n].kind = "claim"
    BY <1>1 DEF Serial, Fresh3, CFresh
  <1>4. j.todo = cpass[p].todo /\ j.cur = d
    <2>1. \E u, s : CBecome(p, [pc |-> "write", todo |-> cpass[p].todo, cur |-> d, upserts |-> u, supersedes |-> s])
      BY DEF CAnswer
    <2>2. QED
      BY <1>2, <2>1 DEF CBecome, Types
  <1>5. /\ DOMAIN seen \in SUBSET NoteId /\ \A n \in DOMAIN seen : seen[n] \in Note
        /\ Refined(seen, verdict) \in SUBSET DOMAIN seen /\ Cardinality(Refined(seen, verdict)) \in Nat
    BY <1>1, RefinedSubset
  <1> DEFINE R == Refined(seen, verdict)
             k == Cardinality(R)
  <1>6. \A n \in DOMAIN seen : Cited(seen[n]) \subseteq released /\ seen[n].status # "superseded"
    BY <1>3, <1>5 DEF Serial, Rows, Grounded, Cited, Live
  <1>7. /\ j.pc = "write" /\ j.upserts = Upserts(seen, verdict, d, new)
        /\ j.supersedes = Supersedes(seen, verdict, d)
    BY <1>2 DEF CPlan
  <1>8. /\ j.upserts \in SUBSET [id : NoteId, note : Note]
        /\ j.supersedes \in SUBSET [old : NoteId, id : NoteId, note : Note]
    BY <1>7, CJobTyped
  <1>9. \A s \in j.supersedes : /\ s.old \in R /\ s.id = Fresh(R, s.old)
                                /\ s.note = Refine(s.old, seen[s.old], d, s.id)
                                /\ s = [old |-> s.old, id |-> s.id, note |-> s.note]
    BY <1>1, <1>7, SupersedesAre
  <1>10. \A s \in j.supersedes : s.id \in NoteId /\ s.id > minted /\ s.id <= minted + k /\ s.id <= minted'
    <2>1. SUFFICES ASSUME NEW s \in j.supersedes
                   PROVE  s.id \in NoteId /\ s.id > minted /\ s.id <= minted + k /\ s.id <= minted'
      OBVIOUS
    <2>2. s.id \in minted + 1 .. minted + k
      BY <1>1, <1>5, <1>9, FreshRange
    <2>3. s.id \in NoteId /\ k \in Nat /\ minted' = minted + k + new
      BY <1>2, <1>5, <1>8
    <2>4. s.id \in Nat
      BY <2>3 DEF NoteId
    <2> HIDE DEF k
    <2>5. QED
      BY <1>1, <2>2, <2>3, <2>4
  <1>11. ASSUME NEW s \in j.supersedes
         PROVE  Replaces(s)'
    <2>1. s.old \in DOMAIN seen /\ s.old \in NoteId
      BY <1>5, <1>9
    <2>2. /\ s.note.kind = "claim" /\ s.note.status # "superseded" /\ Cited(s.note) \subseteq released
      BY <1>3, <1>5, <1>6, <1>9, <2>1, RefineKeeps DEF Cited
    <2>3. NewId(s.id)
      BY <1>10, FreshIsNew
    <2>4. QED
      BY <1>1, <1>3, <1>10, <2>1, <2>2, <2>3 DEF Replaces, NewId, Live, Exists
  <1>12. ASSUME NEW u \in j.upserts
         PROVE  Renews(u)' /\ (Live(u.id) \/ u.id > minted + k)
    <2>1. \/ \E n \in DOMAIN seen : u = [id |-> n, note |-> Support(seen[n], d)]
          \/ \E n \in DOMAIN seen : u = [id |-> n, note |-> Contradict(seen[n], d)]
          \/ \E i \in 1 .. new : /\ u.id = minted + k + i
                                 /\ u = [id |-> u.id, note |-> NewNote(d, u.id)]
      BY <1>1, <1>7, UpsertsAre
    <2>2. ASSUME NEW n \in DOMAIN seen, u.id = n, u.note = Support(seen[n], d) \/ u.note = Contradict(seen[n], d)
          PROVE  Renews(u)' /\ Live(u.id)
      <3>1. seen[n] \in Note /\ Live(n) /\ seen[n] = note[n] /\ note[n].kind = "claim"
        BY <1>3, <1>5
      <3>2. /\ u.note.kind = "claim" /\ u.note.status # "superseded" /\ u.note.prev = note[n].prev
            /\ Cited(u.note) \subseteq released
        <4>1. CASE u.note = Support(seen[n], d)
          BY <1>3, <1>6, <3>1, <4>1, SupportKeeps DEF Cited
        <4>2. CASE u.note = Contradict(seen[n], d)
          BY <1>3, <1>6, <3>1, <4>2, ContradictKeeps DEF Cited
        <4>3. QED
          BY <2>2, <4>1, <4>2
      <3>3. QED
        BY <1>1, <2>2, <3>1, <3>2 DEF Renews, Live, Exists
    <2>3. ASSUME NEW i \in 1 .. new, u.id = minted + k + i, u.note = NewNote(d, u.id)
          PROVE  Renews(u)' /\ u.id > minted + k
      <3>1. u.id \in NoteId /\ k \in Nat /\ minted' = minted + k + new
        BY <1>2, <1>5, <1>8
      <3> HIDE DEF k
      <3>2. u.id > minted /\ u.id <= minted' /\ u.id > minted + k
        BY <1>1, <2>3, <3>1
      <3>3. NewId(u.id)
        BY <3>1, <3>2, FreshIsNew
      <3>4. /\ u.note.kind = "claim" /\ u.note.status # "superseded" /\ u.note.prev = None
            /\ Cited(u.note) \subseteq released
        BY <1>3, <2>3 DEF NewNote, Cited
      <3>5. QED
        BY <1>1, <3>2, <3>3, <3>4 DEF Renews, NewId, Exists
    <2>4. QED
      BY <2>1, <2>2, <2>3
  <1>13. \A u \in j.upserts, s \in j.supersedes : u.id # s.id
    <2>1. SUFFICES ASSUME NEW u \in j.upserts, NEW s \in j.supersedes, u.id = s.id
                   PROVE  FALSE
      OBVIOUS
    <2>2. s.id \in NoteId /\ s.id <= minted + k /\ NewId(s.id) /\ k \in Nat /\ s.id \in Nat
      BY <1>5, <1>10, FreshIsNew DEF NoteId
    <2> HIDE DEF k
    <2>3. ~(s.id > minted + k)
      BY <1>1, <2>2
    <2>4. QED
      BY <1>12, <2>1, <2>2, <2>3 DEF NewId, Live
  <1>14. \A s, t \in j.supersedes : s.old = t.old \/ s.id = t.id => s = t
    <2>1. SUFFICES ASSUME NEW s \in j.supersedes, NEW t \in j.supersedes, s.old = t.old \/ s.id = t.id
                   PROVE  s = t
      OBVIOUS
    <2>2. s.old = t.old
      BY <1>1, <1>5, <1>9, <2>1, FreshDistinct
    <2>3. QED
      BY <1>9, <2>2
  <1>15. CFresh(j)'
    BY <1>1, <1>3, <1>4, <1>7, <1>11, <1>12, <1>13, <1>14 DEF CFresh
  <1>16. cpass[p] # CIdle
    BY <1>1 DEF CIdle
  <1>17. QED
    BY <1>1, <1>2, <1>15, <1>16, CJobSerial

\* A pass that has written one row of its plan.
LEMMA CUpsertSerial ==
    ASSUME Types, Serial, NEW p \in CPasses, CUpsert(p), UNCHANGED <<ostate, opass, editor, purged>>
    PROVE  Serial'
  <1> DEFINE J == cpass[p]
  <1>1. PICK u \in J.upserts :
           UpsertNote(u.id, u.note) /\ CBecome(p, [J EXCEPT !.upserts = J.upserts \ {u}])
    BY DEF CUpsert
  <1>2. J \in CPass /\ J.pc = "write" /\ UNCHANGED <<released, minted>>
    BY CWriteTyped
  <1>3. PICK j \in CPass : j.pc = "write" /\ CBecome(p, j)
    BY CWriteTyped
  <1>4. /\ J.upserts \in SUBSET [id : NoteId, note : Note]
        /\ J.supersedes \in SUBSET [old : NoteId, id : NoteId, note : Note]
    BY CWriteTyped
  <1>5. u.id \in NoteId /\ u.note \in Note
    BY <1>4
  <1>6. j = [J EXCEPT !.upserts = J.upserts \ {u}]
    BY <1>1, <1>3 DEF CBecome, Types
  <1>7. j.pc = "write" /\ j.todo = J.todo /\ j.cur = J.cur /\ j.upserts = J.upserts \ {u} /\ j.supersedes = J.supersedes
    BY <1>2, <1>6 DEF CPass
  <1>8. /\ \A c \in J.todo : c.id \in released
        /\ J.cur \in released
        /\ \A w \in J.upserts : Renews(w)
        /\ \A s \in J.supersedes : Replaces(s)
        /\ \A w \in J.upserts, s \in J.supersedes : w.id # s.id
        /\ \A s, t \in J.supersedes : s.old = t.old \/ s.id = t.id => s = t
    BY <1>2 DEF Serial, Fresh3, CFresh
  <1>9. cpass[p] # CIdle
    BY <1>2 DEF CIdle
  <1> HIDE DEF J
  <1>10. note \in [NoteId -> Note \cup {Absent}]
    BY TypesGive DEF RowsTyped
  <1>11. \A n \in NoteId : note'[n] = IF n = u.id THEN u.note ELSE note[n]
    BY <1>1, <1>5, <1>10 DEF UpsertNote
  <1>12. Renews(u)
    BY <1>8
  <1>13. Rows'
    <2>1. CASE Live(u.id) /\ note[u.id].kind = "claim" /\ note[u.id].prev = u.note.prev
      <3>1. u.note.kind = "claim" /\ u.note.status # "superseded" /\ Cited(u.note) \subseteq released
        BY <1>12 DEF Renews
      <3>2. UpsertNote(u.id, u.note) /\ UNCHANGED <<released, ostate, purged>>
        BY <1>1, <1>2
      <3>3. QED
        BY <1>5, <2>1, <3>1, <3>2, RefreshRow DEF Serial
    <2>2. CASE NewId(u.id) /\ u.note.prev = None
      <3>1. u.note.kind = "claim" /\ u.note.status # "superseded" /\ Cited(u.note) \subseteq released
        BY <1>12 DEF Renews
      <3>2. UpsertNote(u.id, u.note) /\ UNCHANGED <<released, ostate, purged>>
        BY <1>1, <1>2
      <3>3. QED
        BY <1>5, <2>2, <3>1, <3>2, AddRow DEF Serial
    <2>3. QED
      BY <1>12, <2>1, <2>2 DEF Renews
  <1>14. /\ u.note.kind = "claim" /\ u.note.status # "superseded"
         /\ Exists(u.id) => note[u.id].prev = u.note.prev
         /\ ~Exists(u.id) => u.note.prev = None
    BY <1>12 DEF Renews, NewId, Live
  <1>15. \A n \in NoteId : Exists(n)' <=> Exists(n) \/ n = u.id
    BY <1>5, <1>11, AbsentOutside DEF Exists
  <1>16. \A n \in NoteId : Live(n) \/ n = u.id => Live(n)'
    BY <1>11, <1>14, <1>15 DEF Live
  <1>17. \A n \in NoteId : n # u.id /\ NewId(n) => NewId(n)'
    <2>1. \A m \in NoteId : Exists(m)' => note'[m].prev = None \/ (Exists(m) /\ note'[m].prev = note[m].prev)
      BY <1>11, <1>14, <1>15
    <2>2. QED
      BY <1>15, <2>1, NoneOutside DEF NewId
  <1>18. ASSUME NEW w \in j.upserts
         PROVE  Renews(w)'
    <2>1. w.id \in NoteId /\ Renews(w)
      BY <1>4, <1>7, <1>8
    <2>2. CASE w.id = u.id
      <3>1. u.note.prev = w.note.prev
        BY <1>12, <2>1, <2>2 DEF Renews, NewId, Live
      <3>2. note'[w.id] = u.note /\ Live(w.id)'
        BY <1>11, <1>16, <2>1, <2>2
      <3>3. QED
        BY <1>2, <1>14, <2>1, <3>1, <3>2 DEF Renews
    <2>3. CASE w.id # u.id
      <3>1. note'[w.id] = note[w.id] /\ (Live(w.id) => Live(w.id)') /\ (NewId(w.id) => NewId(w.id)')
        BY <1>11, <1>16, <1>17, <2>1, <2>3
      <3>2. QED
        BY <1>2, <2>1, <3>1 DEF Renews
    <2>4. QED
      BY <2>2, <2>3
  <1>19. ASSUME NEW s \in j.supersedes
         PROVE  Replaces(s)'
    <2>1. s.old \in NoteId /\ s.id \in NoteId /\ Replaces(s) /\ s.id # u.id
      BY <1>4, <1>7, <1>8
    <2>2. Live(s.old)' /\ note'[s.old].kind = "claim"
      BY <1>11, <1>14, <1>16, <2>1 DEF Replaces
    <2>3. NewId(s.id)'
      BY <1>17, <2>1 DEF Replaces
    <2>4. QED
      BY <1>2, <2>1, <2>2, <2>3 DEF Replaces
  <1>20. CFresh(j)'
    BY <1>2, <1>7, <1>8, <1>18, <1>19 DEF CFresh
  <1>21. QED
    BY <1>3, <1>9, <1>13, <1>20, CSteps1 DEF Serial

LEMMA CSupersedeSerial ==
    ASSUME Types, Serial, NEW p \in CPasses, CSupersede(p), UNCHANGED <<ostate, opass, editor, purged>>
    PROVE  Serial'
  <1> DEFINE J == cpass[p]
  <1>1. PICK s \in J.supersedes :
           SupersedeNote(s.old, s.id, s.note) /\ CBecome(p, [J EXCEPT !.supersedes = J.supersedes \ {s}])
    BY DEF CSupersede
  <1>2. J \in CPass /\ J.pc = "write" /\ J.upserts = {} /\ UNCHANGED <<released, minted>>
    BY CWriteTyped DEF CSupersede
  <1>3. PICK j \in CPass : j.pc = "write" /\ CBecome(p, j)
    BY CWriteTyped
  <1>4. J.supersedes \in SUBSET [old : NoteId, id : NoteId, note : Note]
    BY CWriteTyped
  <1>5. s.old \in NoteId /\ s.id \in NoteId /\ s.note \in Note
    BY <1>4
  <1>6. j = [J EXCEPT !.supersedes = J.supersedes \ {s}]
    BY <1>1, <1>3 DEF CBecome, Types
  <1>7. j.pc = "write" /\ j.todo = J.todo /\ j.cur = J.cur /\ j.upserts = {} /\ j.supersedes = J.supersedes \ {s}
    BY <1>2, <1>6 DEF CPass
  <1>8. /\ \A c \in J.todo : c.id \in released
        /\ J.cur \in released
        /\ \A t \in J.supersedes : Replaces(t)
        /\ \A r, t \in J.supersedes : r.old = t.old \/ r.id = t.id => r = t
    BY <1>2 DEF Serial, Fresh3, CFresh
  <1>9. cpass[p] # CIdle
    BY <1>2 DEF CIdle
  <1> HIDE DEF J
  <1>10. note \in [NoteId -> Note \cup {Absent}]
    BY TypesGive DEF RowsTyped
  <1>11. Replaces(s)
    BY <1>8
  <1>12. Rows'
    <2>1. /\ s.note.kind = "claim" /\ s.note.status # "superseded" /\ Cited(s.note) \subseteq released
          /\ Live(s.old) /\ note[s.old].kind = "claim" /\ NewId(s.id)
      BY <1>11 DEF Replaces
    <2>2. SupersedeNote(s.old, s.id, s.note) /\ UNCHANGED <<released, ostate, purged>>
      BY <1>1, <1>2
    <2>3. QED
      BY <1>5, <2>1, <2>2, ReplaceRow DEF Serial
  <1>13. s.old # s.id /\ Exists(s.old)
    BY <1>11 DEF Replaces, NewId, Live
  <1> DEFINE w == [note[s.old] EXCEPT !.status = "superseded", !.next = s.id]
             x == [s.note EXCEPT !.prev = s.old]
  <1>14. x \in Note /\ x.prev = s.old
    BY <1>5 DEF Note
  <1>15. w \in Note /\ w.prev = note[s.old].prev
    <2>1. note[s.old] \in Note
      BY <1>5, <1>10, <1>13 DEF Exists
    <2>2. QED
      BY ONLY <2>1, <1>5, Retired DEF w
  <1>16. \A n \in NoteId : note'[n] = IF n = s.id THEN x ELSE IF n = s.old THEN w ELSE note[n]
    BY <1>1, <1>5, <1>10, <1>13 DEF SupersedeNote
  <1> HIDE DEF w, x
  <1>17. \A n \in NoteId : Exists(n)' <=> Exists(n) \/ n = s.id
    BY <1>5, <1>13, <1>14, <1>15, <1>16, AbsentOutside DEF Exists
  <1>18. \A n \in NoteId : n # s.id /\ n # s.old => note'[n] = note[n]
    BY <1>16
  <1>19. \A n \in NoteId : Exists(n)' => (n = s.id /\ note'[n].prev = s.old) \/ (Exists(n) /\ note'[n].prev = note[n].prev)
    BY <1>14, <1>15, <1>16, <1>17
  <1>20. ASSUME NEW t \in j.supersedes
         PROVE  Replaces(t)'
    <2>1. t.old \in NoteId /\ t.id \in NoteId /\ Replaces(t) /\ t.old # s.old /\ t.id # s.id
      BY <1>4, <1>7, <1>8
    <2>2. Exists(t.old) /\ t.old # s.id /\ t.id # s.old
      BY <1>11, <1>13, <2>1 DEF Replaces, NewId, Live
    <2>3. Live(t.old)' /\ note'[t.old].kind = "claim"
      BY <1>17, <1>18, <2>1, <2>2 DEF Replaces, Live
    <2>4. NewId(t.id)'
      BY <1>17, <1>19, <2>1, <2>2 DEF Replaces, NewId
    <2>5. QED
      BY <1>2, <2>1, <2>3, <2>4 DEF Replaces
  <1>21. CFresh(j)'
    BY <1>2, <1>7, <1>8, <1>20 DEF CFresh
  <1>22. QED
    BY <1>3, <1>9, <1>12, <1>21, CSteps1 DEF Serial

-----------------------------------------------------------------------------
\* The overview pass at work

LEMMA OJobSerial ==
    ASSUME Types, Serial, NEW p \in OPasses, opass[p] # OIdle \/ Quiet, NEW j \in OPass \cup {OIdle},
           OBecome(p, j), UNCHANGED <<released, note, recent, ostate, purged, cpass, editor>>, OFresh(j)'
    PROVE  Serial'
  <1>1. Rows'
    BY RowsStill DEF Serial
  <1>2. QED
    BY <1>1, OSteps1 DEF Serial

\* A pass that has decided on a project records it and goes on to the next.
Booked(p, wrote, st) ==
    /\ opass[p].pc \in {"abandon", "hold", "failed", "settle", "mark"}
    /\ OLoops(p, wrote)
    /\ ostate' = [ostate EXCEPT ![opass[p].project] = st]
    /\ \A d \in st.contributors \ purged : d \in opass[p].comps \/ d \in Recorded(opass[p].project)
    /\ st.state = "done" => opass[p].pc = "mark" /\ st.contributors = opass[p].comps

LEMMA OBooksSerial ==
    ASSUME Types, Serial, NEW p \in OPasses, NEW wrote, NEW st, Booked(p, wrote, st),
           UNCHANGED <<released, notes, purged, cpass, editor>>,
           NEW j \in OPass \cup {OIdle}, OBecome(p, j)
    PROVE  Serial'
  <1> DEFINE J == opass[p]
             q == J.project
  <1>0. /\ J.pc \in {"abandon", "hold", "failed", "settle", "mark"}
        /\ OLoops(p, wrote)
        /\ ostate' = [ostate EXCEPT ![q] = st]
        /\ \A d \in st.contributors \ purged : d \in J.comps \/ d \in Recorded(q)
        /\ st.state = "done" => J.pc = "mark" /\ st.contributors = J.comps
    BY DEF Booked
  <1>1. J \in OPass /\ J.pc # "idle" /\ J # OIdle
    BY <1>0, TypesGive DEF OIdle
  <1>2. q \in Projects
    BY <1>0, <1>1, OJobTyped
  <1>3. J.todo \in SUBSET Projects
    BY <1>0, <1>1, OJobTyped
  <1>4. OFresh(J)
    BY DEF Serial, Fresh3
  <1>5. \A d \in st.contributors \ purged : d \in released /\ d.project = q
    BY <1>0, <1>2, <1>4 DEF OFresh, Serial, Rows, Ledgered
  <1>6. ASSUME st.state = "done"
        PROVE  /\ \E n \in NoteId : LiveArticle(n, q)
               /\ \A n \in NoteId : LiveArticle(n, q) => st.contributors \ purged \subseteq note[n].evidence
    <2>1. LiveArticle(J.id, q) /\ note[J.id].evidence = J.comps /\ st.contributors = J.comps
      BY <1>0, <1>4, <1>6 DEF OFresh
    <2>2. J.id \in NoteId
      BY <1>0, <1>1, <1>6, OJobTyped
    <2>3. \A n \in NoteId : LiveArticle(n, q) => n = J.id
      BY <1>2, <2>1, <2>2 DEF Serial, Rows, OneArticle
    <2>4. QED
      BY <2>1, <2>2, <2>3
  <1>7. Rows'
    BY <1>0, <1>2, <1>5, <1>6, BookRow DEF Serial
  <1>8. j = [pc |-> "next", todo |-> J.todo, seen |-> J.seen, written |-> J.written + wrote]
    BY <1>0 DEF OLoops, OBecome, Types
  <1>9. \A x \in J.todo : ostate'[x] = ostate[x]
    BY <1>0, <1>1, <1>3, <1>4 DEF OFresh, Types, TypeOK, OverviewTypeOK
  <1>10. OFresh(j)'
    <2>1. j.pc = "next" /\ j.todo = J.todo /\ j.seen = J.seen
      BY <1>8
    <2>2. QED
      BY <1>0, <1>1, <1>4, <1>9, <2>1 DEF OFresh
  <1>11. QED
    BY <1>1, <1>7, <1>10, OSteps1 DEF Serial

LEMMA OPlainSerial ==
    ASSUME Types, Serial, NEW p \in OPasses, OPlain(p), OBegin(p) => Quiet,
           UNCHANGED <<cpass, editor, purged>>
    PROVE  Serial'
  <1>1. PICK j \in OPass \cup {OIdle} : j.pc \notin {"call", "write"} /\ OBecome(p, j)
    BY OPlainTyped
  <1>2. opass'[p] = j
    BY <1>1, OBecomeTyped DEF Types
  <1>3. UNCHANGED <<released, notes, note, recent, minted>>
    BY OPlainTyped DEF notes
  <1>4. \A x : OBecome(p, x) => x = j
    BY <1>2 DEF OBecome, Types
  <1> DEFINE J == opass[p]
  <1>5. OFresh(J) /\ J \in OPass \cup {OIdle}
    BY TypesGive DEF Serial, Fresh3
  <1>6. CASE OBegin(p)
    <2>1. j = [pc |-> "next", todo |-> {d.project : d \in released}, seen |-> ostate, written |-> 0]
      BY <1>4, <1>6 DEF OBegin
    <2>2. j.pc = "next" /\ j.seen = ostate /\ UNCHANGED ostate
      BY <1>6, <2>1 DEF OBegin
    <2>3. OFresh(j)'
      BY <2>2 DEF OFresh
    <2>4. QED
      BY <1>1, <1>3, <1>6, <2>2, <2>3, OJobSerial
  <1>7. CASE OEnd(p) \/ OQuota(p) \/ OCrash(p)
    <2>1. j = OIdle /\ UNCHANGED ostate /\ J # OIdle
      BY <1>4, <1>7 DEF OEnd, OQuota, OCrash, OAt, OIdle
    <2>2. QED
      BY <1>1, <1>3, <2>1, OJobSerial, IdlesFresh
  <1>8. CASE OCallFails(p) \/ OTooThin(p)
    <2>1. PICK label \in {"failed", "settle"} : j = [J EXCEPT !.pc = label]
      BY <1>4, <1>8 DEF OCallFails, OTooThin, OGoto
    <2>2. J.pc = "call" /\ UNCHANGED ostate /\ J # OIdle /\ J \in OPass
      BY <1>5, <1>8 DEF OCallFails, OTooThin, OAt, OIdle
    <2>3. /\ j.pc = label /\ j.todo = J.todo /\ j.seen = J.seen /\ j.project = J.project
          /\ j.comps = J.comps
      BY <2>1, <2>2 DEF OPass
    <2>4. OFresh(j)'
      BY <1>3, <1>5, <2>2, <2>3 DEF OFresh, Recorded
    <2>5. QED
      BY <1>1, <1>3, <2>2, <2>4, OJobSerial
  <1>9. CASE OAbandon(p) \/ ORecordFailure(p)
    <2>1. J.pc \in {"abandon", "failed"} /\ J.project \in Projects
      BY <1>5, <1>9, OJobTyped DEF OAbandon, ORecordFailure, OAt
    <2>2. PICK st : /\ ostate' = [ostate EXCEPT ![J.project] = st]
                    /\ st.contributors = ostate[J.project].contributors /\ st.state # "done"
      <3>1. CASE OAbandon(p)
        <4>1. ostate[J.project] \in OState
          BY <2>1 DEF Types, TypeOK, OverviewTypeOK
        <4>2. [ostate[J.project] EXCEPT !.state = "abandoned"].contributors = ostate[J.project].contributors
              /\ [ostate[J.project] EXCEPT !.state = "abandoned"].state # "done"
          BY <4>1 DEF OState
        <4>3. ostate' = [ostate EXCEPT ![J.project] = [ostate[J.project] EXCEPT !.state = "abandoned"]]
          BY <3>1 DEF OAbandon
        <4>4. QED
          BY <4>2, <4>3
      <3>2. CASE ORecordFailure(p)
        <4> DEFINE st == [state |-> "failed", contributors |-> ostate[J.project].contributors,
                          attempts |-> ostate[J.project].attempts + 1]
        <4>1. ostate' = [ostate EXCEPT ![J.project] = st]
          BY <3>2 DEF ORecordFailure
        <4>2. st.contributors = ostate[J.project].contributors /\ st.state # "done"
          OBVIOUS
        <4> HIDE DEF st
        <4>3. QED
          BY <4>1, <4>2
      <3>3. QED
        BY <1>9, <3>1, <3>2
    <2>3. OLoops(p, 0)
      BY <1>9 DEF OAbandon, ORecordFailure
    <2>4. \A d \in st.contributors \ purged : d \in Recorded(J.project)
      BY <2>2 DEF Recorded
    <2>5. \A d \in st.contributors \ purged : d \in J.comps \/ d \in Recorded(J.project)
      BY <2>4
    <2>6. st.state = "done" => J.pc = "mark" /\ st.contributors = J.comps
      BY <2>2
    <2>7. J.pc \in {"abandon", "hold", "failed", "settle", "mark"}
      BY <2>1
    <2>8. Booked(p, 0, st)
      BY <2>2, <2>3, <2>5, <2>6, <2>7 DEF Booked
    <2>9. QED
      BY <1>1, <1>3, <2>8, OBooksSerial
  <1>10. CASE OHold(p) \/ OSettle(p) \/ OMark(p)
    <2>1. PICK state \in {"human_held", "insufficient", "done"}, wrote \in {0, 1} :
             MarkDone(p, state) /\ OLoops(p, wrote) /\ (state = "done" => J.pc = "mark")
             /\ J.pc \in {"hold", "settle", "mark"}
      BY <1>10 DEF OHold, OSettle, OMark, OAt
    <2> DEFINE st == [state |-> state, contributors |-> J.comps, attempts |-> 0]
    <2>2. ostate' = [ostate EXCEPT ![J.project] = st]
      BY <2>1 DEF MarkDone
    <2>3. st.state = state /\ st.contributors = J.comps
      OBVIOUS
    <2> HIDE DEF st
    <2>5. \A d \in st.contributors \ purged : d \in J.comps \/ d \in Recorded(J.project)
      BY <2>3
    <2>6. st.state = "done" => J.pc = "mark" /\ st.contributors = J.comps
      BY <2>1, <2>3
    <2>7. J.pc \in {"abandon", "hold", "failed", "settle", "mark"}
      BY <2>1
    <2>8. Booked(p, wrote, st)
      BY <2>1, <2>2, <2>5, <2>6, <2>7 DEF Booked
    <2>9. QED
      BY <1>1, <1>3, <2>8, OBooksSerial
  <1>11. QED
    BY <1>6, <1>7, <1>8, <1>9, <1>10 DEF OPlain

LEMMA OLookSerial ==
    ASSUME Types, Serial, NEW p \in OPasses, OLook(p), UNCHANGED <<cpass, editor, purged>>
    PROVE  Serial'
  <1> DEFINE J == opass[p]
  <1>1. PICK j \in OPass : j.pc # "write" /\ OBecome(p, j)
    BY OLookTyped
  <1>2. /\ UNCHANGED <<released, note, recent, ostate>> /\ J.pc = "next" /\ J # OIdle
        /\ J \in OPass
    BY TypesGive DEF OLook, notes, OAt, OIdle
  <1>3. OFresh(J)
    BY DEF Serial, Fresh3
  <1>4. PICK project \in J.todo :
           LET label == Outlook(J.seen[project], Contributing(project), CurrentOverview(project))
           IN IF label = "next"
              THEN OBecome(p, [J EXCEPT !.todo = J.todo \ {project}])
              ELSE OBecome(p, [pc |-> label, todo |-> J.todo \ {project}, seen |-> J.seen,
                               written |-> J.written, project |-> project,
                               comps |-> Contributing(project), prior |-> CurrentOverview(project),
                               stood |-> /\ CurrentOverview(project) # None
                                         /\ note[CurrentOverview(project)].status = "established"])
    BY DEF OLook
  <1>5. project \in Projects
    BY <1>2, <1>4, OJobTyped
  <1> DEFINE comps == Contributing(project)
             prior == CurrentOverview(project)
             label == Outlook(J.seen[project], comps, prior)
             stood == prior # None /\ note[prior].status = "established"
  <1>6. \A x : OBecome(p, x) => x = j
    BY <1>1 DEF OBecome, Types
  <1>7. CASE label = "next"
    <2>1. j = [J EXCEPT !.todo = J.todo \ {project}]
      BY <1>4, <1>6, <1>7
    <2>2. j.pc = "next" /\ j.todo \subseteq J.todo /\ j.seen = J.seen
      BY <1>2, <2>1 DEF OPass
    <2>3. OFresh(j)'
      BY <1>2, <1>3, <2>2 DEF OFresh
    <2>4. QED
      BY <1>1, <1>2, <2>3, OJobSerial
  <1>8. CASE label # "next"
    <2>1. j = [pc |-> label, todo |-> J.todo \ {project}, seen |-> J.seen, written |-> J.written,
               project |-> project, comps |-> comps, prior |-> prior, stood |-> stood]
      BY <1>4, <1>6, <1>8
    <2>2. /\ j.pc = label /\ j.todo = J.todo \ {project} /\ j.seen = J.seen /\ j.project = project
          /\ j.comps = comps /\ j.prior = prior
      BY <2>1
    <2>3. label \in {"abandon", "hold", "call"} /\ (label = "call" => ~HumanHeld(prior))
      BY <1>8 DEF Outlook
    <2>4. /\ \A d \in comps : d \in released /\ d.project = project
          /\ Recorded(project) \subseteq comps
      BY <1>5 DEF Contributing, Serial, Rows, Ledgered
    <2>5. ASSUME label = "call"
          PROVE  Shown(j)
      <3>1. CASE prior = None
        BY <2>2, <3>1, OverviewShows DEF Shown, Serial, Rows
      <3>2. CASE prior # None
        <4>1. LiveArticle(prior, project) /\ prior \in NoteId
          BY <3>2, OverviewShows DEF Serial, Rows
        <4>2. note[prior].source \in {"ai", "human"}
          <5>1. note[prior] \in Note
            BY <4>1, RowOf DEF LiveArticle, Live
          <5>2. QED
            BY <5>1 DEF Note
        <4>3. note[prior].source # "human"
          BY <2>3, <2>5, <3>2 DEF HumanHeld
        <4>4. QED
          BY <2>2, <3>2, <4>1, <4>2, <4>3 DEF Shown
      <3>3. QED
        BY <3>1, <3>2
    <2> HIDE DEF comps, prior, label, stood
    <2>6. OFresh(j)'
      BY <1>2, <1>3, <2>2, <2>3, <2>4, <2>5 DEF OFresh, Shown, Recorded, LiveArticle, Live, Exists
    <2>7. QED
      BY <1>1, <1>2, <2>6, OJobSerial
  <1>9. QED
    BY <1>7, <1>8

LEMMA OAnswerSerial ==
    ASSUME Types, Backward, NEW o, RowsConform(o), Serial, NEW p \in OPasses, OAnswer(p),
           UNCHANGED <<cpass, editor, purged>>
    PROVE  Serial'
  <1> DEFINE J == opass[p]
  <1>1. /\ J \in OPass /\ J.pc = "call" /\ minted + 1 \in NoteId /\ minted' = minted + 1 /\ minted \in Nat
        /\ UNCHANGED <<released, note, recent, ostate>> /\ J # OIdle
    BY OAnswerTyped, TypesGive DEF OAnswer, OIdle
  <1>2. PICK j \in OPass : j.pc = "write" /\ OBecome(p, j)
    BY OAnswerTyped
  <1>3. j = [pc |-> "write", todo |-> J.todo, seen |-> J.seen, written |-> J.written,
             project |-> J.project, comps |-> J.comps, prior |-> J.prior, stood |-> J.stood,
             id |-> minted + 1,
             article |-> Article(J.project, J.comps, J.prior, J.stood, minted + 1)]
    BY <1>2 DEF OAnswer, OBecome, Types
  <1>4. /\ j.pc = "write" /\ j.todo = J.todo /\ j.seen = J.seen /\ j.project = J.project
        /\ j.comps = J.comps /\ j.prior = J.prior /\ j.id = minted + 1
        /\ j.article = Article(J.project, J.comps, J.prior, J.stood, minted + 1)
    BY <1>3
  <1>5. /\ j.article.kind = "article" /\ j.article.project = J.project /\ j.article.source = "ai"
        /\ j.article.status # "superseded" /\ j.article.evidence = J.comps /\ j.article.disputed = {}
        /\ j.article.prev = j.prior
    BY <1>4 DEF Article
  <1>6. NewId(minted + 1)
    BY <1>1, FreshIsNew
  <1>7. OFresh(J)
    BY DEF Serial, Fresh3
  <1>8. OFresh(j)'
    BY SMTT(60), <1>1, <1>4, <1>5, <1>6, <1>7 DEF OFresh, Shown, Recorded, NewId, LiveArticle, Live, Exists
  <1>9. QED
    BY <1>1, <1>2, <1>8, OJobSerial

LEMMA OWriteSerial ==
    ASSUME Types, Serial, NEW p \in OPasses, OWrite(p), UNCHANGED <<cpass, editor, purged>>
    PROVE  Serial'
  <1>0. PICK J : J = opass[p]
    OBVIOUS
  <1> DEFINE id == J.id
             v == J.article
             q == J.project
  <1>1. /\ J \in OPass /\ J.pc = "write" /\ id \in NoteId /\ v \in Note /\ J.prior \in NoteId \cup {None}
        /\ IF J.prior = None THEN UpsertNote(id, v) ELSE SupersedeNote(J.prior, id, v)
        /\ UNCHANGED <<released, minted, ostate>> /\ J # OIdle
    BY <1>0, OWriteTyped DEF OWrite, OIdle
  <1>2. PICK j \in OPass : OBecome(p, j)
    BY OWriteTyped
  <1>3. j = [J EXCEPT !.pc = "mark"]
    BY <1>0, <1>2 DEF OWrite, OGoto, OBecome, Types
  <1>4. /\ j.pc = "mark" /\ j.todo = J.todo /\ j.seen = J.seen /\ j.project = q /\ j.comps = J.comps /\ j.id = id
    BY <1>1, <1>3 DEF OPass
  <1>5. OFresh(J)
    BY <1>0 DEF Serial, Fresh3
  <1>6. /\ NewId(id) /\ v.kind = "article" /\ v.project = q /\ v.source = "ai"
        /\ v.status # "superseded" /\ v.evidence = J.comps /\ v.disputed = {} /\ v.prev = J.prior
        /\ \A d \in J.comps : d \in released /\ d.project = q
        /\ Recorded(q) \subseteq J.comps
        /\ Shown(J)
    BY <1>1, <1>5 DEF OFresh
  <1>7. Cited(v) \subseteq released
    BY <1>6 DEF Cited
  <1>8. UNCHANGED <<released, ostate, purged>> /\ released \subseteq released' /\ Rows
    BY <1>1 DEF Serial
  <1>9. note \in [NoteId -> Note \cup {Absent}]
    BY TypesGive DEF RowsTyped
  <1>q. J.project = q /\ J.id = id /\ J.article = v
    OBVIOUS
  <1> HIDE DEF id, v, q
  <1>10. ASSUME J.prior = None
         PROVE  Rows' /\ note'[id] = v
    <2>1. UpsertNote(id, v) /\ \A n \in NoteId : ~LiveArticle(n, v.project)
      BY <1>1, <1>6, <1>10, <1>q DEF Shown
    <2>2. Rows'
      BY <1>1, <1>6, <1>7, <1>8, <1>10, <2>1, AddRow
    <2>3. QED
      BY <1>1, <1>9, <2>1, <2>2 DEF UpsertNote
  <1>11. ASSUME J.prior # None
         PROVE  Rows' /\ note'[id] = v
    <2>1. /\ SupersedeNote(J.prior, id, v) /\ J.prior \in NoteId /\ LiveArticle(J.prior, q)
          /\ note[J.prior].source = "ai"
      BY <1>1, <1>6, <1>11, <1>q DEF Shown
    <2>2. Live(J.prior) /\ v.kind = note[J.prior].kind /\ v.project = note[J.prior].project
      BY <1>6, <2>1 DEF LiveArticle
    <2>3. Rows'
      BY <1>1, <1>6, <1>7, <1>8, <2>1, <2>2, ReplaceRow
    <2>4. [v EXCEPT !.prev = J.prior] = v
      BY <1>1, <1>6 DEF Note
    <2>5. QED
      BY <1>1, <1>9, <2>1, <2>3, <2>4 DEF SupersedeNote
  <1>12. Rows' /\ note'[id] = v
    BY <1>10, <1>11
  <1>13. LiveArticle(id, q)'
    <2>1. note'[id] # Absent
      BY <1>1, <1>12, AbsentOutside
    <2>2. QED
      BY <1>6, <1>12, <2>1 DEF LiveArticle, Live, Exists
  <1>14. OFresh(j)'
    <2>1. \A x : Recorded(x)' = Recorded(x)
      BY <1>8 DEF Recorded
    <2>2. j.pc = "mark" => LiveArticle(j.id, j.project)' /\ note'[j.id].source = "ai" /\ note'[j.id].evidence = j.comps
      BY <1>4, <1>6, <1>12, <1>13
    <2>3. \A x \in j.todo : j.seen[x] = ostate'[x]
      BY <1>1, <1>4, <1>5, <1>8 DEF OFresh
    <2>4. /\ j.project \notin j.todo
          /\ \A d \in j.comps : d \in released' /\ d.project = j.project
          /\ Recorded(j.project)' \subseteq j.comps
      <3>1. j.project \notin j.todo
        BY <1>1, <1>4, <1>5, <1>q DEF OFresh
      <3>2. Recorded(j.project)' \subseteq j.comps
        BY <1>4, <1>6, <1>8 DEF Recorded
      <3>3. QED
        BY <1>4, <1>6, <1>8, <3>1, <3>2
    <2>5. QED
      BY <1>4, <2>2, <2>3, <2>4 DEF OFresh
  <1>15. QED
    BY <1>1, <1>2, <1>12, <1>14, <1>0, OSteps1 DEF Serial

-----------------------------------------------------------------------------
\* The invariant

LEMMA SerialInit == Types /\ Init => Serial
  <1> SUFFICES ASSUME Types, Init
               PROVE  Serial
    OBVIOUS
  <1>1. /\ released = {} /\ note = [n \in NoteId |-> Absent] /\ recent = <<>>
        /\ ostate = [q \in Projects |-> NoOState]
        /\ \A p \in CPasses : cpass[p] = CIdle
        /\ \A p \in OPasses : opass[p] = OIdle
        /\ \A e \in Editors : editor[e] = EIdle
    BY DEF Init, NotesInit, ConsolidationInit, OverviewInit
  <1>2. \A n \in NoteId : ~Exists(n)
    BY <1>1 DEF Exists
  <1>3. Stamps
    BY <1>1, <1>2 DEF Stamps, StampedIds
  <1>4. \A q \in Projects : Recorded(q) = {} /\ ostate[q].state # "done"
    BY <1>1 DEF Recorded, NoOState
  <1>5. Grounded /\ Chain /\ OneArticle /\ HumanStays /\ Drawn /\ Ledgered
    BY <1>2, <1>4 DEF Grounded, Chain, OneArticle, HumanStays, Drawn, Ledgered, LiveArticle, HumanArticle, Live
  <1>6. Solo
    BY <1>1 DEF Solo, CIdles, OIdles, EIdles
  <1>7. Fresh3
    BY <1>1, IdlesFresh DEF Fresh3
  <1>8. QED
    BY <1>3, <1>5, <1>6, <1>7 DEF Serial, Rows

LEMMA StartsSerial ==
    ASSUME Types, Exclusive, Serial,
           \/ \E p \in CPasses : StartConsolidation(p)
           \/ \E p \in OPasses : StartOverview(p)
    PROVE  Serial'
  <1>1. ASSUME NEW p \in CPasses, StartConsolidation(p)
        PROVE  Serial'
    <2>1. Quiet /\ CPlain(p) /\ UNCHANGED <<ostate, opass, editor, purged>>
      BY <1>1 DEF StartConsolidation, Request, MayStart, CPlain, ovars, history
    <2>2. QED
      BY <2>1, CPlainSerial
  <1>2. ASSUME NEW p \in OPasses, StartOverview(p)
        PROVE  Serial'
    <2>1. Quiet /\ OPlain(p) /\ UNCHANGED <<cpass, editor, purged>>
      BY <1>2 DEF StartOverview, Request, MayStart, OPlain, cvars, history
    <2>2. QED
      BY <2>1, OPlainSerial
  <1>3. QED
    BY <1>1, <1>2

LEMMA PassesSerial ==
    ASSUME Types, Backward, NEW o, RowsConform(o), Serial,
           \/ \E p \in CPasses : Consolidates(p)
           \/ \E p \in OPasses : Overviews(p)
    PROVE  Serial'
  <1>1. ASSUME NEW p \in CPasses, Consolidates(p)
        PROVE  Serial'
    <2>1. Consolidating(p) /\ UNCHANGED <<ostate, opass, editor, purged>>
      BY <1>1 DEF Consolidates, ovars, history
    <2>2. CASE CPlain(p)
      <3>1. ~CBegin(p)
        BY <2>1 DEF Consolidating, CBegin, CEnd, CTake, CAbandon, CRetrieve, CQuota, CCallFails,
                    CRecordFailure, CAnswer, CUpsert, CSupersede, CMark, CAt
      <3>2. QED
        BY <2>1, <2>2, <3>1, CPlainSerial
    <2>3. CASE CRetrieve(p) \/ CAnswer(p) \/ CUpsert(p) \/ CSupersede(p)
      BY <2>1, <2>3, CRetrieveSerial, CAnswerSerial, CUpsertSerial, CSupersedeSerial
    <2>4. QED
      BY <2>1, <2>2, <2>3 DEF Consolidating, CPlain
  <1>2. ASSUME NEW p \in OPasses, Overviews(p)
        PROVE  Serial'
    <2>1. Overviewing(p) /\ UNCHANGED <<cpass, editor, purged>>
      BY <1>2 DEF Overviews, cvars, history
    <2>2. CASE OPlain(p)
      <3>1. ~OBegin(p)
        BY <2>1 DEF Overviewing, OBegin, OEnd, OLook, OAbandon, OHold, OQuota, OCallFails, OTooThin,
                    ORecordFailure, OSettle, OAnswer, OWrite, OMark, OAt
      <3>2. QED
        BY <2>1, <2>2, <3>1, OPlainSerial
    <2>3. CASE OLook(p) \/ OAnswer(p) \/ OWrite(p)
      BY <2>1, <2>3, OLookSerial, OAnswerSerial, OWriteSerial
    <2>4. QED
      BY <2>1, <2>2, <2>3 DEF Overviewing, OPlain
  <1>3. QED
    BY <1>1, <1>2

LEMMA CrashSerial ==
    ASSUME Types, Serial, Crash
    PROVE  Serial'
  <1>1. CASE \E p \in CPasses : CCrash(p) /\ UNCHANGED <<ovars, editor>>
    <2>1. PICK p \in CPasses : CPlain(p) /\ ~CBegin(p) /\ UNCHANGED <<ostate, opass, editor>>
      BY <1>1 DEF CPlain, CCrash, CBegin, ovars
    <2>2. QED
      BY <2>1, CPlainSerial DEF Crash, history
  <1>2. CASE \E p \in OPasses : OCrash(p) /\ UNCHANGED <<cvars, editor>>
    <2>1. PICK p \in OPasses : OPlain(p) /\ ~OBegin(p) /\ UNCHANGED <<cpass, editor>>
      BY <1>2 DEF OPlain, OCrash, OBegin, cvars
    <2>2. QED
      BY <2>1, OPlainSerial DEF Crash, history
  <1>3. CASE \E e \in Editors : /\ editor[e] # EIdle /\ Serve(e, EIdle)
                                /\ UNCHANGED <<released, notes, cvars, ovars>>
    <2>1. UNCHANGED history
      BY DEF Crash
    <2>2. QED
      BY <1>3, <2>1, LetGoSerial
  <1>4. QED
    BY <1>1, <1>2, <1>3 DEF Crash

LEMMA EditingSerial ==
    ASSUME Types, Exclusive, Careful, TargetsExist, Backward, NEW o, RowsConform(o), Serial,
           NEW e \in Editors, Editing(e)
    PROVE  Serial'
  <1>1. CASE \E kind \in {"claim", "article"}, project \in Projects : Create(e, kind, project)
    BY <1>1, CreateSerial
  <1>2. CASE \E n \in NoteId : EditNote(e, n) \/ ConfirmNote(e, n)
    <2>1. PICK n \in NoteId, pc \in {"edit", "confirm"} : Reads(e, n, pc, None)
      BY <1>2 DEF EditNote, ConfirmNote
    <2>2. None \in NoteId \cup {None}
      OBVIOUS
    <2>3. QED
      BY <2>1, <2>2, ReadsSerial
  <1>3. CASE \E n \in NoteId, target \in NoteId : RevertNote(e, n, target)
    <2>1. PICK n \in NoteId, target \in NoteId :
             target \in History(n) /\ Reads(e, n, "edit", note[target].text)
      BY <1>3 DEF RevertNote
    <2>2. note[target].text \in NoteId \cup {None}
      <3>1. Exists(target)
        BY <2>1 DEF TargetsExist
      <3>2. note[target] \in Note
        BY <3>1, RowOf
      <3>3. QED
        BY <3>2 DEF Note
    <2>3. QED
      BY <2>1, <2>2, ReadsSerial
  <1>4. CASE WriteVersion(e) \/ WriteConfirmation(e)
    BY <1>4, WriteVersionSerial, WriteConfirmationSerial
  <1>5. CASE VersionGone(e)
    <2>1. editor[e] # EIdle /\ Serve(e, EIdle) /\ UNCHANGED <<released, notes, cvars, ovars, history>>
      BY <1>5 DEF VersionGone, EIdle
    <2>2. QED
      BY <2>1, LetGoSerial
  <1>6. QED
    BY <1>1, <1>2, <1>3, <1>4, <1>5 DEF Editing

LEMMA SerialStep ==
    ASSUME Exclusive, Careful, Types, TargetsExist, Backward, NEW o, RowsConform(o), Serial, [Next]_vars
    PROVE  Serial'
  <1>1. CASE UNCHANGED vars
    <2>1. UNCHANGED <<released, note, recent, minted, cpass, ostate, opass, editor, purged>>
      BY <1>1 DEF vars, notes, cvars, ovars, history
    <2>2. Rows'
      BY <2>1, RowsStill DEF Serial
    <2>3. Solo'
      BY <2>1 DEF Serial, Solo, CIdles, OIdles, EIdles
    <2>4. Fresh3'
      <3>1. \A e \in Editors : EFresh(editor[e])'
        BY <2>1 DEF Serial, Fresh3, EFresh, Live, Exists
      <3>2. \A p \in CPasses : CFresh(cpass[p])'
        BY <2>1 DEF Serial, Fresh3, CFresh, Renews, Replaces, NewId, Live, Exists
      <3>3. \A p \in OPasses : OFresh(opass[p])'
        BY <2>1 DEF Serial, Fresh3, OFresh, Shown, Recorded, NewId, LiveArticle, Live, Exists
      <3>4. QED
        BY <3>1, <3>2, <3>3 DEF Fresh3
    <2>5. QED
      BY <2>2, <2>3, <2>4 DEF Serial
  <1>2. CASE Next
    <2>1. CASE \E d \in Digest : Arrive(d)
      BY <2>1, ArriveSerial
    <2>2. CASE \E S \in SUBSET released : Purge(S)
      BY <2>2, PurgeSerial
    <2>3. CASE \E e \in Editors : Editing(e)
      BY <2>3, EditingSerial
    <2>4. CASE \/ \E p \in CPasses : StartConsolidation(p)
               \/ \E p \in OPasses : StartOverview(p)
      BY <2>4, StartsSerial
    <2>5. CASE \/ \E p \in CPasses : Consolidates(p)
               \/ \E p \in OPasses : Overviews(p)
      BY <2>5, PassesSerial
    <2>6. CASE \E project \in Projects : RetryOverview(project)
      BY <2>6, RetrySerial
    <2>7. CASE Crash
      BY <2>7, CrashSerial
    <2>8. QED
      BY <1>2, <2>1, <2>2, <2>3, <2>4, <2>5, <2>6, <2>7 DEF Next
  <1>3. QED
    BY <1>1, <1>2

SInv == IInv /\ Serial

LEMMA SerialInvariant ==
    ASSUME Exclusive, Careful
    PROVE  Spec => []SInv
  <1>1. Init => SInv
    BY IInvInit, SerialInit DEF SInv, IInv
  <1>2. SInv /\ [Next]_vars => SInv'
    <2>1. SUFFICES ASSUME SInv, [Next]_vars
                   PROVE  SInv'
      OBVIOUS
    <2>2. IInv'
      BY <2>1, IInvStep DEF SInv
    <2>3. PICK o : Conform(o)
      BY <2>1 DEF SInv, IInv
    <2>4. Types /\ Serial /\ RowsConform(o)
      BY <2>1, <2>3 DEF SInv, IInv, Conform
    <2>5. TargetsExist /\ Backward
      BY <2>1, IInvTargets DEF SInv
    <2>6. Serial'
      BY <2>1, <2>4, <2>5, SerialStep
    <2>7. QED
      BY <2>2, <2>6 DEF SInv
  <1>3. QED
    BY <1>1, <1>2, PTL DEF Spec

-----------------------------------------------------------------------------
\* Histories do not meet

\* A version that is not the first of a history has its successor in it.
LEMMA Successor ==
    ASSUME RowsTyped, Backward, NEW a \in NoteId, NEW t \in History(a), t # a
    PROVE  \E s \in History(a) : s \in NoteId /\ Exists(s) /\ note[s].prev = t
  <1> DEFINE Bad == {n \in NoteId : \E x \in History(n) :
                        x # n /\ ~(\E s \in History(n) : s \in NoteId /\ Exists(s) /\ note[s].prev = x)}
  <1>1. SUFFICES ASSUME Bad # {}
                 PROVE  FALSE
    OBVIOUS
  <1>2. Bad \in SUBSET Nat
    BY DEF NoteId
  <1>3. PICK n \in Bad : \A m \in Bad : n <= m
    <2> HIDE DEF Bad
    <2>1. QED
      BY <1>1, <1>2, Least
  <1>4. PICK x \in History(n) :
           x # n /\ ~(\E s \in History(n) : s \in NoteId /\ Exists(s) /\ note[s].prev = x)
    OBVIOUS
  <1>5. n \in NoteId /\ n \in Nat
    BY <1>2
  <1>6. History(n) = IF n = None THEN {} ELSE IF ~Exists(n) THEN {} ELSE {n} \cup History(note[n].prev)
    BY <1>5, HistoryUnfolds
  <1>7. Exists(n) /\ History(n) = {n} \cup History(note[n].prev) /\ x \in History(note[n].prev)
    BY <1>4, <1>6
  <1>8. note[n].prev < n /\ note[n].prev \in NoteId \cup {None}
    BY <1>5, <1>7 DEF Backward, RowsTyped, Exists, Note
  <1>9. note[n].prev # None
    <2>1. History(None) = {}
      BY HistoryUnfolds
    <2>2. QED
      BY <1>7, <2>1
  <1>10. note[n].prev \in NoteId /\ note[n].prev \in Nat
    BY <1>8, <1>9 DEF NoteId
  <1>11. CASE x = note[n].prev
    BY <1>4, <1>5, <1>7, <1>11
  <1>12. CASE x # note[n].prev
    <2>1. note[n].prev \notin Bad
      <3>1. ~(n <= note[n].prev)
        BY <1>5, <1>8, <1>10
      <3> HIDE DEF Bad
      <3>2. QED
        BY <1>3, <3>1
    <2>2. PICK s \in History(note[n].prev) : s \in NoteId /\ Exists(s) /\ note[s].prev = x
      BY <1>7, <1>10, <1>12, <2>1
    <2>3. QED
      BY <1>4, <1>7, <2>2
  <1>13. QED
    BY <1>11, <1>12

LEMMA ChainsApart ==
    ASSUME RowsTyped, Backward, Chain
    PROVE  OneLive
  <1>1. SUFFICES ASSUME NEW a \in NoteId, NEW b \in NoteId, Live(a), Live(b),
                        History(a) \cap History(b) # {}
                 PROVE  a = b
    BY DEF OneLive
  <1> DEFINE C == History(a) \cap History(b)
  <1>2. \A t \in C : t \in NoteId /\ Exists(t)
    BY HistoryExists
  <1>3. PICK c \in C : \A t \in C : t <= c
    <2>1. C \in SUBSET (0 .. MaxNotes)
      BY <1>2 DEF NoteId
    <2> HIDE DEF C
    <2>2. C # {}
      BY <1>1 DEF C
    <2>3. QED
      BY <2>1, <2>2, Greatest, NotesAssumption
  <1>4. c \in NoteId /\ Exists(c) /\ c # None
    BY <1>2, NoneOutside
  <1>5. ASSUME NEW s \in NoteId, Exists(s), note[s].prev = c
        PROVE  s \notin C /\ ~Live(c)
    <2>1. c < s /\ s \in Nat /\ c \in Nat
      BY <1>4, <1>5 DEF Backward, NoteId
    <2>2. ~(s <= c)
      BY <2>1
    <2>3. s \notin C
      BY <1>3, <2>2
    <2>4. ~Live(c)
      BY <1>4, <1>5 DEF Chain
    <2>5. QED
      BY <2>3, <2>4
  <1>6. ASSUME c # a, c # b
        PROVE  FALSE
    <2>1. PICK s \in History(a) : s \in NoteId /\ Exists(s) /\ note[s].prev = c
      BY <1>6, Successor
    <2>2. PICK t \in History(b) : t \in NoteId /\ Exists(t) /\ note[t].prev = c
      BY <1>6, Successor
    <2>3. s = t
      BY <1>4, <2>1, <2>2 DEF Chain
    <2>4. QED
      BY <1>5, <2>1, <2>2, <2>3
  <1>7. ASSUME NEW x \in {a, b}, c # x
        PROVE  ~Live(c)
    <2>1. PICK s \in History(x) : s \in NoteId /\ Exists(s) /\ note[s].prev = c
      BY <1>7, Successor
    <2>2. QED
      BY <1>5, <2>1
  <1>8. QED
    BY <1>1, <1>6, <1>7

-----------------------------------------------------------------------------
\* The theorems

\* While requests and passes run one at a time and people act on live versions, one claim
\* has one live version and every session a note cites is there, whatever the model
\* answers, whoever edits, and wherever a thread is killed (supersede_note; the support
\* and refine branches of apply_verdicts; delete_compactions).
THEOREM OneAccount ==
    ASSUME Exclusive, Careful
    PROVE  Spec => []NotesSound
  <1>1. SInv => NotesSound
    <2>1. SUFFICES ASSUME SInv
                   PROVE  NotesSound
      OBVIOUS
    <2>2. RowsTyped /\ Backward /\ Chain /\ Grounded
      BY <2>1, IInvTargets, TypesGive DEF SInv, IInv, Serial, Rows
    <2>3. QED
      BY <2>2, ChainsApart DEF NotesSound
  <1>2. QED
    BY <1>1, SerialInvariant, PTL

\* A person's description of a project is what its page shows from then on: the overview
\* pass never supersedes it, and the article stamped last is the only live one
\* (refresh_overview returns `human_held' before the call).
THEOREM PersonsArticleShown ==
    ASSUME Exclusive, Careful
    PROVE  Spec => []HumanArticleWins
  <1>1. SInv => HumanArticleWins
    <2>1. SUFFICES ASSUME SInv, NEW n \in NoteId, Exists(n), note[n].kind = "article", note[n].source = "human"
                   PROVE  note[CurrentOverview(note[n].project)].source = "human"
      BY DEF HumanArticleWins
    <2>2. Types /\ Stamps /\ OneArticle /\ HumanStays
      BY <2>1 DEF SInv, IInv, Serial, Rows
    <2>3. PICK q \in Projects : q = note[n].project
      BY <2>1, <2>2, RowOf
    <2>4. PICK m \in NoteId : LiveArticle(m, q) /\ note[m].source = "human"
      BY <2>1, <2>2, <2>3 DEF HumanStays, HumanArticle
    <2>5. LiveArticle(CurrentOverview(q), q) /\ CurrentOverview(q) \in NoteId
      BY <2>2, <2>4, OverviewShows
    <2>6. CurrentOverview(q) = m
      BY <2>2, <2>4, <2>5 DEF OneArticle
    <2>7. QED
      BY <2>3, <2>4, <2>6
  <1>2. QED
    BY <1>1, SerialInvariant, PTL

\* A project marked done has an article on its page, and what a model wrote there draws on
\* every session the mark names that no purge has taken since (refresh_overview:
\* mark_overview_done follows the write, with the hash of the sessions it was given).
THEOREM MarkNamesArticle ==
    ASSUME Exclusive, Careful
    PROVE  Spec => []ArticleCurrent
  <1>1. SInv => ArticleCurrent
    <2>1. SUFFICES ASSUME SInv, NEW q \in Projects, ostate[q].state = "done"
                   PROVE  LET n == CurrentOverview(q)
                          IN /\ n # None
                             /\ note[n].source = "ai" => ostate[q].contributors \ purged \subseteq note[n].evidence
      BY DEF ArticleCurrent
    <2>2. Types /\ Stamps /\ Drawn
      BY <2>1 DEF SInv, IInv, Serial, Rows
    <2>3. CurrentOverview(q) # None /\ LiveArticle(CurrentOverview(q), q) /\ CurrentOverview(q) \in NoteId
      BY <2>1, <2>2, OverviewShows DEF Drawn
    <2>4. QED
      BY <2>1, <2>2, <2>3 DEF Drawn, Recorded
  <1>2. QED
    BY <1>1, SerialInvariant, PTL

\* The overview pass goes on to write an article only of a project whose page says one is
\* coming: it decides from the state rows it read when it started, and while no request
\* runs beside it those are the stored ones (article_outlook and refresh_overview).
THEOREM OutlookKept ==
    ASSUME Exclusive, Careful
    PROVE  Spec => OutlookHonest
  <1> DEFINE A == \A p \in OPasses : OAt(p, "next") /\ opass'[p].pc = "call"
                     => ArticleOutlook(opass'[p].project) = "coming"
  <1>1. SInv /\ [Next]_vars => [A]_vars
    <2>1. SUFFICES ASSUME SInv, Next, NEW p \in OPasses, OAt(p, "next"), opass'[p].pc = "call"
                   PROVE  ArticleOutlook(opass'[p].project) = "coming"
      OBVIOUS
    <2>2. Types /\ TargetsExist /\ OFresh(opass[p]) /\ opass[p].pc = "next"
      BY <2>1, IInvTargets DEF SInv, IInv, Serial, Fresh3, OAt
    <2>3. OLook(p)
      <3>1. opass' # opass
        BY <2>1, <2>2
      <3>2. PICK q \in OPasses : OPlain(q) \/ OLook(q) \/ OAnswer(q) \/ OWrite(q)
        <4>1. \/ Creating \/ Reading \/ LettingGo \/ Retrying
              \/ CSteps(CPlain) \/ CSteps(CRetrieve) \/ CSteps(CAnswer) \/ CSteps(CWrite)
              => UNCHANGED opass
          BY DEF Creating, Create, Reading, Reads, LettingGo, Retrying, CSteps, ovars
        <4>2. /\ \A d \in Digest : Arrive(d) => UNCHANGED opass
              /\ \A S \in SUBSET released : Purge(S) => UNCHANGED opass
              /\ \A e \in Editors : WriteVersion(e) \/ WriteConfirmation(e) => UNCHANGED opass
          BY DEF Arrive, Purge, WriteVersion, WriteConfirmation, ovars
        <4>3. OSteps(OPlain) \/ OSteps(OLook) \/ OSteps(OAnswer) \/ OSteps(OWrite)
          BY <2>1, <2>2, <3>1, <4>1, <4>2, NextSplits
        <4>4. QED
          BY <4>3 DEF OSteps
      <3>3. q = p
        <4>1. \E x : OBecome(q, x)
          BY <3>2 DEF OPlain, OBegin, OEnd, OLook, OAbandon, OHold, OQuota, OCallFails, OTooThin,
                      ORecordFailure, OSettle, OAnswer, OWrite, OMark, OCrash, OGoto, OLoops
        <4>2. q # p => opass'[p] = opass[p]
          BY <2>2, <4>1 DEF OBecome, Types
        <4>3. QED
          BY <2>1, <2>2, <4>2
      <3>4. ~OPlain(p)
        <4>1. SUFFICES ASSUME OPlain(p)
                       PROVE  FALSE
          OBVIOUS
        <4>2. PICK j \in OPass \cup {OIdle} : j.pc \notin {"call", "write"} /\ OBecome(p, j)
          BY <2>2, <4>1, OPlainTyped
        <4>3. opass'[p] = j
          BY <2>2, <4>2, OBecomeTyped DEF Types
        <4>4. QED
          BY <2>1, <4>2, <4>3
      <3>5. QED
        BY <2>2, <3>2, <3>3, <3>4 DEF OAnswer, OWrite, OAt
    <2>4. PICK q \in opass[p].todo :
             LET comps == Contributing(q)
                 label == Outlook(opass[p].seen[q], comps, CurrentOverview(q))
             IN /\ opass'[p].pc = IF label = "next" THEN "next" ELSE label
                /\ label # "next" => opass'[p].project = q
      <3>1. PICK q \in opass[p].todo : \E x :
               LET label == Outlook(opass[p].seen[q], Contributing(q), CurrentOverview(q))
               IN /\ OBecome(p, x)
                  /\ IF label = "next" THEN x = [opass[p] EXCEPT !.todo = opass[p].todo \ {q}]
                     ELSE x.pc = label /\ x.project = q
        BY <2>3 DEF OLook
      <3> DEFINE label == Outlook(opass[p].seen[q], Contributing(q), CurrentOverview(q))
      <3>2. PICK x : /\ OBecome(p, x)
                     /\ IF label = "next" THEN x = [opass[p] EXCEPT !.todo = opass[p].todo \ {q}]
                        ELSE x.pc = label /\ x.project = q
        BY <3>1
      <3>3. opass'[p] = x
        BY <2>2, <3>2 DEF OBecome, Types
      <3>4. [opass[p] EXCEPT !.todo = opass[p].todo \ {q}].pc = "next"
        BY <2>2 DEF OFresh, OPass
      <3>5. QED
        BY <3>2, <3>3, <3>4
    <2>5. PICK comps : comps = Contributing(q)
      OBVIOUS
    <2>6. /\ Outlook(ostate[q], comps, CurrentOverview(q)) = "call"
          /\ opass'[p].project = q
      BY <2>1, <2>2, <2>4, <2>5 DEF OFresh
    <2>7. /\ ~(Cardinality(comps) < MinSessions) /\ ostate[q].state # "abandoned"
          /\ ~Unchanged(ostate[q], comps)
          /\ ~(ostate[q].state = "failed" /\ ostate[q].attempts >= OMaxAttempts)
      BY <2>6 DEF Outlook
    <2>8. ArticleOutlook(q) = "coming"
      BY <2>5, <2>7 DEF ArticleOutlook, Unchanged, Settled
    <2>9. QED
      BY <2>6, <2>8
  <1>2. QED
    BY <1>1, SerialInvariant, PTL DEF Spec, OutlookHonest

=============================================================================
