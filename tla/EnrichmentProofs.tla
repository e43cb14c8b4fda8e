-------------------------- MODULE EnrichmentProofs --------------------------
(***************************************************************************)
(* Theorems about the server's half of a digest's life, for any set of     *)
(* orgs, digests and threads and any bounds.  As long as requests and      *)
(* passes do not overlap (they may die at any step, where nothing else is  *)
(* said): the inductive invariant SerialInv says that what a thread holds  *)
(* in memory still agrees with the tables.  Under every interleaving: the  *)
(* types, and the number of attempts a digest costs (CountInv).            *)
(***************************************************************************)
EXTENDS Enrichment, Integers, FiniteSetTheorems, TLAPS

USE ServerAssumption

-----------------------------------------------------------------------------
\* The inductive invariant

Reading == {"abandon", "input", "wait", "call", "failed", "save"}
Written == {"clear", "mint"}

Looping == [pc : {"next"}, orgs : SUBSET Orgs, budget : Int, todo : SUBSET Listed]
Working == [pc : Reading \cup Written,
            orgs : SUBSET Orgs, budget : Int, todo : SUBSET Listed, cur : Listed]
PassJob == {PassIdle} \cup Looping \cup Working
RequestJob == {RequestIdle} \cup Request

Types ==
    /\ agent \in [Digest -> [turns : Nat, summary : BOOLEAN]]
    /\ row \in [Digest -> Row]
    /\ progress \in [Digest -> Progress]
    /\ note \in SUBSET Digest
    /\ pass \in [Passes -> PassJob]
    /\ request \in [Handlers -> RequestJob]

\* At most one thread is in a pass or a request.
Alone ==
    /\ \A p \in Passes : pass[p] # PassIdle =>
          /\ \A q \in Passes : q # p => pass[q] = PassIdle
          /\ \A h \in Handlers : request[h] = RequestIdle
    /\ \A h, g \in Handlers : request[h] # RequestIdle /\ g # h => request[g] = RequestIdle

\* The digests a pass has still to handle are as it listed them.
TodoOK(j) == \A c \in j.todo : Present(c.id) /\ c.row = row[c.id]
CurOK(j) ==
    /\ Present(j.cur.id)
    /\ j.pc \in Reading => j.cur.row = row[j.cur.id]
    /\ \A c \in j.todo : c.id # j.cur.id
PassOK(j) == /\ j \in Looping => TodoOK(j)
             /\ j \in Working => TodoOK(j) /\ CurOK(j)

\* An ingest holds the stored row, and brings at least as many turns.
RequestOK(r) ==
    r.pc = "merge" =>
        /\ r.read = row[r.id]
        /\ r.push.source = "pending"
        /\ r.read.turns <= r.push.turns /\ r.push.turns <= agent[r.id].turns

NotAhead == \A d \in Digest : row[d].turns <= agent[d].turns

SerialInv ==
    /\ Types /\ Alone
    /\ \A p \in Passes : PassOK(pass[p])
    /\ \A h \in Handlers : RequestOK(request[h])
    /\ NotAhead /\ NoGhost /\ QuoteHasSession

-----------------------------------------------------------------------------
\* What the updates do

LEMMA RowFacts ==
    /\ NoRow \in Row /\ NoProgress \in Progress
    /\ PassIdle \notin Looping \cup Working
    /\ \A d \in Digest : Org(d) \in Orgs
  BY DEF NoRow, Row, NoProgress, Progress, PassIdle, Looping, Working, Reading, Written, Digest, Org

LEMMA InitSerial == Init => SerialInv
  <1> SUFFICES ASSUME Init
               PROVE  SerialInv
    OBVIOUS
  <1>1. Types
    BY RowFacts DEF Init, Types, PassJob, RequestJob
  <1>2. Alone /\ NotAhead /\ NoGhost /\ QuoteHasSession
    BY DEF Init, Alone, NotAhead, NoRow, NoGhost, QuoteHasSession
  <1>3. \A p \in Passes : PassOK(pass[p])
    BY RowFacts DEF Init, PassOK
  <1>4. \A h \in Handlers : RequestOK(request[h])
    BY DEF Init, RequestOK, RequestIdle
  <1>5. QED
    BY <1>1, <1>2, <1>3, <1>4 DEF SerialInv

LEMMA ForgetAt ==
    ASSUME Types, NEW S, Forget(S)
    PROVE  /\ progress' \in [Digest -> Progress]
           /\ \A d \in Digest : progress'[d] = IF d \in S THEN NoProgress ELSE progress[d]
  BY RowFacts DEF Types, Forget

LEMMA SetProgressAt ==
    ASSUME Types, NEW d \in Digest,
           NEW st \in {"none", "waiting", "failed", "abandoned"}, NEW a \in Nat, NEW o \in BOOLEAN,
           SetProgress(d, st, a, o)
    PROVE  /\ progress' \in [Digest -> Progress]
           /\ \A e \in Digest : e # d => progress'[e] = progress[e]
  BY DEF Types, SetProgress, Progress

\* A step of one pass: it may bring a digest in hand up to date, and must leave its
\* own job in agreement with the tables.
LEMMA PassStep ==
    ASSUME SerialInv, NEW p \in Passes, pass[p] # PassIdle \/ Quiet,
           NEW j \in PassJob, Become(p, j), PassOK(j)',
           row' \in [Digest -> Row], NotAhead', NoGhost', QuoteHasSession',
           note' \in SUBSET Digest, progress' \in [Digest -> Progress],
           request' = request, agent' = agent
    PROVE  SerialInv'
  <1>1. Types'
    BY DEF SerialInv, Types, Become
  <1>2. /\ \A q \in Passes : q # p => pass'[q] = PassIdle
        /\ \A h \in Handlers : request'[h] = RequestIdle
        /\ pass'[p] = j
    BY DEF SerialInv, Types, Alone, Quiet, Become
  <1>3. Alone'
    BY <1>2 DEF Alone
  <1>4. \A q \in Passes : PassOK(pass[q])'
    BY <1>2, RowFacts DEF PassOK
  <1>5. \A h \in Handlers : RequestOK(request[h])'
    BY <1>2 DEF RequestOK, RequestIdle
  <1>6. QED
    BY <1>1, <1>3, <1>4, <1>5 DEF SerialInv

\* The same for a request.
LEMMA RequestStep ==
    ASSUME SerialInv, NEW h \in Handlers, request[h] # RequestIdle \/ Quiet,
           NEW r \in RequestJob, Serve(h, r), RequestOK(r)',
           row' \in [Digest -> Row], NotAhead', NoGhost', QuoteHasSession',
           note' \in SUBSET Digest, progress' \in [Digest -> Progress],
           pass' = pass, agent' = agent
    PROVE  SerialInv'
  <1>1. Types'
    BY DEF SerialInv, Types, Serve
  <1>2. /\ \A g \in Handlers : g # h => request'[g] = RequestIdle
        /\ \A p \in Passes : pass'[p] = PassIdle
        /\ request'[h] = r
    BY DEF SerialInv, Types, Alone, Quiet, Serve
  <1>3. Alone'
    BY <1>2 DEF Alone
  <1>4. \A p \in Passes : PassOK(pass[p])'
    BY <1>2, RowFacts DEF PassOK
  <1>5. \A g \in Handlers : RequestOK(request[g])'
    BY <1>2 DEF RequestOK, RequestIdle
  <1>6. QED
    BY <1>1, <1>3, <1>4, <1>5 DEF SerialInv

\* Requests arrive, and passes begin, in quiet only.
LEMMA ArrivesQuiet ==
    ASSUME Exclusive, NEW h \in Handlers, Arrives(h)
    PROVE  Quiet
  BY DEF Arrives

-----------------------------------------------------------------------------
\* Steps of a pass

\* What a step must leave true of the tables.
TablesOK == /\ row \in [Digest -> Row] /\ progress \in [Digest -> Progress]
            /\ note \in SUBSET Digest
            /\ NotAhead /\ NoGhost /\ QuoteHasSession

LEMMA SameTables ==
    ASSUME SerialInv, UNCHANGED tables, agent' = agent
    PROVE  TablesOK'
  BY DEF SerialInv, Types, TablesOK, tables, NotAhead, NoGhost, QuoteHasSession, Present

LEMMA JobAt ==
    ASSUME SerialInv, NEW p \in Passes, pass[p].pc # "idle"
    PROVE  /\ pass[p] # PassIdle
           /\ pass[p].pc = "next" => pass[p] \in Looping /\ TodoOK(pass[p])
           /\ pass[p].pc # "next" => /\ pass[p] \in Working /\ TodoOK(pass[p]) /\ CurOK(pass[p])
                                     /\ Cur(p) \in Digest /\ Present(Cur(p))
  <1>1. pass[p] \in PassJob /\ pass[p] # PassIdle /\ PassOK(pass[p])
    BY DEF SerialInv, Types, PassIdle
  <1>2. pass[p].pc = "next" => pass[p] \in Looping
    BY <1>1 DEF PassJob, Looping, Working, Reading, Written
  <1>3. pass[p].pc # "next" => pass[p] \in Working
    BY <1>1 DEF PassJob, Looping, Working
  <1>4. pass[p] \in Working => Cur(p) \in Digest
    BY DEF Working, Listed, Cur
  <1>5. QED
    BY <1>1, <1>2, <1>3, <1>4 DEF PassOK, CurOK, Cur

\* The pass goes on with a list that agrees with the tables.
LEMMA LoopsStep ==
    ASSUME SerialInv, NEW p \in Passes, pass[p] # PassIdle \/ Quiet,
           NEW orgs \in SUBSET Orgs, NEW budget \in Int, NEW todo \in SUBSET Listed,
           Become(p, Loops(orgs, budget, todo)),
           \A c \in todo : row'[c.id] = c.row /\ c.row # NoRow,
           TablesOK', request' = request, agent' = agent
    PROVE  SerialInv'
  <1>1. PICK j : j = Loops(orgs, budget, todo)
    OBVIOUS
  <1>2. j \in Looping /\ j.todo = todo
    BY <1>1 DEF Loops, Looping
  <1>3. j \in PassJob /\ Become(p, j)
    BY <1>1, <1>2 DEF PassJob
  <1>4. j \notin Working
    BY <1>1 DEF Loops, Working, Reading, Written
  <1>5. PassOK(j)'
    BY <1>2, <1>4 DEF PassOK, TodoOK, Present
  <1>6. QED
    BY <1>3, <1>5, PassStep DEF TablesOK

\* The digest in hand is done with: whatever happened to its row, the rest of the list
\* is as it was.
LEMMA ProceedStep ==
    ASSUME SerialInv, NEW p \in Passes, pass[p] \in Working, NEW n \in Nat, Proceed(p, n),
           \A d \in Digest : d # Cur(p) => row'[d] = row[d],
           TablesOK', request' = request, agent' = agent
    PROVE  SerialInv'
  <1>1. pass[p].pc # "idle" /\ pass[p].pc # "next"
    BY DEF Working, Reading, Written
  <1>2. PICK todo : todo = pass[p].todo
    OBVIOUS
  <1>3. /\ pass[p].orgs \in SUBSET Orgs /\ pass[p].budget - n \in Int
        /\ todo \in SUBSET Listed
    BY <1>2 DEF Working
  <1>4. \A c \in todo : c.id # Cur(p) /\ c.id \in Digest /\ row[c.id] = c.row /\ c.row # NoRow
    BY <1>1, <1>2, <1>3, JobAt DEF TodoOK, CurOK, Cur, Present, Listed
  <1>5. Become(p, Loops(pass[p].orgs, pass[p].budget - n, todo))
    BY <1>2 DEF Proceed
  <1>6. \A c \in todo : row'[c.id] = c.row /\ c.row # NoRow
    BY <1>4
  <1>7. QED
    BY <1>1, <1>3, <1>5, <1>6, JobAt, LoopsStep

\* The digest stays in hand, and may be written once it need not be read again.
LEMMA GotoStep ==
    ASSUME SerialInv, NEW p \in Passes, pass[p] \in Working,
           NEW label \in Reading \cup Written, Goto(p, label),
           label \in Reading => pass[p].pc \in Reading /\ row' = row,
           \A d \in Digest : d # Cur(p) => row'[d] = row[d], row'[Cur(p)] # NoRow,
           TablesOK', request' = request, agent' = agent
    PROVE  SerialInv'
  <1>1. pass[p].pc # "idle" /\ pass[p].pc # "next"
    BY DEF Working, Reading, Written
  <1>2. PICK j : j = [pass[p] EXCEPT !.pc = label]
    OBVIOUS
  <1>3. /\ j \in Working /\ j.pc = label
        /\ j.todo = pass[p].todo /\ j.cur = pass[p].cur
    BY <1>2 DEF Working
  <1>4. j \in PassJob /\ Become(p, j)
    BY <1>2, <1>3 DEF PassJob, Goto
  <1>5. j \notin Looping
    BY <1>3 DEF Looping, Reading, Written
  <1>6. \A c \in j.todo : c.id # Cur(p) /\ c.id \in Digest /\ row[c.id] = c.row /\ c.row # NoRow
    BY <1>1, <1>3, JobAt DEF TodoOK, CurOK, Cur, Present, Listed, Working
  <1>7. TodoOK(j)'
    BY <1>6 DEF TodoOK, Present
  <1>8. label \in Reading => j.cur.row = row'[j.cur.id]
    BY <1>1, <1>3, JobAt DEF CurOK
  <1>9. CurOK(j)'
    BY <1>3, <1>6, <1>8 DEF CurOK, Cur, Present
  <1>10. PassOK(j)'
    BY <1>5, <1>7, <1>9 DEF PassOK
  <1>11. QED
    BY <1>1, <1>4, <1>10, JobAt, PassStep DEF TablesOK

\* Beginning, listing and ending.
LEMMA SerialLoop ==
    ASSUME SerialInv, Exclusive, NEW p \in Passes,
           \/ StartPass /\ p = Loop
           \/ \E o \in Orgs : AdminRun(p, o)
           \/ ListPending(p) \/ EndPass(p) \/ Take(p)
    PROVE  SerialInv'
  <1>1. TablesOK' /\ row' = row /\ request' = request /\ agent' = agent
    BY SameTables DEF StartPass, AdminRun, ListPending, EndPass, Take, tables
  <1>2. CASE StartPass /\ p = Loop
    <2>1. PICK orgs \in SUBSET Orgs : Begin(Loop, orgs, MaxBatch)
      BY <1>2 DEF StartPass
    <2>2. Quiet /\ Become(Loop, Loops(orgs, MaxBatch, {}))
      BY <2>1 DEF Begin
    <2>3. QED
      BY <1>1, <1>2, <2>2, LoopsStep
  <1>3. CASE \E o \in Orgs : AdminRun(p, o)
    <2>1. PICK orgs \in SUBSET Orgs : Begin(p, orgs, BatchPerOrg)
      BY <1>3 DEF AdminRun
    <2>2. Quiet /\ Become(p, Loops(orgs, BatchPerOrg, {}))
      BY <2>1 DEF Begin
    <2>3. QED
      BY <1>1, <2>2, LoopsStep
  <1>4. CASE ListPending(p)
    <2>1. /\ pass[p] # PassIdle /\ pass[p].orgs \in SUBSET Orgs /\ pass[p].budget \in Int
      BY <1>4, JobAt DEF ListPending, At, Looping
    <2>2. PICK o \in pass[p].orgs : \E S \in SUBSET PendingIn(o) :
             Become(p, Loops(pass[p].orgs \ {o}, pass[p].budget, {[id |-> d, row |-> row[d]] : d \in S}))
      <3>1. \A o : \A n : Newest(PendingIn(o) \ Skipped(o), n) \in SUBSET PendingIn(o)
        BY DEF Newest
      <3>2. QED
        BY <1>4, <3>1 DEF ListPending
    <2>3. PICK S \in SUBSET PendingIn(o) :
             Become(p, Loops(pass[p].orgs \ {o}, pass[p].budget, {[id |-> d, row |-> row[d]] : d \in S}))
      BY <2>2
    <2>4. S \subseteq Digest /\ \A d \in S : row[d] # NoRow
      <3>1. \A d \in S : d \in Digest /\ row[d].source = "pending"
        BY DEF PendingIn, Newest
      <3>2. NoRow.source = "none"
        BY DEF NoRow
      <3>3. QED
        BY <3>1, <3>2
    <2>5. PICK todo : todo = {[id |-> d, row |-> row[d]] : d \in S}
      OBVIOUS
    <2>6. todo \in SUBSET Listed
      BY <2>4, <2>5 DEF SerialInv, Types, Listed
    <2>7. \A c \in todo : row'[c.id] = c.row /\ c.row # NoRow
      BY <1>1, <2>4, <2>5
    <2>8. Become(p, Loops(pass[p].orgs \ {o}, pass[p].budget, todo))
      BY <2>3, <2>5
    <2>9. QED
      BY <1>1, <2>1, <2>6, <2>7, <2>8, LoopsStep
  <1>5. CASE EndPass(p)
    <2>1. pass[p] # PassIdle /\ Become(p, PassIdle)
      BY <1>5, JobAt DEF EndPass, At
    <2>2. PassOK(PassIdle)' /\ PassIdle \in PassJob
      BY RowFacts DEF PassOK, PassJob
    <2>3. QED
      BY <1>1, <2>1, <2>2, PassStep DEF TablesOK
  <1>6. CASE Take(p)
    <2>1. PICK c \in pass[p].todo : \E label \in {"abandon", "input"} :
             Become(p, [pc |-> label, orgs |-> pass[p].orgs, budget |-> pass[p].budget,
                        todo |-> pass[p].todo \ {c}, cur |-> c])
      BY <1>6 DEF Take
    <2>2. PICK label \in {"abandon", "input"} :
             Become(p, [pc |-> label, orgs |-> pass[p].orgs, budget |-> pass[p].budget,
                        todo |-> pass[p].todo \ {c}, cur |-> c])
      BY <2>1
    <2>3. PICK j : j = [pc |-> label, orgs |-> pass[p].orgs, budget |-> pass[p].budget,
                         todo |-> pass[p].todo \ {c}, cur |-> c]
      OBVIOUS
    <2>4. Become(p, j)
      BY <2>2, <2>3
    <2>5. pass[p] \in Looping /\ TodoOK(pass[p]) /\ pass[p] # PassIdle
      BY <1>6, JobAt DEF Take, At
    <2>6. /\ j \in Working /\ j.todo = pass[p].todo \ {c} /\ j.cur = c
      BY <2>3, <2>5 DEF Looping, Working, Reading
    <2>7. \A e \in pass[p].todo : e = [id |-> e.id, row |-> row[e.id]] /\ row[e.id] # NoRow
      BY <2>5 DEF TodoOK, Present, Looping, Listed
    <2>8. TodoOK(j)'
      BY <1>1, <2>6, <2>7 DEF TodoOK, Present
    <2>9. CurOK(j)'
      <3>1. row'[c.id] # NoRow /\ c.row = row'[c.id]
        BY <1>1, <2>7
      <3>2. \A e \in j.todo : e.id # c.id
        BY <2>6, <2>7
      <3>3. QED
        BY <2>6, <3>1, <3>2 DEF CurOK, Present
    <2>10. PassOK(j)'
      BY <2>6, <2>8, <2>9 DEF PassOK, Looping, Working, Reading, Written
    <2>11. QED
      BY <1>1, <2>4, <2>5, <2>6, <2>10, PassStep DEF TablesOK, PassJob
  <1>7. QED
    BY <1>2, <1>3, <1>4, <1>5, <1>6

\* Reading the input and calling the model change no table.
LEMMA SerialCall ==
    ASSUME SerialInv, NEW p \in Passes,
           \/ ReadInput(p) \/ OverQuota(p) \/ SaveMisses(p)
           \/ Call(p, "save") \/ Call(p, "failed")
    PROVE  SerialInv'
  <1>1. TablesOK' /\ row' = row /\ request' = request /\ agent' = agent
    BY SameTables DEF ReadInput, OverQuota, SaveMisses, Call, tables
  <1>2. /\ pass[p].pc \in Reading
        /\ pass[p] \in Working /\ row[Cur(p)] # NoRow
    BY JobAt DEF ReadInput, OverQuota, SaveMisses, Call, At, Reading, Present
  <1>3. CASE ReadInput(p) \/ Call(p, "save") \/ Call(p, "failed")
    <2>1. PICK label \in Reading : Goto(p, label)
      BY <1>3 DEF ReadInput, Call, Reading
    <2>2. QED
      BY <1>1, <1>2, <2>1, GotoStep
  <1>4. CASE OverQuota(p)
    <2>1. Become(p, Loops(pass[p].orgs, pass[p].budget, {}))
      BY <1>4 DEF OverQuota
    <2>2. pass[p].orgs \in SUBSET Orgs /\ pass[p].budget \in Int /\ pass[p] # PassIdle
      BY <1>2, RowFacts DEF Working
    <2>3. QED
      BY <1>1, <2>1, <2>2, LoopsStep
  <1>5. CASE SaveMisses(p)
    BY <1>1, <1>2, <1>5, ProceedStep DEF SaveMisses
  <1>6. QED
    BY <1>3, <1>4, <1>5

\* Writes of the digest in hand, its enrichment state and its notes.
LEMMA SerialWrite ==
    ASSUME SerialInv, NEW p \in Passes,
           \/ Abandon(p) \/ Wait(p) \/ RecordFailure(p)
           \/ Save(p) \/ Clear(p) \/ Mint(p)
    PROVE  SerialInv'
  <1>1. request' = request /\ agent' = agent
    BY DEF Abandon, Wait, RecordFailure, Save, Clear, Mint
  <1>2. /\ pass[p] \in Working /\ CurOK(pass[p])
        /\ Cur(p) \in Digest /\ Present(Cur(p))
    BY JobAt DEF Abandon, Wait, RecordFailure, Save, Clear, Mint, At
  <1>3. Types /\ NotAhead /\ NoGhost /\ QuoteHasSession
    BY DEF SerialInv
  <1>4. CASE Abandon(p) \/ Wait(p) \/ RecordFailure(p)
    <2>1. row' = row /\ note' = note
      BY <1>4 DEF Abandon, Wait, RecordFailure
    <2>2. PICK st \in {"waiting", "failed", "abandoned"}, a \in Nat, o \in BOOLEAN :
             SetProgress(Cur(p), st, a, o)
      <3>1. /\ progress[Cur(p)].attempts \in Nat /\ progress[Cur(p)].old \in BOOLEAN
        BY <1>2, <1>3 DEF Types, Progress
      <3>2. CASE Abandon(p)
        <4>1. PICK a \in Nat, o \in BOOLEAN : SetProgress(Cur(p), "abandoned", a, o)
          BY <3>1, <3>2 DEF Abandon
        <4>2. QED
          BY <4>1
      <3>3. CASE Wait(p)
        <4>1. SetProgress(Cur(p), "waiting", progress[Cur(p)].attempts + 0, progress[Cur(p)].old)
          BY <3>3 DEF Wait, RecordAttempt
        <4>2. progress[Cur(p)].attempts + 0 \in Nat
          BY <3>1
        <4>3. QED
          BY <3>1, <4>1, <4>2
      <3>4. CASE RecordFailure(p)
        <4>1. SetProgress(Cur(p), "failed", progress[Cur(p)].attempts + 1, progress[Cur(p)].old)
          BY <3>4 DEF RecordFailure, RecordAttempt
        <4>2. progress[Cur(p)].attempts + 1 \in Nat
          BY <3>1
        <4>3. QED
          BY <3>1, <4>1, <4>2
      <3>5. QED
        BY <1>4, <3>2, <3>3, <3>4
    <2>3. /\ progress' \in [Digest -> Progress]
          /\ \A e \in Digest : e # Cur(p) => progress'[e] = progress[e]
      BY <1>2, <1>3, <2>2, SetProgressAt
    <2>4. NoGhost'
      BY <1>2, <1>3, <2>1, <2>3 DEF NoGhost, Present
    <2>5. TablesOK'
      BY <1>1, <1>3, <2>1, <2>3, <2>4 DEF TablesOK, Types, NotAhead, QuoteHasSession, Present
    <2>6. PICK n \in Nat : Proceed(p, n)
      BY <1>4 DEF Abandon, Wait, RecordFailure
    <2>7. QED
      BY <1>1, <1>2, <2>1, <2>5, <2>6, ProceedStep
  <1>5. CASE Save(p)
    <2>1. /\ note' = note /\ progress' = progress /\ Goto(p, "clear")
          /\ row' = [row EXCEPT ![Cur(p)] = Enrich(pass[p].cur.row)]
      BY <1>5 DEF Save
    <2>2. pass[p].cur.row = row[Cur(p)] /\ row[Cur(p)] \in Row
      BY <1>2, <1>3, <1>5 DEF Save, At, CurOK, Cur, Reading, Types
    <2>3. PICK r : r = Enrich(pass[p].cur.row)
      OBVIOUS
    <2>4. r \in Row /\ r.turns = row[Cur(p)].turns /\ r # NoRow
      BY <2>2, <2>3 DEF Enrich, Row, NoRow
    <2>5. /\ row' \in [Digest -> Row] /\ row'[Cur(p)] = r
          /\ \A d \in Digest : d # Cur(p) => row'[d] = row[d]
      BY <1>2, <1>3, <2>1, <2>3, <2>4 DEF Types
    <2>6. NotAhead'
      BY <1>1, <1>3, <2>4, <2>5 DEF NotAhead
    <2>7. NoGhost' /\ QuoteHasSession'
      BY <1>3, <2>1, <2>4, <2>5 DEF NoGhost, QuoteHasSession, Present, Types
    <2>8. TablesOK'
      BY <1>3, <2>1, <2>5, <2>6, <2>7 DEF TablesOK, Types
    <2>9. QED
      BY <1>1, <1>2, <2>1, <2>4, <2>5, <2>8, GotoStep DEF Written, Reading
  <1>6. CASE Clear(p)
    <2>1. row' = row /\ note' = note /\ Forget({Cur(p)})
      BY <1>6 DEF Clear
    <2>2. /\ progress' \in [Digest -> Progress]
          /\ \A d \in Digest : progress'[d] # NoProgress => progress[d] # NoProgress
      BY <1>3, <2>1, ForgetAt
    <2>3. TablesOK'
      BY <1>1, <1>3, <2>1, <2>2 DEF TablesOK, Types, NotAhead, NoGhost, QuoteHasSession, Present
    <2>4. Proceed(p, 1) \/ Goto(p, "mint")
      BY <1>6 DEF Clear
    <2>5. QED
      BY <1>1, <1>2, <2>1, <2>3, <2>4, ProceedStep, GotoStep DEF Written, Reading, Present
  <1>7. CASE Mint(p)
    <2>1. row' = row /\ progress' = progress /\ note' = note \cup {Cur(p)} /\ Proceed(p, 1)
      BY <1>7 DEF Mint
    <2>2. TablesOK'
      BY <1>1, <1>2, <1>3, <2>1 DEF TablesOK, Types, NotAhead, NoGhost, QuoteHasSession, Present
    <2>3. QED
      BY <1>1, <1>2, <2>1, <2>2, ProceedStep
  <1>8. QED
    BY <1>4, <1>5, <1>6, <1>7

-----------------------------------------------------------------------------
\* Steps of a request

LEMMA RequestAt ==
    ASSUME SerialInv, NEW h \in Handlers, request[h] # RequestIdle
    PROVE  request[h] \in Request /\ RequestOK(request[h])
  BY DEF SerialInv, Types, RequestJob

\* A request arrives, reads, or writes what the invariant does not speak of.
LEMMA SerialReads ==
    ASSUME SerialInv, Exclusive, NEW h \in Handlers,
           \/ \E d \in Digest : Ingest(h, d) \/ Upload(h, d)
           \/ \E S \in SUBSET Digest : Purge(h, S)
           \/ PutBlob(h) \/ ReadKeys(h) \/ DeleteBlobs(h) \/ BlobsRefused(h)
    PROVE  SerialInv'
  <1>1. TablesOK' /\ row' = row /\ pass' = pass /\ agent' = agent
    <2>1. UNCHANGED <<agent, row, progress, note, pass>>
      BY DEF Ingest, Upload, Purge, PutBlob, ReadKeys, DeleteBlobs, BlobsRefused, tables
    <2>2. QED
      BY <2>1 DEF SerialInv, Types, TablesOK, NotAhead, NoGhost, QuoteHasSession, Present
  <1>2. CASE \E d \in Digest : Ingest(h, d)
    <2>1. PICK d \in Digest : Ingest(h, d)
      BY <1>2
    <2>2. PICK r : r = [pc |-> "merge", id |-> d, read |-> row[d],
                        push |-> [source |-> "pending", turns |-> agent[d].turns,
                                  summary |-> agent[d].summary]]
      OBVIOUS
    <2>3. Quiet /\ Serve(h, r)
      BY <2>1, <2>2, ArrivesQuiet DEF Ingest
    <2>4. row[d] \in Row /\ agent[d].turns \in Nat /\ agent[d].summary \in BOOLEAN
          /\ row[d].turns <= agent[d].turns
      BY DEF SerialInv, Types, NotAhead
    <2>5. r \in RequestJob
      BY <2>2, <2>4 DEF RequestJob, Request, Row
    <2>6. RequestOK(r)'
      BY <1>1, <2>2, <2>4 DEF RequestOK
    <2>7. QED
      BY <1>1, <2>3, <2>5, <2>6, RequestStep DEF TablesOK
  <1>3. CASE \E d \in Digest : Upload(h, d)
    <2>1. PICK d \in Digest : Upload(h, d)
      BY <1>3
    <2>2. PICK r : r = [pc |-> "put", id |-> d]
      OBVIOUS
    <2>3. Quiet /\ Serve(h, r)
      BY <2>1, <2>2, ArrivesQuiet DEF Upload
    <2>4. r \in RequestJob /\ RequestOK(r)'
      BY <2>2 DEF RequestJob, Request, RequestOK
    <2>5. QED
      BY <1>1, <2>3, <2>4, RequestStep DEF TablesOK
  <1>4. CASE \E S \in SUBSET Digest : Purge(h, S)
    <2>1. PICK S \in SUBSET Digest : Purge(h, S)
      BY <1>4
    <2>2. PICK r : r = [pc |-> "keys", ids |-> S, keys |-> {}]
      OBVIOUS
    <2>3. Quiet /\ Serve(h, r)
      BY <2>1, <2>2, ArrivesQuiet DEF Purge
    <2>4. r \in RequestJob /\ RequestOK(r)'
      BY <2>2 DEF RequestJob, Request, RequestOK
    <2>5. QED
      BY <1>1, <2>3, <2>4, RequestStep DEF TablesOK
  <1>5. CASE PutBlob(h) \/ ReadKeys(h) \/ DeleteBlobs(h)
    <2>1. request[h] # RequestIdle /\ request[h].pc \in {"put", "keys", "blobs"}
      BY <1>5 DEF PutBlob, ReadKeys, DeleteBlobs, RequestIdle
    <2>2. request[h] \in Request
      BY <2>1, RequestAt
    <2>3. PICK r \in RequestJob : r.pc \in {"record", "blobs", "rows"} /\ Serve(h, r)
      <3>1. CASE PutBlob(h)
        <4>1. [request[h] EXCEPT !.pc = "record"] \in RequestJob
          BY <2>2, <3>1 DEF PutBlob, RequestJob, Request
        <4>2. QED
          BY <2>2, <3>1, <4>1 DEF PutBlob, Request
      <3>2. CASE ReadKeys(h)
        <4>1. [request[h] EXCEPT !.pc = "blobs", !.keys = request[h].ids \cap raw] \in RequestJob
          BY <2>2, <3>2 DEF ReadKeys, RequestJob, Request
        <4>2. QED
          BY <2>2, <3>2, <4>1 DEF ReadKeys, Request
      <3>3. CASE DeleteBlobs(h)
        <4>1. [request[h] EXCEPT !.pc = "rows"] \in RequestJob
          BY <2>2, <3>3 DEF DeleteBlobs, RequestJob, Request
        <4>2. QED
          BY <2>2, <3>3, <4>1 DEF DeleteBlobs, Request
      <3>4. QED
        BY <1>5, <3>1, <3>2, <3>3
    <2>4. RequestOK(r)'
      BY <2>3 DEF RequestOK
    <2>5. QED
      BY <1>1, <2>1, <2>3, <2>4, RequestStep DEF TablesOK
  <1>6. CASE BlobsRefused(h)
    <2>1. request[h] # RequestIdle /\ Serve(h, RequestIdle)
      BY <1>6 DEF BlobsRefused, Reply, RequestIdle
    <2>2. RequestIdle \in RequestJob /\ RequestOK(RequestIdle)'
      BY DEF RequestJob, RequestOK, RequestIdle
    <2>3. QED
      BY <1>1, <2>1, <2>2, RequestStep DEF TablesOK
  <1>7. QED
    BY <1>2, <1>3, <1>4, <1>5, <1>6

LEMMA MergedFacts ==
    ASSUME NEW stored \in Row, NEW incoming \in Row, incoming.source = "pending",
           stored.turns <= incoming.turns
    PROVE  /\ Merged(stored, incoming) \in Row
           /\ Merged(stored, incoming) # NoRow
           /\ Merged(stored, incoming).turns >= stored.turns
           /\ Merged(stored, incoming).turns <= incoming.turns
           /\ Enriched(stored) => Enriched(Merged(stored, incoming))
  <1>1. CASE Enriched(stored)
    <2>1. Merged(stored, incoming) = [stored EXCEPT !.summary = stored.summary \/ incoming.summary]
      BY <1>1 DEF Merged
    <2>2. stored.summary \/ incoming.summary \in BOOLEAN
      BY DEF Row
    <2>3. QED
      BY <1>1, <2>1, <2>2 DEF Row, NoRow, Enriched
  <1>2. CASE ~Enriched(stored)
    <2>1. Merged(stored, incoming) = incoming
      BY <1>2 DEF Merged
    <2>2. QED
      BY <1>2, <2>1 DEF Row, NoRow
  <1>3. QED
    BY <1>1, <1>2

\* What an ingest writes: a row with as many turns, as enriched, and no newer than the
\* laptop's session.
LEMMA MergeFacts ==
    ASSUME SerialInv, NEW h \in Handlers, Merge(h)
    PROVE  /\ request[h] # RequestIdle /\ request[h].id \in Digest
           /\ row' \in [Digest -> Row]
           /\ \A d \in Digest : d # request[h].id => row'[d] = row[d]
           /\ LET d == request[h].id
              IN /\ row[d] # NoRow => row'[d] # NoRow
                 /\ row'[d].turns >= row[d].turns /\ row'[d].turns <= agent[d].turns
                 /\ Enriched(row[d]) => Enriched(row'[d])
  <1>1. request[h].pc = "merge" /\ request[h] # RequestIdle
    BY DEF Merge, RequestIdle
  <1>2. request[h] \in Request /\ RequestOK(request[h])
    BY <1>1, RequestAt
  <1>3. PICK d : d = request[h].id
    OBVIOUS
  <1>4. PICK m : m = Merged(request[h].read, request[h].push)
    OBVIOUS
  <1>5. /\ d \in Digest /\ request[h].read = row[d] /\ row[d] \in Row
        /\ request[h].push \in Row /\ request[h].push.source = "pending"
        /\ row[d].turns <= request[h].push.turns /\ request[h].push.turns <= agent[d].turns
        /\ row[d].turns <= agent[d].turns
    BY <1>1, <1>2, <1>3 DEF Request, RequestOK, SerialInv, Types, NotAhead
  <1>6. /\ m \in Row /\ m # NoRow
        /\ m.turns >= row[d].turns /\ m.turns <= request[h].push.turns
        /\ Enriched(row[d]) => Enriched(m)
    BY <1>4, <1>5, MergedFacts
  <1>7. row' = row \/ row' = [row EXCEPT ![d] = m]
    BY <1>3, <1>4 DEF Merge
  <1>8. row \in [Digest -> Row] /\ agent[d].turns \in Nat
    BY <1>5 DEF SerialInv, Types
  <1>9. CASE row' = row
    <2>1. row[d].turns >= row[d].turns
      BY <1>5 DEF Row
    <2>2. QED
      BY <1>1, <1>3, <1>5, <1>8, <1>9, <2>1
  <1>10. CASE row' = [row EXCEPT ![d] = m]
    <2>1. /\ row' \in [Digest -> Row] /\ row'[d] = m
          /\ \A e \in Digest : e # d => row'[e] = row[e]
      BY <1>5, <1>6, <1>8, <1>10
    <2>2. m.turns <= agent[d].turns
      BY <1>5, <1>6, <1>8 DEF Row
    <2>3. QED
      BY <1>1, <1>3, <1>5, <1>6, <2>1, <2>2
  <1>11. QED
    BY <1>7, <1>9, <1>10

LEMMA SerialWrites ==
    ASSUME SerialInv, Exclusive, NEW h \in Handlers,
           Merge(h) \/ RecordRaw(h) \/ DeleteRows(h)
    PROVE  SerialInv'
  <1>1. /\ Serve(h, RequestIdle) /\ pass' = pass /\ agent' = agent
        /\ request[h] # RequestIdle
    BY DEF Merge, RecordRaw, DeleteRows, Reply, RequestIdle
  <1>2. RequestIdle \in RequestJob /\ RequestOK(RequestIdle)'
    BY DEF RequestJob, RequestOK, RequestIdle
  <1>3. Types /\ NotAhead /\ NoGhost /\ QuoteHasSession
    BY DEF SerialInv
  <1>4. TablesOK'
    <2>1. CASE Merge(h)
      <3>1. note' = note /\ progress' = progress
        BY <2>1 DEF Merge
      <3>2. NotAhead'
        BY <1>1, <1>3, <2>1, MergeFacts DEF NotAhead
      <3>3. \A d \in Digest : Present(d) => Present(d)'
        BY <2>1, MergeFacts DEF Present
      <3>4. NoGhost' /\ QuoteHasSession'
        BY <1>3, <3>1, <3>3 DEF NoGhost, QuoteHasSession, Types
      <3>5. QED
        BY <1>3, <2>1, <3>1, <3>2, <3>4, MergeFacts DEF TablesOK, Types
    <2>2. CASE RecordRaw(h)
      <3>1. /\ row' = row /\ note' = note
            /\ \E S : Forget(S)
        BY <2>2 DEF RecordRaw
      <3>2. /\ progress' \in [Digest -> Progress]
            /\ \A d \in Digest : progress'[d] # NoProgress => progress[d] # NoProgress
        BY <1>3, <3>1, ForgetAt
      <3>3. QED
        BY <1>1, <1>3, <3>1, <3>2 DEF TablesOK, Types, NotAhead, NoGhost, QuoteHasSession, Present
    <2>3. CASE DeleteRows(h)
      <3>1. PICK S : /\ row' = [d \in Digest |-> IF d \in S THEN NoRow ELSE row[d]]
                     /\ note' = note \ S /\ Forget(S)
        BY <2>3 DEF DeleteRows
      <3>2. /\ progress' \in [Digest -> Progress]
            /\ \A d \in Digest : progress'[d] = IF d \in S THEN NoProgress ELSE progress[d]
        BY <1>3, <3>1, ForgetAt
      <3>3. row' \in [Digest -> Row]
        BY <1>3, <3>1, RowFacts DEF Types
      <3>4. NotAhead'
        <4>1. NoRow.turns = 0
          BY DEF NoRow
        <4>2. QED
          BY <1>1, <1>3, <3>1, <4>1 DEF NotAhead, Types
      <3>5. NoGhost' /\ QuoteHasSession'
        BY <1>3, <3>1, <3>2 DEF NoGhost, QuoteHasSession, Present, Types
      <3>6. QED
        BY <1>3, <3>1, <3>2, <3>3, <3>4, <3>5 DEF TablesOK, Types
    <2>4. QED
      BY <2>1, <2>2, <2>3
  <1>5. QED
    BY <1>1, <1>2, <1>4, RequestStep DEF TablesOK

LEMMA SerialRetry ==
    ASSUME SerialInv, NEW h \in Handlers, NEW S \in SUBSET Digest, NEW b, Retry(h, S, b)
    PROVE  SerialInv'
  <1>1. UNCHANGED <<agent, row, note, pass, request>> /\ Forget(S)
    BY DEF Retry
  <1>2. /\ progress' \in [Digest -> Progress]
        /\ \A d \in Digest : progress'[d] # NoProgress => progress[d] # NoProgress
    BY <1>1, ForgetAt DEF SerialInv
  <1>3. NoGhost'
    BY <1>1, <1>2 DEF SerialInv, NoGhost, Present
  <1>4. Types' /\ Alone' /\ NotAhead' /\ QuoteHasSession'
    BY <1>1, <1>2 DEF SerialInv, Types, Alone, NotAhead, QuoteHasSession, Present
  <1>5. (\A p \in Passes : PassOK(pass[p])') /\ (\A g \in Handlers : RequestOK(request[g])')
    BY <1>1 DEF SerialInv, PassOK, TodoOK, CurOK, Present, RequestOK
  <1>6. QED
    BY <1>3, <1>4, <1>5 DEF SerialInv

-----------------------------------------------------------------------------
\* The outside, and every step

LEMMA SerialOutside ==
    ASSUME SerialInv, \/ \E d \in Digest : Resume(d) \/ Age(d)
                      \/ Crash
                      \/ UNCHANGED vars
    PROVE  SerialInv'
  <1>1. CASE \E d \in Digest : Resume(d)
    <2>1. PICK d \in Digest : Resume(d)
      BY <1>1
    <2>2. /\ agent' \in [Digest -> [turns : Nat, summary : BOOLEAN]]
          /\ \A e \in Digest : agent'[e].turns >= agent[e].turns /\ agent[e].turns \in Nat
      BY <2>1 DEF Resume, SerialInv, Types
    <2>3. UNCHANGED <<tables, pass, request>>
      BY <2>1 DEF Resume
    <2>4. Types' /\ Alone' /\ NoGhost' /\ QuoteHasSession'
      BY <2>2, <2>3 DEF SerialInv, Types, Alone, NoGhost, QuoteHasSession, Present, tables
    <2>5. NotAhead'
      BY <2>2, <2>3 DEF SerialInv, NotAhead, Types, Row, tables
    <2>6. \A p \in Passes : PassOK(pass[p])'
      BY <2>3 DEF SerialInv, PassOK, TodoOK, CurOK, Present, tables
    <2>7. \A h \in Handlers : RequestOK(request[h])'
      <3>1. SUFFICES ASSUME NEW h \in Handlers, request[h].pc = "merge"
                     PROVE  RequestOK(request[h])'
        BY <2>3 DEF RequestOK
      <3>2. request[h] \in Request /\ RequestOK(request[h])
        BY <3>1, RequestAt DEF RequestIdle
      <3>3. request[h].id \in Digest /\ request[h].push \in Row
        BY <3>1, <3>2 DEF Request
      <3>4. QED
        BY <2>2, <2>3, <3>1, <3>2, <3>3 DEF RequestOK, Row, tables
    <2>8. QED
      BY <2>4, <2>5, <2>6, <2>7 DEF SerialInv
  <1>2. CASE \E d \in Digest : Age(d)
    <2>1. PICK d \in Digest : Age(d)
      BY <1>2
    <2>2. UNCHANGED <<agent, row, note, pass, request>>
      BY <2>1 DEF Age
    <2>3. progress[d].attempts \in Nat /\ progress[d].state \in {"none", "waiting", "failed", "abandoned"}
      BY DEF SerialInv, Types, Progress
    <2>4. /\ progress' \in [Digest -> Progress]
          /\ \A e \in Digest : e # d => progress'[e] = progress[e]
      BY <2>1, <2>3, SetProgressAt DEF Age, SerialInv
    <2>5. NoGhost'
      BY <2>1, <2>2, <2>4 DEF SerialInv, NoGhost, Present, Age
    <2>6. Types' /\ Alone' /\ NotAhead' /\ QuoteHasSession'
      BY <2>2, <2>4 DEF SerialInv, Types, Alone, NotAhead, QuoteHasSession, Present
    <2>7. (\A p \in Passes : PassOK(pass[p])') /\ (\A h \in Handlers : RequestOK(request[h])')
      BY <2>2 DEF SerialInv, PassOK, TodoOK, CurOK, Present, RequestOK
    <2>8. QED
      BY <2>5, <2>6, <2>7 DEF SerialInv
  <1>3. CASE Crash
    <2>1. TablesOK' /\ row' = row /\ agent' = agent
      BY <1>3, SameTables DEF Crash, tables
    <2>2. CASE \E p \in Passes : ~At(p, "idle") /\ Become(p, PassIdle) /\ UNCHANGED request
      <3>1. PICK p \in Passes : ~At(p, "idle") /\ Become(p, PassIdle) /\ UNCHANGED request
        BY <2>2
      <3>2. pass[p] # PassIdle /\ PassOK(PassIdle)' /\ PassIdle \in PassJob
        BY <3>1, RowFacts DEF At, PassIdle, PassOK, PassJob
      <3>3. QED
        BY <2>1, <3>1, <3>2, PassStep DEF TablesOK
    <2>3. CASE \E h \in Handlers : request[h] # RequestIdle /\ Reply(h) /\ UNCHANGED pass
      <3>1. PICK h \in Handlers : request[h] # RequestIdle /\ Reply(h) /\ UNCHANGED pass
        BY <2>3
      <3>2. RequestIdle \in RequestJob /\ RequestOK(RequestIdle)'
        BY DEF RequestJob, RequestOK, RequestIdle
      <3>3. QED
        BY <2>1, <3>1, <3>2, RequestStep DEF TablesOK, Reply
    <2>4. QED
      BY <1>3, <2>2, <2>3 DEF Crash
  <1>4. CASE UNCHANGED vars
    <2>1. UNCHANGED <<agent, row, progress, note, pass, request>>
      BY <1>4 DEF vars, tables
    <2>2. Types' /\ Alone' /\ NotAhead' /\ NoGhost' /\ QuoteHasSession'
      BY <2>1 DEF SerialInv, Types, Alone, NotAhead, NoGhost, QuoteHasSession, Present
    <2>3. (\A p \in Passes : PassOK(pass[p])') /\ (\A h \in Handlers : RequestOK(request[h])')
      BY <2>1 DEF SerialInv, PassOK, TodoOK, CurOK, Present, RequestOK
    <2>4. QED
      BY <2>2, <2>3 DEF SerialInv
  <1>5. QED
    BY <1>1, <1>2, <1>3, <1>4

LEMMA NextSerial ==
    ASSUME Exclusive, SerialInv, [Next]_vars
    PROVE  SerialInv'
  <1>1. CASE \E h \in Handlers : Serving(h)
    <2>1. PICK h \in Handlers : Serving(h)
      BY <1>1
    <2>2. CASE \E S \in SUBSET Digest : \E b \in BOOLEAN : Retry(h, S, b)
      BY <2>2, SerialRetry
    <2>3. CASE Merge(h) \/ RecordRaw(h) \/ DeleteRows(h)
      BY <2>3, SerialWrites
    <2>4. QED
      BY <2>1, <2>2, <2>3, SerialReads DEF Serving
  <1>2. CASE \E p \in Passes : Enriching(p)
    <2>1. PICK p \in Passes : Enriching(p)
      BY <1>2
    <2>2. CASE ListPending(p) \/ EndPass(p) \/ Take(p)
      BY <2>2, SerialLoop
    <2>3. CASE ReadInput(p) \/ OverQuota(p) \/ SaveMisses(p) \/ Call(p, "save") \/ Call(p, "failed")
      BY <2>3, SerialCall
    <2>4. QED
      BY <2>1, <2>2, <2>3, SerialWrite DEF Enriching
  <1>3. CASE StartPass \/ \E p \in Admins, o \in Orgs : AdminRun(p, o)
    BY <1>3, SerialLoop DEF Passes
  <1>4. QED
    BY <1>1, <1>2, <1>3, SerialOutside DEF Next

-----------------------------------------------------------------------------
\* How rows change

Kept(d) == /\ Enriched(row[d]) => Enriched(row'[d])
           /\ row'[d].turns >= row[d].turns

LEMMA RowStep ==
    ASSUME SerialInv, Exclusive, [Next]_vars, NEW d \in Digest
    PROVE  row'[d] = NoRow \/ Kept(d)
  <1>1. row[d] \in Row /\ row[d].turns >= row[d].turns
    BY DEF SerialInv, Types, Row
  <1>2. row'[d] = row[d] => Kept(d)
    BY <1>1 DEF Kept
  <1>3. ASSUME NEW h \in Handlers, Merge(h)
        PROVE  Kept(d)
    <2>1. CASE d = request[h].id
      BY <1>3, <2>1, MergeFacts DEF Kept
    <2>2. CASE d # request[h].id
      BY <1>2, <1>3, <2>2, MergeFacts
    <2>3. QED
      BY <2>1, <2>2
  <1>4. ASSUME NEW h \in Handlers, DeleteRows(h)
        PROVE  row'[d] = NoRow \/ row'[d] = row[d]
    BY <1>4 DEF DeleteRows
  <1>5. ASSUME NEW p \in Passes, Save(p)
        PROVE  Kept(d)
    <2>1. pass[p] \in Working /\ CurOK(pass[p]) /\ Cur(p) \in Digest
      BY <1>5, JobAt DEF Save, At
    <2>2. pass[p].cur.row = row[Cur(p)]
      BY <1>5, <2>1 DEF Save, At, CurOK, Cur, Reading
    <2>3. row' = [row EXCEPT ![Cur(p)] = Enrich(row[Cur(p)])] /\ row \in [Digest -> Row]
      BY <1>5, <2>2 DEF Save, SerialInv, Types
    <2>4. CASE d = Cur(p)
      <3>1. row'[d] = Enrich(row[d])
        BY <2>3, <2>4
      <3>2. QED
        BY <1>1, <3>1 DEF Kept, Enrich, Enriched, Row
    <2>5. CASE d # Cur(p)
      BY <1>2, <2>3, <2>5
    <2>6. QED
      BY <2>4, <2>5
  <1>6. ASSUME NEW h \in Handlers, Serving(h)
        PROVE  Merge(h) \/ DeleteRows(h) \/ row' = row
    BY <1>6 DEF Serving, PutBlob, RecordRaw, ReadKeys, DeleteBlobs, BlobsRefused,
                Ingest, Upload, Purge, Retry, tables
  <1>7. ASSUME NEW p \in Passes, Enriching(p)
        PROVE  Save(p) \/ row' = row
    BY <1>7 DEF Enriching, ListPending, EndPass, Take, Abandon, ReadInput, Wait, OverQuota,
                Call, RecordFailure, SaveMisses, Clear, Mint, tables
  <1>8. CASE \/ \E e \in Digest : Resume(e) \/ Age(e)
             \/ StartPass \/ \E p \in Admins, o \in Orgs : AdminRun(p, o)
             \/ Crash \/ UNCHANGED vars
    <2>1. row' = row
      BY <1>8 DEF Resume, Age, StartPass, AdminRun, Crash, vars, tables
    <2>2. QED
      BY <1>2, <2>1
  <1>9. QED
    BY <1>2, <1>3, <1>4, <1>5, <1>6, <1>7, <1>8 DEF Next

-----------------------------------------------------------------------------
\* Uploads and purges

\* Between its two steps an upload is known by its request; between its steps a purge
\* has looked up, and then deleted, the blobs of all the digests it deletes.
Recording(d) == \E h \in Handlers : request[h].pc = "record" /\ request[h].id = d

PurgeOK(r) ==
    /\ r.pc = "blobs" => r.keys = r.ids \cap raw
    /\ r.pc = "rows" => r.ids \cap blob = {}

UploadInv ==
    /\ raw \in SUBSET Digest /\ blob \in SUBSET Digest /\ crashes \in Nat
    /\ \A h \in Handlers : PurgeOK(request[h])
    /\ BlobHasRecord

\* Who works, works alone.
LEMMA OneRequest ==
    ASSUME SerialInv, NEW h \in Handlers, request[h] # RequestIdle \/ Quiet, NEW r, Serve(h, r)
    PROVE  /\ request'[h] = r
           /\ \A g \in Handlers : g # h => request[g] = RequestIdle /\ request'[g] = RequestIdle
           /\ \A d : Recording(d) <=> request[h].pc = "record" /\ request[h].id = d
           /\ \A d : Recording(d)' <=> r.pc = "record" /\ r.id = d
  <1>1. request \in [Handlers -> RequestJob]
    BY DEF SerialInv, Types
  <1>2. \A g \in Handlers : g # h => request[g] = RequestIdle
    BY DEF SerialInv, Alone, Quiet
  <1>3. request'[h] = r /\ \A g \in Handlers : g # h => request'[g] = RequestIdle
    BY <1>1, <1>2 DEF Serve
  <1>4. RequestIdle.pc # "record"
    BY DEF RequestIdle
  <1>5. QED
    BY <1>2, <1>3, <1>4 DEF Recording

\* A step that leaves the requests, the records and the blobs alone.
LEMMA UploadStill ==
    ASSUME UploadInv, UNCHANGED <<request, raw, blob, crashes>>
    PROVE  UploadInv'
  BY DEF UploadInv, PurgeOK, BlobHasRecord

\* A step of one request: it answers for the blobs.
LEMMA UploadBy ==
    ASSUME SerialInv, UploadInv, NEW h \in Handlers, request[h] # RequestIdle \/ Quiet,
           NEW r, Serve(h, r), PurgeOK(r)',
           raw' \in SUBSET Digest, blob' \in SUBSET Digest, crashes' = crashes,
           \A d \in blob' : d \in raw' \/ (r.pc = "record" /\ r.id = d)
    PROVE  UploadInv'
  <1>1. \A g \in Handlers : PurgeOK(request[g])'
    BY OneRequest DEF PurgeOK, RequestIdle
  <1>2. BlobHasRecord'
    BY OneRequest DEF BlobHasRecord, Recording
  <1>3. QED
    BY <1>1, <1>2 DEF UploadInv

LEMMA UploadServes ==
    ASSUME SerialInv, UploadInv, Exclusive, NEW h \in Handlers, Serving(h)
    PROVE  UploadInv'
  <1>1. crashes' = crashes
    BY DEF Serving, Merge, PutBlob, RecordRaw, ReadKeys, DeleteBlobs, BlobsRefused, DeleteRows,
           Ingest, Upload, Purge, Retry, limits
  <1>2. raw \in SUBSET Digest /\ blob \in SUBSET Digest /\ PurgeOK(request[h])
    BY DEF UploadInv
  <1>3. \A d \in blob : d \in raw \/ Recording(d)
    BY DEF UploadInv, BlobHasRecord, Recording
  <1>4. CASE \E d \in Digest : Ingest(h, d) \/ Upload(h, d)
    <2>1. PICK r : Quiet /\ Serve(h, r) /\ r.pc \in {"merge", "put"}
      BY <1>4, ArrivesQuiet DEF Ingest, Upload
    <2>2. raw' = raw /\ blob' = blob
      BY <1>4 DEF Ingest, Upload, tables
    <2>3. \A d \in blob : d \in raw
      BY <1>3, <2>1, OneRequest DEF Quiet, RequestIdle
    <2>4. PurgeOK(r)'
      BY <2>1 DEF PurgeOK
    <2>5. QED
      BY <1>1, <1>2, <2>1, <2>2, <2>3, <2>4, UploadBy
  <1>5. CASE \E S \in SUBSET Digest : Purge(h, S)
    <2>1. PICK r : Quiet /\ Serve(h, r) /\ r.pc = "keys"
      BY <1>5, ArrivesQuiet DEF Purge
    <2>2. raw' = raw /\ blob' = blob
      BY <1>5 DEF Purge, tables
    <2>3. \A d \in blob : d \in raw
      BY <1>3, <2>1, OneRequest DEF Quiet, RequestIdle
    <2>4. PurgeOK(r)'
      BY <2>1 DEF PurgeOK
    <2>5. QED
      BY <1>1, <1>2, <2>1, <2>2, <2>3, <2>4, UploadBy
  <1>6. CASE \E S \in SUBSET Digest : \E b \in BOOLEAN : Retry(h, S, b)
    BY <1>1, <1>6, UploadStill DEF Retry
  <1>7. CASE Merge(h)
    <2>1. request[h].pc = "merge" /\ Serve(h, RequestIdle) /\ raw' = raw /\ blob' = blob
      BY <1>7 DEF Merge, Reply
    <2>2. request[h] # RequestIdle /\ PurgeOK(RequestIdle)'
      BY <2>1 DEF RequestIdle, PurgeOK
    <2>3. \A d \in blob : d \in raw
      BY <1>3, <2>1, <2>2, OneRequest
    <2>4. QED
      BY <1>1, <1>2, <2>1, <2>2, <2>3, UploadBy
  <1>8. CASE PutBlob(h)
    <2>1. request[h].pc = "put" /\ raw' = raw /\ blob' = blob \cup {request[h].id}
      BY <1>8 DEF PutBlob
    <2>2. request[h] # RequestIdle /\ request[h] \in Request
      BY <2>1, RequestAt DEF RequestIdle
    <2>3. request[h].id \in Digest
      BY <2>1, <2>2 DEF Request
    <2>4. PICK r : r = [request[h] EXCEPT !.pc = "record"]
      OBVIOUS
    <2>5. r.pc = "record" /\ r.id = request[h].id /\ Serve(h, r)
      BY <1>8, <2>1, <2>2, <2>4 DEF PutBlob, Request
    <2>6. PurgeOK(r)'
      BY <2>5 DEF PurgeOK
    <2>7. \A d \in blob : d \in raw
      BY <1>3, <2>1, <2>2, <2>5, OneRequest
    <2>8. \A d \in blob' : d \in raw' \/ (r.pc = "record" /\ r.id = d)
      BY <2>1, <2>5, <2>7
    <2>9. QED
      BY <1>1, <1>2, <2>1, <2>2, <2>3, <2>5, <2>6, <2>8, UploadBy
  <1>9. CASE RecordRaw(h)
    <2>1. /\ request[h].pc = "record" /\ Serve(h, RequestIdle)
          /\ raw' = raw \cup {request[h].id} /\ blob' = blob
      BY <1>9 DEF RecordRaw, Reply
    <2>2. request[h] # RequestIdle /\ request[h] \in Request /\ PurgeOK(RequestIdle)'
      BY <2>1, RequestAt DEF RequestIdle, PurgeOK
    <2>3. request[h].id \in Digest
      BY <2>1, <2>2 DEF Request
    <2>4. \A d \in blob' : d \in raw'
      BY <1>3, <2>1, <2>2, OneRequest
    <2>5. QED
      BY <1>1, <1>2, <2>1, <2>2, <2>3, <2>4, UploadBy
  <1>10. CASE ReadKeys(h)
    <2>1. request[h].pc = "keys" /\ raw' = raw /\ blob' = blob
      BY <1>10 DEF ReadKeys, tables
    <2>2. request[h] # RequestIdle /\ request[h] \in Request
      BY <2>1, RequestAt DEF RequestIdle
    <2>3. PICK r : r = [request[h] EXCEPT !.pc = "blobs", !.keys = request[h].ids \cap raw]
      OBVIOUS
    <2>4. Serve(h, r) /\ r.pc = "blobs" /\ r.keys = r.ids \cap raw
      BY <1>10, <2>1, <2>2, <2>3 DEF ReadKeys, Request
    <2>5. PurgeOK(r)'
      BY <2>1, <2>4 DEF PurgeOK
    <2>6. \A d \in blob : d \in raw
      BY <1>3, <2>1, <2>2, <2>4, OneRequest
    <2>7. QED
      BY <1>1, <1>2, <2>1, <2>2, <2>4, <2>5, <2>6, UploadBy
  <1>11. CASE DeleteBlobs(h)
    <2>1. request[h].pc = "blobs" /\ raw' = raw /\ blob' = blob \ request[h].keys
      BY <1>11 DEF DeleteBlobs
    <2>2. request[h] # RequestIdle /\ request[h] \in Request
      BY <2>1, RequestAt DEF RequestIdle
    <2>3. PICK r : r = [request[h] EXCEPT !.pc = "rows"]
      OBVIOUS
    <2>4. Serve(h, r) /\ r.pc = "rows" /\ r.ids = request[h].ids
      BY <1>11, <2>1, <2>2, <2>3 DEF DeleteBlobs, Request
    <2>5. \A d \in blob : d \in raw
      BY <1>3, <2>1, <2>2, <2>4, OneRequest
    <2>6. request[h].keys = request[h].ids \cap raw
      BY <1>2, <2>1 DEF PurgeOK
    <2>7. PurgeOK(r)'
      BY <2>1, <2>4, <2>5, <2>6 DEF PurgeOK
    <2>8. QED
      BY <1>1, <1>2, <2>1, <2>2, <2>4, <2>5, <2>7, UploadBy
  <1>12. CASE BlobsRefused(h)
    <2>1. /\ request[h].pc = "blobs" /\ Serve(h, RequestIdle) /\ raw' = raw
          /\ blob' \in SUBSET blob
      BY <1>12 DEF BlobsRefused, Reply
    <2>2. request[h] # RequestIdle /\ PurgeOK(RequestIdle)'
      BY <2>1 DEF RequestIdle, PurgeOK
    <2>3. \A d \in blob : d \in raw
      BY <1>3, <2>1, <2>2, OneRequest
    <2>4. QED
      BY <1>1, <1>2, <2>1, <2>2, <2>3, UploadBy
  <1>13. CASE DeleteRows(h)
    <2>1. /\ request[h].pc = "rows" /\ Serve(h, RequestIdle)
          /\ raw' = raw \ request[h].ids /\ blob' = blob
      BY <1>13 DEF DeleteRows, Reply
    <2>2. request[h] # RequestIdle /\ PurgeOK(RequestIdle)'
      BY <2>1 DEF RequestIdle, PurgeOK
    <2>3. \A d \in blob : d \in raw /\ d \notin request[h].ids
      BY <1>2, <1>3, <2>1, <2>2, OneRequest DEF PurgeOK
    <2>4. QED
      BY <1>1, <1>2, <2>1, <2>2, <2>3, UploadBy
  <1>14. QED
    BY <1>4, <1>5, <1>6, <1>7, <1>8, <1>9, <1>10, <1>11, <1>12, <1>13 DEF Serving

\* As long as no thread is killed: an upload killed between its steps leaves a blob
\* without a record.
LEMMA UploadNext ==
    ASSUME SerialInv, UploadInv, Exclusive, MaxCrashes = 0, [Next]_vars
    PROVE  UploadInv'
  <1>1. ~Crash
    BY DEF Crash, UploadInv
  <1>2. CASE \E h \in Handlers : Serving(h)
    BY <1>2, UploadServes
  <1>3. CASE \E p \in Passes : Enriching(p)
    <2>1. UNCHANGED <<request, raw, blob, crashes>>
      BY <1>3 DEF Enriching, ListPending, EndPass, Take, Abandon, ReadInput, Wait, OverQuota,
                  Call, RecordFailure, Save, SaveMisses, Clear, Mint, tables, limits
    <2>2. QED
      BY <2>1, UploadStill
  <1>4. CASE \/ \E d \in Digest : Resume(d) \/ Age(d)
             \/ StartPass \/ \E p \in Admins, o \in Orgs : AdminRun(p, o)
             \/ UNCHANGED vars
    <2>1. UNCHANGED <<request, raw, blob, crashes>>
      BY <1>4 DEF Resume, Age, StartPass, AdminRun, tables, limits, vars
    <2>2. QED
      BY <2>1, UploadStill
  <1>5. QED
    BY <1>1, <1>2, <1>3, <1>4 DEF Next

LEMMA UploadInit == Init => UploadInv
  BY DEF Init, UploadInv, PurgeOK, BlobHasRecord, RequestIdle

-----------------------------------------------------------------------------
\* Giving up

\* Attempts are calls; what waits or is given up on uncalled has no transcript, unless
\* its upload has still to be recorded.
Tried(d) ==
    /\ progress[d].state = "none" => progress[d] = NoProgress
    /\ progress[d].attempts > 0 \/ progress[d].state = "failed" => d \in called
    /\ progress[d].state \in {"waiting", "abandoned"} /\ d \notin called /\ HasTurns(d) => Recording(d)

\* What a pass has decided still holds when it acts on it.
Decided(j) ==
    /\ j.pc = "abandon" => GivesUp(j.cur.id)
    /\ j.pc = "wait" => ~HasTurns(j.cur.id)
    /\ j.pc = "failed" => j.cur.id \in called

InputInv ==
    /\ \A d \in Digest : Tried(d)
    /\ \A p \in Passes : Decided(pass[p])

LEMMA InputInit == Init => InputInv
  BY DEF Init, InputInv, Tried, Decided, NoProgress, PassIdle

\* Progress is forgotten only, and a transcript that turns up is being recorded.
LEMMA TriedStill ==
    ASSUME NEW d \in Digest, Tried(d), progress'[d] \in {progress[d], NoProgress}, called \subseteq called',
           progress'[d].state \in {"waiting", "abandoned"} /\ HasTurns(d)'
               => Recording(d)' \/ (HasTurns(d) /\ ~Recording(d))
    PROVE  Tried(d)'
  <1>1. CASE progress'[d] = NoProgress
    BY <1>1 DEF Tried, NoProgress
  <1>2. CASE progress'[d] = progress[d]
    BY <1>2 DEF Tried
  <1>3. QED
    BY <1>1, <1>2

\* A request serves, or arrives in quiet.
LEMMA AtWork ==
    ASSUME Exclusive, NEW h \in Handlers, Serving(h)
    PROVE  /\ request[h] # RequestIdle \/ Quiet
           /\ ~RecordRaw(h) => request[h].pc # "record"
  <1>1. CASE Merge(h) \/ PutBlob(h) \/ RecordRaw(h) \/ ReadKeys(h) \/ DeleteBlobs(h) \/ BlobsRefused(h) \/ DeleteRows(h)
    BY <1>1 DEF Merge, PutBlob, RecordRaw, ReadKeys, DeleteBlobs, BlobsRefused, DeleteRows, RequestIdle
  <1>2. CASE Arrives(h)
    BY <1>2 DEF Arrives, RequestIdle
  <1>3. QED
    BY <1>1, <1>2 DEF Serving, Ingest, Upload, Purge, Retry

\* While a pass is at work no request is, nor is another pass.
LEMMA OnePass ==
    ASSUME SerialInv, NEW p \in Passes, pass[p] # PassIdle \/ Quiet
    PROVE  /\ \A d : ~Recording(d)
           /\ \A q \in Passes : q # p => pass[q] = PassIdle
  BY DEF SerialInv, Alone, Quiet, Recording, RequestIdle

LEMMA InputBy ==
    ASSUME SerialInv, InputInv, NEW p \in Passes, pass[p] # PassIdle \/ Quiet,
           NEW j, Become(p, j), Decided(j)', \A d \in Digest : Tried(d)'
    PROVE  InputInv'
  <1>1. pass'[p] = j /\ \A q \in Passes : q # p => pass'[q] = PassIdle
    BY OnePass DEF SerialInv, Types, Become
  <1>2. \A q \in Passes : Decided(pass[q])'
    BY <1>1 DEF Decided, PassIdle
  <1>3. QED
    BY <1>2 DEF InputInv

LEMMA InputServes ==
    ASSUME SerialInv, InputInv, Exclusive, NEW h \in Handlers, Serving(h)
    PROVE  InputInv'
  <1>1. pass' = pass /\ called' = called
    BY DEF Serving, Merge, PutBlob, RecordRaw, ReadKeys, DeleteBlobs, BlobsRefused, DeleteRows,
           Ingest, Upload, Purge, Retry
  <1>2. \A p \in Passes : pass[p] = PassIdle
    BY AtWork DEF Quiet, SerialInv, Alone
  <1>3. \A p \in Passes : Decided(pass[p])'
    BY <1>1, <1>2 DEF Decided, PassIdle
  <1>4. \A d \in Digest : Tried(d)
    BY DEF InputInv
  <1>5. CASE PutBlob(h)
    <2>1. request[h].pc = "put" /\ raw' = raw /\ blob' = blob \cup {request[h].id} /\ progress' = progress
      BY <1>5 DEF PutBlob
    <2>2. request[h] # RequestIdle /\ request[h] \in Request
      BY <2>1, RequestAt DEF RequestIdle
    <2>3. PICK r : r = [request[h] EXCEPT !.pc = "record"]
      OBVIOUS
    <2>4. r.pc = "record" /\ r.id = request[h].id /\ Serve(h, r)
      BY <1>5, <2>1, <2>2, <2>3 DEF PutBlob, Request
    <2>5. \A d \in Digest : HasTurns(d)' => Recording(d)' \/ (HasTurns(d) /\ ~Recording(d))
      BY <2>1, <2>2, <2>4, OneRequest DEF HasTurns
    <2>6. \A d \in Digest : Tried(d)'
      BY <1>1, <1>4, <2>1, <2>5, TriedStill
    <2>7. QED
      BY <1>3, <2>6 DEF InputInv
  <1>6. CASE RecordRaw(h)
    <2>1. PICK id : id = request[h].id
      OBVIOUS
    <2>2. /\ request[h].pc = "record" /\ request[h] # RequestIdle /\ Serve(h, RequestIdle)
          /\ raw' = raw \cup {id} /\ blob' = blob
          /\ Forget({id} \cap {e \in Digest : progress[e].state \in {"waiting", "abandoned"}})
      BY <1>6, <2>1 DEF RecordRaw, Reply, RequestIdle
    <2>3. \A d \in Digest : d # id => ~Recording(d) /\ (HasTurns(d)' => HasTurns(d))
      BY <2>1, <2>2, OneRequest DEF HasTurns
    <2>4. \A d \in Digest : progress'[d] = IF d = id /\ progress[d].state \in {"waiting", "abandoned"}
                                           THEN NoProgress ELSE progress[d]
      BY <2>2, ForgetAt DEF SerialInv
    <2>5. progress'[id].state \notin {"waiting", "abandoned"} \/ id \notin Digest
      BY <2>4 DEF NoProgress
    <2>6. \A d \in Digest : Tried(d)'
      BY <1>1, <1>4, <2>3, <2>4, <2>5, TriedStill
    <2>7. QED
      BY <1>3, <2>6 DEF InputInv
  <1>7. CASE ~PutBlob(h) /\ ~RecordRaw(h)
    <2>1. \A d \in Digest : progress'[d] \in {progress[d], NoProgress}
      <3>1. progress' = progress \/ \E S : Forget(S)
        BY <1>7 DEF Serving, Merge, ReadKeys, DeleteBlobs, BlobsRefused, DeleteRows,
                    Ingest, Upload, Purge, Retry, tables
      <3>2. QED
        BY <3>1, ForgetAt DEF SerialInv
    <2>2. raw' \subseteq raw /\ blob' \subseteq blob
      BY <1>7 DEF Serving, Merge, ReadKeys, DeleteBlobs, BlobsRefused, DeleteRows,
                  Ingest, Upload, Purge, Retry, tables
    <2>3. \A d : ~Recording(d)
      <3>1. request[h].pc # "record"
        BY <1>7, AtWork
      <3>2. request[h] # RequestIdle \/ Quiet
        BY AtWork
      <3>3. \A g \in Handlers : g # h => request[g] = RequestIdle
        BY <3>2 DEF SerialInv, Alone, Quiet
      <3>4. QED
        BY <3>1, <3>3 DEF Recording, RequestIdle
    <2>4. \A d \in Digest : HasTurns(d)' => HasTurns(d)
      BY <2>2 DEF HasTurns
    <2>5. \A d \in Digest : Tried(d)'
      BY <1>1, <1>4, <2>1, <2>3, <2>4, TriedStill
    <2>6. QED
      BY <1>3, <2>5 DEF InputInv
  <1>8. QED
    BY <1>5, <1>6, <1>7

\* What a step of a pass writes about the digest in hand.
LEMMA TriedWrites ==
    ASSUME SerialInv, NEW p \in Passes, pass[p] # PassIdle, \A d \in Digest : Tried(d),
           NEW d \in Digest, NEW st \in {"waiting", "failed", "abandoned"}, NEW a \in Nat, NEW o \in BOOLEAN,
           SetProgress(d, st, a, o), UNCHANGED <<request, raw, blob, called>>,
           a > 0 \/ st = "failed" => d \in called,
           st \in {"waiting", "abandoned"} => d \in called \/ ~HasTurns(d)
    PROVE  \A e \in Digest : Tried(e)'
  <1>1. progress'[d] = [state |-> st, attempts |-> a, old |-> o]
    BY DEF SetProgress, SerialInv, Types
  <1>2. \A e \in Digest : e # d => progress'[e] = progress[e]
    BY SetProgressAt DEF SerialInv
  <1>3. \A e : (HasTurns(e)' <=> HasTurns(e)) /\ ~Recording(e) /\ (Recording(e)' <=> Recording(e))
    BY OnePass DEF HasTurns, Recording
  <1>4. Tried(d)'
    BY <1>1, <1>3 DEF Tried
  <1>5. \A e \in Digest : e # d => Tried(e)'
    BY <1>2, <1>3, TriedStill
  <1>6. QED
    BY <1>4, <1>5

LEMMA InputEnriches ==
    ASSUME SerialInv, InputInv, Exclusive, ~FaultyBlobs, NEW p \in Passes, Enriching(p)
    PROVE  InputInv'
  <1>1. UNCHANGED <<request, raw, blob>> /\ called \subseteq called'
    BY DEF Enriching, ListPending, EndPass, Take, Abandon, ReadInput, Wait, OverQuota,
           Call, RecordFailure, Save, SaveMisses, Clear, Mint, tables, limits
  <1>2. pass[p].pc # "idle" /\ pass[p] # PassIdle
    BY DEF Enriching, ListPending, EndPass, Take, Abandon, ReadInput, Wait, OverQuota,
           Call, RecordFailure, Save, SaveMisses, Clear, Mint, At, PassIdle
  <1>3. (\A d \in Digest : Tried(d)) /\ Decided(pass[p])
    BY DEF InputInv
  <1>4. \A d : (HasTurns(d)' <=> HasTurns(d)) /\ ~Recording(d) /\ (Recording(d)' <=> Recording(d))
    BY <1>1, <1>2, OnePass DEF HasTurns, Recording
  <1>5. ASSUME \A d \in Digest : progress'[d] \in {progress[d], NoProgress}
        PROVE  \A d \in Digest : Tried(d)'
    BY <1>1, <1>3, <1>4, <1>5, TriedStill
  <1>6. \A orgs, budget, todo : Decided(Loops(orgs, budget, todo))' /\ Decided(PassIdle)'
    BY DEF Decided, Loops, PassIdle
  <1>7. pass[p].pc # "next" => /\ pass[p] \in Working /\ Cur(p) \in Digest /\ Cur(p) = pass[p].cur.id
                               /\ progress[Cur(p)] \in Progress
    BY <1>2, JobAt DEF Cur, SerialInv, Types
  <1>8. CASE ListPending(p) \/ EndPass(p) \/ OverQuota(p) \/ SaveMisses(p) \/ Mint(p)
    <2>1. progress' = progress
      BY <1>8 DEF ListPending, EndPass, OverQuota, SaveMisses, Mint, tables
    <2>2. PICK j : Become(p, j) /\ Decided(j)'
      BY <1>6, <1>8 DEF ListPending, EndPass, OverQuota, SaveMisses, Mint, Proceed
    <2>3. QED
      BY <1>2, <1>5, <2>1, <2>2, InputBy
  <1>9. CASE Take(p)
    <2>1. progress' = progress
      BY <1>9 DEF Take, tables
    <2>2. PICK c : Become(p, [pc |-> IF GivesUp(c.id) THEN "abandon" ELSE "input",
                              orgs |-> pass[p].orgs, budget |-> pass[p].budget,
                              todo |-> pass[p].todo \ {c}, cur |-> c])
      BY <1>9 DEF Take
    <2>3. PICK j : j = [pc |-> IF GivesUp(c.id) THEN "abandon" ELSE "input",
                        orgs |-> pass[p].orgs, budget |-> pass[p].budget,
                        todo |-> pass[p].todo \ {c}, cur |-> c]
      OBVIOUS
    <2>4. Become(p, j) /\ Decided(j)'
      BY <2>1, <2>2, <2>3 DEF Decided, GivesUp
    <2>5. QED
      BY <1>2, <1>5, <2>1, <2>4, InputBy
  <1>10. CASE ReadInput(p) \/ Call(p, "save") \/ Call(p, "failed") \/ Save(p)
    <2>1. progress' = progress /\ pass[p] \in Working
      BY <1>7, <1>10 DEF ReadInput, Call, Save, At, tables
    <2>2. PICK label : Goto(p, label) /\ \/ label = "wait" /\ ~HasTurns(Cur(p))
                                         \/ label = "failed" /\ Cur(p) \in called'
                                         \/ label \in {"call", "save", "clear"}
      BY <1>10 DEF ReadInput, Call, Save
    <2>3. PICK j : j = [pass[p] EXCEPT !.pc = label]
      OBVIOUS
    <2>4. j.pc = label /\ j.cur.id = Cur(p) /\ Become(p, j)
      BY <2>1, <2>2, <2>3 DEF Working, Goto, Cur
    <2>5. Decided(j)'
      BY <1>4, <2>2, <2>4 DEF Decided
    <2>6. QED
      BY <1>2, <1>5, <2>1, <2>4, <2>5, InputBy
  <1>11. CASE Clear(p)
    <2>1. /\ Forget({Cur(p)}) /\ pass[p] \in Working
      BY <1>7, <1>11 DEF Clear, At
    <2>2. \A d \in Digest : progress'[d] \in {progress[d], NoProgress}
      BY <2>1, ForgetAt DEF SerialInv
    <2>3. PICK j : Become(p, j) /\ Decided(j)'
      <3>1. CASE Proceed(p, 1)
        BY <1>6, <3>1 DEF Proceed
      <3>2. CASE Goto(p, "mint")
        <4>1. PICK j : j = [pass[p] EXCEPT !.pc = "mint"]
          OBVIOUS
        <4>2. j.pc = "mint" /\ Become(p, j)
          BY <2>1, <3>2, <4>1 DEF Goto, Working
        <4>3. Decided(j)'
          BY <4>2 DEF Decided
        <4>4. QED
          BY <4>2, <4>3
      <3>3. QED
        BY <1>11, <3>1, <3>2 DEF Clear
    <2>4. QED
      BY <1>2, <1>5, <2>2, <2>3, InputBy
  <1>12. CASE Abandon(p) \/ Wait(p) \/ RecordFailure(p)
    <2>1. pass[p].pc # "next" /\ called' = called
      BY <1>12 DEF Abandon, Wait, RecordFailure, At
    <2>2. PICK d : d = Cur(p)
      OBVIOUS
    <2>3. d \in Digest /\ Tried(d) /\ ~Recording(d) /\ d = pass[p].cur.id
      BY <1>3, <1>4, <1>7, <2>1, <2>2
    <2>4. progress[d].attempts \in Nat /\ progress[d].old \in BOOLEAN
      BY <1>7, <2>1, <2>2 DEF Progress
    <2>5. PICK j : Become(p, j) /\ Decided(j)'
      BY <1>6, <1>12 DEF Abandon, Wait, RecordFailure, Proceed
    <2>6. CASE Abandon(p)
      <3>1. GivesUp(d)
        BY <1>3, <2>3, <2>6 DEF Decided, Abandon, At
      <3>2. progress[d] # NoProgress /\ progress[d].state \in {"waiting", "failed", "abandoned"}
        <4>1. NoProgress.attempts = 0 /\ ~NoProgress.old
          BY DEF NoProgress
        <4>2. progress[d] # NoProgress
          BY <3>1, <4>1 DEF GivesUp
        <4>3. progress[d].state \in {"none", "waiting", "failed", "abandoned"}
          BY <1>7, <2>1, <2>2 DEF Progress
        <4>4. QED
          BY <2>3, <4>2, <4>3 DEF Tried
      <3>3. SetProgress(d, "abandoned", progress[d].attempts, progress[d].old)
        BY <2>2, <2>6, <3>2 DEF Abandon
      <3>4. d \in called \/ ~HasTurns(d)
        BY <2>3, <3>2 DEF Tried
      <3>5. progress[d].attempts > 0 => d \in called
        BY <2>3 DEF Tried
      <3>6. \A e \in Digest : Tried(e)'
        BY <1>1, <1>2, <1>3, <2>1, <2>3, <2>4, <3>3, <3>4, <3>5, TriedWrites
      <3>7. QED
        BY <1>2, <2>5, <3>6, InputBy
    <2>7. CASE Wait(p)
      <3>1. ~HasTurns(d)
        BY <1>3, <2>3, <2>7 DEF Decided, Wait, At
      <3>2. SetProgress(d, "waiting", progress[d].attempts, progress[d].old)
        <4>1. SetProgress(d, "waiting", progress[d].attempts + 0, progress[d].old)
          BY <2>2, <2>7 DEF Wait, RecordAttempt
        <4>2. progress[d].attempts + 0 = progress[d].attempts
          BY <2>4
        <4>3. QED
          BY <4>1, <4>2
      <3>3. progress[d].attempts > 0 => d \in called
        BY <2>3 DEF Tried
      <3>4. \A e \in Digest : Tried(e)'
        BY <1>1, <1>2, <1>3, <2>1, <2>3, <2>4, <3>1, <3>2, <3>3, TriedWrites
      <3>5. QED
        BY <1>2, <2>5, <3>4, InputBy
    <2>8. CASE RecordFailure(p)
      <3>1. d \in called
        BY <1>3, <2>3, <2>8 DEF Decided, RecordFailure, At
      <3>2. SetProgress(d, "failed", progress[d].attempts + 1, progress[d].old)
        BY <2>2, <2>8 DEF RecordFailure, RecordAttempt
      <3>3. progress[d].attempts + 1 \in Nat
        BY <2>4
      <3>4. \A e \in Digest : Tried(e)'
        BY <1>1, <1>2, <1>3, <2>1, <2>3, <2>4, <3>1, <3>2, <3>3, TriedWrites
      <3>5. QED
        BY <1>2, <2>5, <3>4, InputBy
    <2>9. QED
      BY <1>12, <2>6, <2>7, <2>8
  <1>13. QED
    BY <1>8, <1>9, <1>10, <1>11, <1>12 DEF Enriching

LEMMA InputNext ==
    ASSUME SerialInv, InputInv, crashes \in Nat, Exclusive, ~FaultyBlobs, MaxCrashes = 0, [Next]_vars
    PROVE  InputInv'
  <1>1. ~Crash
    BY DEF Crash
  <1>2. CASE \E h \in Handlers : Serving(h)
    BY <1>2, InputServes
  <1>3. CASE \E p \in Passes : Enriching(p)
    BY <1>3, InputEnriches
  <1>4. CASE StartPass \/ \E p \in Admins, o \in Orgs : AdminRun(p, o)
    <2>1. PICK p \in Passes : \E orgs, budget : Begin(p, orgs, budget)
      BY <1>4 DEF StartPass, AdminRun, Passes
    <2>2. PICK orgs, budget : Begin(p, orgs, budget)
      BY <2>1
    <2>3. PICK j : j = Loops(orgs, budget, {})
      OBVIOUS
    <2>4. Quiet /\ Become(p, j) /\ Decided(j)'
      BY <2>2, <2>3 DEF Begin, Decided, Loops
    <2>5. UNCHANGED <<request, raw, blob, progress, called>>
      BY <1>4 DEF StartPass, AdminRun, tables
    <2>6. \A d \in Digest : Tried(d)'
      BY <2>5 DEF InputInv, Tried, HasTurns, Recording
    <2>7. QED
      BY <2>4, <2>6, InputBy
  <1>5. CASE \E d \in Digest : Age(d)
    <2>1. PICK d \in Digest : Age(d)
      BY <1>5
    <2>2. UNCHANGED <<pass, request, raw, blob, called>>
      BY <2>1 DEF Age
    <2>3. progress[d] \in Progress /\ Tried(d)
      BY DEF SerialInv, Types, InputInv
    <2>4. /\ progress'[d] = [state |-> progress[d].state, attempts |-> progress[d].attempts, old |-> TRUE]
          /\ \A e \in Digest : e # d => progress'[e] = progress[e]
      BY <2>1 DEF Age, SetProgress, SerialInv, Types
    <2>5. Tried(d)'
      BY <2>1, <2>2, <2>3, <2>4 DEF Tried, HasTurns, Recording, Age, Progress
    <2>6. \A e \in Digest : e # d => Tried(e)'
      BY <2>2, <2>4 DEF InputInv, Tried, HasTurns, Recording
    <2>7. \A e \in Digest : GivesUp(e) => GivesUp(e)'
      BY <2>4 DEF GivesUp
    <2>8. \A p \in Passes : Decided(pass[p])'
      <3>1. SUFFICES ASSUME NEW p \in Passes
                     PROVE  Decided(pass[p])'
        OBVIOUS
      <3>2. pass[p].pc = "abandon" => pass[p].cur.id \in Digest
        BY JobAt DEF Cur
      <3>3. QED
        BY <2>2, <2>7, <3>2 DEF InputInv, Decided, HasTurns
    <2>9. QED
      BY <2>5, <2>6, <2>8 DEF InputInv
  <1>6. CASE (\E d \in Digest : Resume(d)) \/ UNCHANGED vars
    <2>1. UNCHANGED <<pass, request, raw, blob, progress, called>>
      BY <1>6 DEF Resume, vars, tables
    <2>2. QED
      BY <2>1 DEF InputInv, Tried, Decided, GivesUp, HasTurns, Recording
  <1>7. QED
    BY <1>1, <1>2, <1>3, <1>4, <1>5, <1>6 DEF Next

-----------------------------------------------------------------------------
\* Under every interleaving

\* A pass has listed no more digests than its budget still lets it enrich, and a row is
\* one of finitely many.
Sized(j) ==
    /\ j.pc # "idle" => IsFiniteSet(j.todo)
    /\ j.pc = "next" => Cardinality(j.todo) <= j.budget
    /\ j.pc \notin {"idle", "next"} => Cardinality(j.todo) < j.budget

FewRows == IsFiniteSet({d \in Digest : Present(d)})

TypeInv == TypeOK /\ FewRows /\ \A p \in Passes : Sized(pass[p])

\* What TypeInv says of the tables.
Tables ==
    /\ agent \in [Digest -> [turns : Nat, summary : BOOLEAN]]
    /\ row \in [Digest -> Row] /\ FewRows
    /\ raw \in SUBSET Digest /\ blob \in SUBSET Digest /\ note \in SUBSET Digest
    /\ progress \in [Digest -> Progress]
    /\ retired \in SUBSET (Digest \X Digest)
    /\ requests \in Nat /\ crashes \in Nat
    /\ called \in SUBSET Digest

LEMMA TypeParts ==
    TypeInv <=> /\ Tables
                /\ pass \in [Passes -> Pass \cup {PassIdle}]
                /\ request \in [Handlers -> Request \cup {RequestIdle}]
                /\ \A p \in Passes : Sized(pass[p])
  BY DEF TypeInv, TypeOK, Tables

LEMMA TypeInit == Init => TypeInv
  <1> SUFFICES ASSUME Init
               PROVE  TypeInv
    OBVIOUS
  <1>1. {d \in Digest : Present(d)} = {}
    BY DEF Init, Present
  <1>2. FewRows
    BY <1>1, FS_EmptySet DEF FewRows
  <1>3. Tables
    BY <1>2, RowFacts DEF Init, Tables
  <1>4. \A p \in Passes : Sized(pass[p])
    BY DEF Init, Sized, PassIdle
  <1>5. QED
    BY <1>3, <1>4, TypeParts DEF Init

LEMMA PassAt ==
    ASSUME TypeInv, NEW p \in Passes, pass[p].pc # "idle"
    PROVE  /\ pass[p] \in Pass /\ pass[p] # PassIdle
           /\ pass[p].orgs \in SUBSET Orgs /\ pass[p].budget \in Nat /\ pass[p].todo \in SUBSET Listed
           /\ IsFiniteSet(pass[p].todo) /\ Cardinality(pass[p].todo) \in Nat
           /\ Cardinality(pass[p].todo) <= pass[p].budget
           /\ pass[p].pc # "next" => /\ Cardinality(pass[p].todo) < pass[p].budget
                                     /\ pass[p].cur \in Listed /\ Cur(p) \in Digest
                                     /\ pass[p].cur.row \in Row
  <1>1. pass[p] \in Pass /\ pass[p] # PassIdle /\ Sized(pass[p])
    BY DEF TypeInv, TypeOK, PassIdle
  <1>2. pass[p].orgs \in SUBSET Orgs /\ pass[p].budget \in Nat /\ pass[p].todo \in SUBSET Listed
    BY <1>1 DEF Pass
  <1>3. pass[p].pc # "next" => pass[p].cur \in Listed
    BY <1>1 DEF Pass
  <1>4. pass[p].pc # "next" => pass[p].cur.id \in Digest /\ pass[p].cur.row \in Row
    BY <1>3 DEF Listed
  <1>5. IsFiniteSet(pass[p].todo) /\ Cardinality(pass[p].todo) \in Nat
    BY <1>1, FS_CardinalityType DEF Sized
  <1>6. QED
    BY <1>1, <1>2, <1>3, <1>4, <1>5 DEF Sized, Cur

\* A step of a pass, and one of a request.
LEMMA PassTyped ==
    ASSUME TypeInv, NEW p \in Passes, NEW j \in Pass \cup {PassIdle}, Sized(j), Become(p, j),
           Tables', request' = request
    PROVE  TypeInv'
  <1>1. /\ pass \in [Passes -> Pass \cup {PassIdle}]
        /\ request \in [Handlers -> Request \cup {RequestIdle}]
        /\ \A q \in Passes : Sized(pass[q])
    BY TypeParts
  <1>2. pass' \in [Passes -> Pass \cup {PassIdle}]
    BY <1>1 DEF Become
  <1>3. \A q \in Passes : Sized(pass'[q])
    BY <1>1 DEF Become
  <1>4. (\A q \in Passes : Sized(pass[q]))'
    BY <1>3
  <1>5. QED
    BY <1>1, <1>2, <1>4 DEF TypeInv, TypeOK, Tables

LEMMA RequestTyped ==
    ASSUME TypeInv, NEW h \in Handlers, NEW r \in Request \cup {RequestIdle}, Serve(h, r),
           Tables', pass' = pass
    PROVE  TypeInv'
  <1>1. /\ pass \in [Passes -> Pass \cup {PassIdle}]
        /\ request \in [Handlers -> Request \cup {RequestIdle}]
        /\ \A q \in Passes : Sized(pass[q])
    BY TypeParts
  <1>2. request' \in [Handlers -> Request \cup {RequestIdle}]
    BY <1>1 DEF Serve
  <1>3. (\A q \in Passes : Sized(pass[q]))'
    BY <1>1
  <1>4. QED
    BY <1>1, <1>2, <1>3 DEF TypeInv, TypeOK, Tables

LEMMA StillTyped ==
    ASSUME Tables, UNCHANGED tables, agent' = agent, requests' \in Nat, crashes' \in Nat,
           called' \in SUBSET Digest
    PROVE  Tables'
  BY DEF Tables, FewRows, Present, tables

\* The pass goes on looping, its list no longer than its budget.
LEMMA LoopsTyped ==
    ASSUME TypeInv, NEW p \in Passes, NEW orgs \in SUBSET Orgs, NEW budget \in Nat,
           NEW todo \in SUBSET Listed, IsFiniteSet(todo), Cardinality(todo) <= budget,
           Become(p, Loops(orgs, budget, todo)), Tables', request' = request
    PROVE  TypeInv'
  <1>1. PICK j : j = Loops(orgs, budget, todo)
    OBVIOUS
  <1>2. j \in Pass /\ j.pc = "next" /\ j.budget = budget /\ j.todo = todo
    BY <1>1 DEF Loops, Pass
  <1>3. Sized(j)
    BY <1>2 DEF Sized
  <1>4. Become(p, j)
    BY <1>1
  <1>5. QED
    BY <1>2, <1>3, <1>4, PassTyped

LEMMA ProceedTyped ==
    ASSUME TypeInv, NEW p \in Passes, pass[p].pc \notin {"idle", "next"}, NEW n \in {0, 1}, Proceed(p, n),
           Tables', request' = request
    PROVE  TypeInv'
  <1>1. PICK orgs, budget, todo : orgs = pass[p].orgs /\ budget = pass[p].budget - n /\ todo = pass[p].todo
    OBVIOUS
  <1>2. /\ orgs \in SUBSET Orgs /\ todo \in SUBSET Listed /\ IsFiniteSet(todo)
        /\ budget \in Nat /\ Cardinality(todo) <= budget
    BY <1>1, PassAt
  <1>3. Become(p, Loops(orgs, budget, todo))
    BY <1>1 DEF Proceed
  <1>4. QED
    BY <1>2, <1>3, LoopsTyped

LEMMA GotoTyped ==
    ASSUME TypeInv, NEW p \in Passes, pass[p].pc \notin {"idle", "next"},
           NEW label \in Reading \cup Written, Goto(p, label), Tables', request' = request
    PROVE  TypeInv'
  <1>1. PICK j : j = [pass[p] EXCEPT !.pc = label]
    OBVIOUS
  <1>2. pass[p] \in Pass
    BY PassAt
  <1>3. j \in Pass /\ j.pc = label /\ j.todo = pass[p].todo /\ j.budget = pass[p].budget
    BY <1>1, <1>2 DEF Pass, Reading, Written
  <1>4. Sized(j)
    BY <1>3, PassAt DEF Sized, Reading, Written
  <1>5. Become(p, j)
    BY <1>1 DEF Goto
  <1>6. QED
    BY <1>3, <1>4, <1>5, PassTyped

LEMMA DigestPair == \A d \in Digest : \E r \in Ranks : d = <<Org(d), r>>
  <1>1. ASSUME NEW d \in Orgs \X Ranks
        PROVE  \E r \in Ranks : d = <<d[1], r>>
    <2>1. d[2] \in Ranks /\ d = <<d[1], d[2]>>
      OBVIOUS
    <2>2. QED
      BY <2>1
  <1>2. QED
    BY <1>1 DEF Digest, Org

\* The n newest of an org's digests are at most n: each has another number above it.
LEMMA NewestFew ==
    ASSUME NEW o, NEW S \in SUBSET {d \in Digest : Org(d) = o}, IsFiniteSet(S), NEW n \in Nat
    PROVE  /\ Newest(S, n) \subseteq S
           /\ IsFiniteSet(Newest(S, n)) /\ Cardinality(Newest(S, n)) <= n
  <1> DEFINE Above(d) == {e \in S : Rank(e) > Rank(d)}
             N == Newest(S, n)
             f == [d \in N |-> Cardinality(Above(d))]
  <1>1. N \subseteq S /\ \A d \in N : Cardinality(Above(d)) < n
    BY DEF Newest
  <1>2. \A d \in S : IsFiniteSet(Above(d)) /\ Cardinality(Above(d)) \in Nat
    BY FS_Subset, FS_CardinalityType
  <1>3. f \in [N -> 0 .. n - 1]
    <2>1. \A d \in N : Cardinality(Above(d)) \in 0 .. n - 1
      <3> HIDE DEF Above, N
      <3>1. QED
        BY <1>1, <1>2
    <2> HIDE DEF Above, N
    <2>2. QED
      BY <2>1
  <1>4. ASSUME NEW d \in S, NEW e \in S, Rank(e) > Rank(d)
        PROVE  Cardinality(Above(e)) < Cardinality(Above(d))
    <2>1. Rank(d) \in Nat /\ Rank(e) \in Nat /\ \A x \in S : Rank(x) \in Nat
      BY DEF Digest, Rank
    <2>2. Above(e) \subseteq Above(d)
      BY <1>4, <2>1
    <2>3. e \in Above(d) /\ e \notin Above(e)
      BY <1>4, <2>1
    <2>4. Above(e) # Above(d)
      BY <2>3
    <2> HIDE DEF Above
    <2>5. QED
      BY <1>2, <2>2, <2>4, FS_Subset
  <1>5. \A d, e \in N : d # e => f[d] # f[e]
    <2>1. SUFFICES ASSUME NEW d \in N, NEW e \in N, d # e
                   PROVE  f[d] # f[e]
      OBVIOUS
    <2>2. d \in S /\ e \in S
      BY <1>1
    <2>3. Rank(d) > Rank(e) \/ Rank(e) > Rank(d)
      <3>1. \A x \in S : \E r \in Ranks : x = <<o, r>>
        BY DigestPair
      <3>2. PICK r \in Ranks, s \in Ranks : d = <<o, r>> /\ e = <<o, s>>
        BY <2>2, <3>1
      <3>3. r # s /\ r \in Nat /\ s \in Nat
        BY <2>1, <3>2
      <3>4. QED
        BY <3>2, <3>3 DEF Rank
    <2>4. Cardinality(Above(d)) \in Nat /\ Cardinality(Above(e)) \in Nat
      BY <1>2, <2>2
    <2>5. Cardinality(Above(d)) # Cardinality(Above(e))
      <3> HIDE DEF Above
      <3>1. QED
        BY <1>4, <2>2, <2>3, <2>4
    <2>6. QED
      BY <2>5
  <1> HIDE DEF f
  <1>6. f \in Injection(N, 0 .. n - 1)
    BY <1>3, <1>5 DEF Injection, IsInjective
  <1>7. IsFiniteSet(0 .. n - 1) /\ Cardinality(0 .. n - 1) = n
    BY FS_Interval
  <1>8. QED
    BY <1>1, <1>6, <1>7, FS_Injection

\* Rows are added one at a time.
LEMMA RowTyped ==
    ASSUME Tables, NEW d, row' \in [Digest -> Row], \A e \in Digest : e # d => row'[e] = NoRow \/ row'[e] = row[e],
           UNCHANGED <<agent, raw, blob, note, progress, retired, requests, crashes, called>>
    PROVE  Tables'
  <1>1. {e \in Digest : row'[e] # NoRow} \subseteq {e \in Digest : row[e] # NoRow} \cup {d}
    OBVIOUS
  <1>2. IsFiniteSet({e \in Digest : row[e] # NoRow} \cup {d})
    BY FS_AddElement DEF Tables, FewRows, Present
  <1>3. IsFiniteSet({e \in Digest : row'[e] # NoRow})
    BY <1>1, <1>2, FS_Subset
  <1>4. FewRows'
    BY <1>3 DEF FewRows, Present
  <1>5. QED
    BY <1>4 DEF Tables

LEMMA ForgetTyped ==
    ASSUME Tables, NEW S, Forget(S)
    PROVE  progress' \in [Digest -> Progress] /\ retired' \in SUBSET (Digest \X Digest)
  BY RowFacts DEF Tables, Forget, Others

LEMMA RequestAtTyped ==
    ASSUME TypeInv, NEW h \in Handlers, request[h].pc # "idle"
    PROVE  request[h] \in Request
  BY DEF TypeInv, TypeOK, RequestIdle

LEMMA ServingTyped ==
    ASSUME TypeInv, NEW h \in Handlers, Serving(h)
    PROVE  TypeInv'
  <1>1. Tables
    BY TypeParts
  <1>2. RequestIdle \in Request \cup {RequestIdle}
    OBVIOUS
  <1>3. CASE \E d \in Digest : Ingest(h, d) \/ Upload(h, d)
    <2>1. PICK d \in Digest : Ingest(h, d) \/ Upload(h, d)
      BY <1>3
    <2>2. row[d] \in Row /\ agent[d].turns \in Nat /\ agent[d].summary \in BOOLEAN
      BY <1>1 DEF Tables
    <2>3. PICK r \in Request : Serve(h, r)
      <3>1. CASE Ingest(h, d)
        <4>1. [pc |-> "merge", id |-> d, read |-> row[d],
               push |-> [source |-> "pending", turns |-> agent[d].turns, summary |-> agent[d].summary]] \in Request
          BY <2>2 DEF Request, Row
        <4>2. QED
          BY <3>1, <4>1 DEF Ingest
      <3>2. CASE Upload(h, d)
        <4>1. [pc |-> "put", id |-> d] \in Request
          BY DEF Request
        <4>2. QED
          BY <3>2, <4>1 DEF Upload
      <3>3. QED
        BY <2>1, <3>1, <3>2
    <2>4. Tables'
      BY <1>1, <2>1, StillTyped DEF Ingest, Upload, Arrives, Tables
    <2>5. QED
      BY <2>1, <2>3, <2>4, RequestTyped DEF Ingest, Upload
  <1>4. CASE \E S \in SUBSET Digest : Purge(h, S)
    <2>1. PICK S \in SUBSET Digest : Purge(h, S)
      BY <1>4
    <2>2. [pc |-> "keys", ids |-> S, keys |-> {}] \in Request
      BY DEF Request
    <2>3. Tables'
      BY <1>1, <2>1, StillTyped DEF Purge, Arrives, Tables
    <2>4. QED
      BY <2>1, <2>2, <2>3, RequestTyped DEF Purge
  <1>5. CASE \E S \in SUBSET Digest : \E b \in BOOLEAN : Retry(h, S, b)
    <2>1. PICK S \in SUBSET Digest : UNCHANGED <<agent, row, raw, blob, note, pass, request, crashes, called>>
                                     /\ Forget(S) /\ requests' = requests + 1
      BY <1>5 DEF Retry, Arrives
    <2>2. Tables'
      BY <1>1, <2>1, ForgetTyped DEF Tables, FewRows, Present
    <2>3. QED
      BY <2>1, <2>2 DEF TypeInv, TypeOK, Tables
  <1>6. CASE Merge(h)
    <2>1. request[h] \in Request /\ request[h].pc = "merge"
      BY <1>6, RequestAtTyped DEF Merge
    <2>2. request[h].read \in Row /\ request[h].push \in Row /\ request[h].id \in Digest
      BY <2>1 DEF Request
    <2>3. \A s, i \in Row : Merged(s, i) \in Row
      BY DEF Merged, Row
    <2>4. PICK m \in Row : row' = row \/ row' = [row EXCEPT ![request[h].id] = m]
      BY <1>6, <2>2, <2>3 DEF Merge
    <2>5. /\ row' \in [Digest -> Row]
          /\ \A e \in Digest : e # request[h].id => row'[e] = row[e]
      BY <1>1, <2>4 DEF Tables
    <2>6. UNCHANGED <<agent, raw, blob, note, progress, retired, requests, crashes, called>> /\ pass' = pass
      BY <1>6 DEF Merge, limits
    <2>7. Tables'
      BY <1>1, <2>5, <2>6, RowTyped
    <2>8. QED
      BY <1>2, <1>6, <2>6, <2>7, RequestTyped DEF Merge, Reply
  <1>7. CASE PutBlob(h) \/ ReadKeys(h) \/ DeleteBlobs(h)
    <2>1. request[h] \in Request /\ request[h].pc \in {"put", "keys", "blobs"}
      BY <1>7, RequestAtTyped DEF PutBlob, ReadKeys, DeleteBlobs
    <2>2. PICK r \in Request : Serve(h, r)
      <3>1. CASE PutBlob(h)
        <4>1. [request[h] EXCEPT !.pc = "record"] \in Request
          BY <2>1, <3>1 DEF PutBlob, Request
        <4>2. QED
          BY <3>1, <4>1 DEF PutBlob
      <3>2. CASE ReadKeys(h)
        <4>1. [request[h] EXCEPT !.pc = "blobs", !.keys = request[h].ids \cap raw] \in Request
          BY <2>1, <3>2 DEF ReadKeys, Request
        <4>2. QED
          BY <3>2, <4>1 DEF ReadKeys
      <3>3. CASE DeleteBlobs(h)
        <4>1. [request[h] EXCEPT !.pc = "rows"] \in Request
          BY <2>1, <3>3 DEF DeleteBlobs, Request
        <4>2. QED
          BY <3>3, <4>1 DEF DeleteBlobs
      <3>4. QED
        BY <1>7, <3>1, <3>2, <3>3
    <2>3. blob' \in SUBSET Digest
      <3>1. request[h].pc = "put" => request[h].id \in Digest
        BY <2>1 DEF Request
      <3>2. QED
        BY <1>1, <1>7, <3>1 DEF PutBlob, ReadKeys, DeleteBlobs, tables, Tables
    <2>4. UNCHANGED <<agent, row, raw, note, progress, retired, requests, crashes, called, pass>>
      BY <1>7 DEF PutBlob, ReadKeys, DeleteBlobs, tables, limits
    <2>5. Tables'
      BY <1>1, <2>3, <2>4 DEF Tables, FewRows, Present
    <2>6. QED
      BY <2>2, <2>4, <2>5, RequestTyped
  <1>8. CASE RecordRaw(h)
    <2>1. request[h] \in Request /\ request[h].pc = "record"
      BY <1>8, RequestAtTyped DEF RecordRaw
    <2>2. request[h].id \in Digest
      BY <2>1 DEF Request
    <2>3. /\ UNCHANGED <<agent, row, blob, note, requests, crashes, called, pass>>
          /\ raw' = raw \cup {request[h].id} /\ \E S : Forget(S)
      BY <1>8 DEF RecordRaw, limits
    <2>4. Tables'
      BY <1>1, <2>2, <2>3, ForgetTyped DEF Tables, FewRows, Present
    <2>5. QED
      BY <1>2, <1>8, <2>3, <2>4, RequestTyped DEF RecordRaw, Reply
  <1>9. CASE BlobsRefused(h)
    <2>1. /\ UNCHANGED <<agent, row, raw, note, progress, retired, requests, crashes, called, pass>>
          /\ blob' \in SUBSET blob
      BY <1>9 DEF BlobsRefused, limits
    <2>2. Tables'
      BY <1>1, <2>1 DEF Tables, FewRows, Present
    <2>3. QED
      BY <1>2, <1>9, <2>1, <2>2, RequestTyped DEF BlobsRefused, Reply
  <1>10. CASE DeleteRows(h)
    <2>1. PICK S : /\ row' = [d \in Digest |-> IF d \in S THEN NoRow ELSE row[d]]
                   /\ raw' = raw \ S /\ note' = note \ S /\ Forget(S)
      BY <1>10 DEF DeleteRows
    <2>2. UNCHANGED <<agent, blob, requests, crashes, called, pass>>
      BY <1>10 DEF DeleteRows, limits
    <2>3. row' \in [Digest -> Row]
      BY <1>1, <2>1, RowFacts DEF Tables
    <2>4. {d \in Digest : row'[d] # NoRow} \subseteq {d \in Digest : row[d] # NoRow}
      BY <2>1
    <2>5. FewRows'
      BY <1>1, <2>4, FS_Subset DEF Tables, FewRows, Present
    <2>6. Tables'
      BY <1>1, <2>1, <2>2, <2>3, <2>5, ForgetTyped DEF Tables
    <2>7. QED
      BY <1>2, <1>10, <2>2, <2>6, RequestTyped DEF DeleteRows, Reply
  <1>11. QED
    BY <1>3, <1>4, <1>5, <1>6, <1>7, <1>8, <1>9, <1>10 DEF Serving

LEMMA EnrichingTyped ==
    ASSUME TypeInv, NEW p \in Passes, Enriching(p)
    PROVE  TypeInv'
  <1>1. Tables
    BY TypeParts
  <1>2. UNCHANGED <<request, requests, crashes, agent, raw, blob>>
    BY DEF Enriching, ListPending, EndPass, Take, Abandon, ReadInput, Wait, OverQuota,
           Call, RecordFailure, Save, SaveMisses, Clear, Mint, tables, limits
  <1>3. CASE ListPending(p)
    <2>1. Tables'
      BY <1>1, <1>3, StillTyped DEF ListPending, limits, Tables
    <2>2. /\ pass[p].orgs \in SUBSET Orgs /\ pass[p].budget \in Nat
      BY <1>3, PassAt DEF ListPending, At
    <2>3. PICK o \in pass[p].orgs, limit \in Nat :
             /\ limit <= pass[p].budget
             /\ Become(p, Loops(pass[p].orgs \ {o}, pass[p].budget,
                    {[id |-> d, row |-> row[d]] : d \in Newest(PendingIn(o) \ Skipped(o), limit)}))
      <3>1. PICK o \in pass[p].orgs :
               LET limit == IF BatchPerOrg < pass[p].budget THEN BatchPerOrg ELSE pass[p].budget
               IN Become(p, Loops(pass[p].orgs \ {o}, pass[p].budget,
                      {[id |-> d, row |-> row[d]] : d \in Newest(PendingIn(o) \ Skipped(o), limit)}))
        BY <1>3 DEF ListPending
      <3>2. PICK limit : limit = IF BatchPerOrg < pass[p].budget THEN BatchPerOrg ELSE pass[p].budget
        OBVIOUS
      <3>3. limit \in Nat /\ limit <= pass[p].budget
        BY <2>2, <3>2
      <3>4. QED
        BY <3>1, <3>2, <3>3
    <2>4. PICK S : S = PendingIn(o) \ Skipped(o)
      OBVIOUS
    <2>5. S \in SUBSET {d \in Digest : Org(d) = o} /\ \A d \in S : Present(d)
      BY <2>4 DEF PendingIn, Newest
    <2>6. IsFiniteSet(S)
      <3>1. S \subseteq {d \in Digest : Present(d)}
        BY <2>5
      <3>2. QED
        BY <1>1, <3>1, FS_Subset DEF Tables, FewRows
    <2>7. PICK N : N = Newest(S, limit)
      OBVIOUS
    <2>8. N \subseteq S /\ IsFiniteSet(N) /\ Cardinality(N) <= limit
      BY <2>5, <2>6, <2>7, NewestFew
    <2>9. PICK todo : todo = {[id |-> d, row |-> row[d]] : d \in N}
      OBVIOUS
    <2>10. todo \in SUBSET Listed
      BY <1>1, <2>5, <2>8, <2>9 DEF Listed, Tables
    <2>11. IsFiniteSet(todo) /\ Cardinality(todo) <= Cardinality(N)
      <3> DEFINE f == [d \in N |-> [id |-> d, row |-> row[d]]]
      <3>1. f \in Surjection(N, todo)
        BY <2>9 DEF Surjection
      <3> HIDE DEF f
      <3>2. QED
        BY <2>8, <3>1, FS_Surjection
    <2>12. Cardinality(todo) <= pass[p].budget
      <3>1. Cardinality(N) \in Nat /\ Cardinality(todo) \in Nat
        BY <2>8, <2>11, FS_CardinalityType
      <3>2. QED
        BY <2>2, <2>3, <2>8, <2>11, <3>1
    <2>13. Become(p, Loops(pass[p].orgs \ {o}, pass[p].budget, todo))
      BY <2>3, <2>4, <2>7, <2>9
    <2>14. PICK orgs \in SUBSET Orgs, budget \in Nat : orgs = pass[p].orgs \ {o} /\ budget = pass[p].budget
      BY <2>2
    <2>15. QED
      BY <1>2, <2>1, <2>10, <2>11, <2>12, <2>13, <2>14, LoopsTyped
  <1>4. CASE EndPass(p)
    <2>1. Tables'
      BY <1>1, <1>4, StillTyped DEF EndPass, limits, Tables
    <2>2. Sized(PassIdle) /\ PassIdle \in Pass \cup {PassIdle}
      BY DEF Sized, PassIdle
    <2>3. QED
      BY <1>2, <1>4, <2>1, <2>2, PassTyped DEF EndPass
  <1>5. CASE Take(p)
    <2>1. Tables'
      BY <1>1, <1>5, StillTyped DEF Take, limits, Tables
    <2>2. PICK c \in pass[p].todo :
             Become(p, [pc |-> IF GivesUp(c.id) THEN "abandon" ELSE "input",
                        orgs |-> pass[p].orgs, budget |-> pass[p].budget,
                        todo |-> pass[p].todo \ {c}, cur |-> c])
      BY <1>5 DEF Take
    <2>3. PICK j : j = [pc |-> IF GivesUp(c.id) THEN "abandon" ELSE "input",
                        orgs |-> pass[p].orgs, budget |-> pass[p].budget,
                        todo |-> pass[p].todo \ {c}, cur |-> c]
      OBVIOUS
    <2>4. /\ pass[p].orgs \in SUBSET Orgs /\ pass[p].budget \in Nat /\ pass[p].todo \in SUBSET Listed
          /\ IsFiniteSet(pass[p].todo) /\ Cardinality(pass[p].todo) <= pass[p].budget
      BY <1>5, PassAt DEF Take, At
    <2>5. PICK todo : todo = pass[p].todo \ {c}
      OBVIOUS
    <2>6. IsFiniteSet(todo) /\ Cardinality(todo) < pass[p].budget
      <3>1. Cardinality(pass[p].todo) \in Nat
        BY <2>4, FS_CardinalityType
      <3>2. IsFiniteSet(todo) /\ Cardinality(todo) = Cardinality(pass[p].todo) - 1
        BY <2>4, <2>5, FS_RemoveElement
      <3>3. QED
        BY <2>4, <3>1, <3>2
    <2>7. j.pc \in {"abandon", "input"} /\ j.budget = pass[p].budget /\ j.todo = todo
      BY <2>3, <2>5
    <2>8. j \in Pass
      BY <2>3, <2>4 DEF Pass
    <2>9. Sized(j)
      BY <2>6, <2>7 DEF Sized
    <2>10. QED
      BY <1>2, <2>1, <2>2, <2>3, <2>8, <2>9, PassTyped
  <1>6. CASE OverQuota(p)
    <2>1. Tables'
      BY <1>1, <1>6, StillTyped DEF OverQuota, limits, Tables
    <2>2. pass[p].orgs \in SUBSET Orgs /\ pass[p].budget \in Nat
      BY <1>6, PassAt DEF OverQuota, At
    <2>3. PICK orgs \in SUBSET Orgs, budget \in Nat : orgs = pass[p].orgs /\ budget = pass[p].budget
      BY <2>2
    <2>4. IsFiniteSet({}) /\ Cardinality({}) <= budget
      BY FS_EmptySet
    <2>5. Become(p, Loops(orgs, budget, {}))
      BY <1>6, <2>3 DEF OverQuota
    <2>6. QED
      BY <1>2, <2>1, <2>4, <2>5, LoopsTyped
  <1>7. CASE ReadInput(p) \/ Call(p, "save") \/ Call(p, "failed") \/ SaveMisses(p)
    <2>1. pass[p].pc \notin {"idle", "next"} /\ Cur(p) \in Digest
      BY <1>7, PassAt DEF ReadInput, Call, SaveMisses, At
    <2>2. UNCHANGED tables /\ called' \in SUBSET Digest
      BY <1>1, <1>7, <2>1 DEF ReadInput, Call, SaveMisses, Tables
    <2>3. Tables'
      BY <1>1, <1>2, <2>2, StillTyped DEF Tables
    <2>4. (\E label \in Reading \cup Written : Goto(p, label)) \/ Proceed(p, 1)
      BY <1>7 DEF ReadInput, Call, SaveMisses, Reading
    <2>5. QED
      BY <1>2, <2>1, <2>3, <2>4, GotoTyped, ProceedTyped
  <1>8. CASE Abandon(p) \/ Wait(p) \/ RecordFailure(p)
    <2>1. pass[p].pc \notin {"idle", "next"} /\ Cur(p) \in Digest
      BY <1>8, PassAt DEF Abandon, Wait, RecordFailure, At
    <2>2. progress[Cur(p)] \in Progress /\ progress[Cur(p)].attempts \in Nat /\ progress[Cur(p)].old \in BOOLEAN
      BY <1>1, <2>1 DEF Tables, Progress
    <2>3. PICK st \in {"waiting", "failed", "abandoned"}, a \in Nat, o \in BOOLEAN : SetProgress(Cur(p), st, a, o)
      <3>1. CASE Abandon(p)
        <4>1. PICK a : /\ a = IF progress[Cur(p)] = NoProgress THEN 1 ELSE progress[Cur(p)].attempts
                       /\ SetProgress(Cur(p), "abandoned", a, progress[Cur(p)].old)
          BY <3>1 DEF Abandon
        <4>2. a \in Nat
          BY <2>2, <4>1
        <4>3. QED
          BY <2>2, <4>1, <4>2
      <3>2. CASE Wait(p)
        <4>1. SetProgress(Cur(p), "waiting", progress[Cur(p)].attempts + 0, progress[Cur(p)].old)
          BY <3>2 DEF Wait, RecordAttempt
        <4>2. progress[Cur(p)].attempts + 0 \in Nat
          BY <2>2
        <4>3. QED
          BY <2>2, <4>1, <4>2
      <3>3. CASE RecordFailure(p)
        <4>1. SetProgress(Cur(p), "failed", progress[Cur(p)].attempts + 1, progress[Cur(p)].old)
          BY <3>3 DEF RecordFailure, RecordAttempt
        <4>2. progress[Cur(p)].attempts + 1 \in Nat
          BY <2>2
        <4>3. QED
          BY <2>2, <4>1, <4>2
      <3>4. QED
        BY <1>8, <3>1, <3>2, <3>3
    <2>4. [state |-> st, attempts |-> a, old |-> o] \in Progress
      BY DEF Progress
    <2>5. progress' \in [Digest -> Progress]
      BY <1>1, <2>3, <2>4 DEF Tables, SetProgress
    <2>6. retired' \in SUBSET (Digest \X Digest)
      BY <1>1, <1>8, <2>1 DEF Tables, Abandon, Wait, RecordFailure, RecordAttempt, Others, Abandoned
    <2>7. UNCHANGED <<row, note, called>>
      BY <1>8 DEF Abandon, Wait, RecordFailure
    <2>8. Tables'
      BY <1>1, <1>2, <2>5, <2>6, <2>7 DEF Tables, FewRows, Present
    <2>9. QED
      BY <1>2, <1>8, <2>1, <2>8, ProceedTyped DEF Abandon, Wait, RecordFailure
  <1>9. CASE Save(p)
    <2>1. pass[p].pc \notin {"idle", "next"} /\ Cur(p) \in Digest /\ pass[p].cur.row \in Row
      BY <1>9, PassAt DEF Save, At
    <2>2. Enrich(pass[p].cur.row) \in Row
      BY <2>1 DEF Enrich, Row
    <2>3. row' \in [Digest -> Row] /\ \A e \in Digest : e # Cur(p) => row'[e] = row[e]
      BY <1>1, <1>9, <2>1, <2>2 DEF Save, Tables
    <2>4. UNCHANGED <<progress, retired, note, called>>
      BY <1>9 DEF Save
    <2>5. Tables'
      BY <1>1, <1>2, <2>3, <2>4, RowTyped
    <2>6. QED
      BY <1>2, <1>9, <2>1, <2>5, GotoTyped DEF Save, Written
  <1>10. CASE Clear(p) \/ Mint(p)
    <2>1. pass[p].pc \notin {"idle", "next"} /\ Cur(p) \in Digest
      BY <1>10, PassAt DEF Clear, Mint, At
    <2>2. note' \in SUBSET Digest /\ UNCHANGED <<row, called>>
      BY <1>1, <1>10, <2>1 DEF Clear, Mint, Tables
    <2>3. progress' \in [Digest -> Progress] /\ retired' \in SUBSET (Digest \X Digest)
      BY <1>1, <1>10, ForgetTyped DEF Clear, Mint, Tables
    <2>4. Tables'
      BY <1>1, <1>2, <2>2, <2>3 DEF Tables, FewRows, Present
    <2>5. Proceed(p, 1) \/ Goto(p, "mint")
      BY <1>10 DEF Clear, Mint
    <2>6. QED
      BY <1>2, <2>1, <2>4, <2>5, ProceedTyped, GotoTyped DEF Written
  <1>11. QED
    BY <1>3, <1>4, <1>5, <1>6, <1>7, <1>8, <1>9, <1>10 DEF Enriching

LEMMA TypeNext == TypeInv /\ [Next]_vars => TypeInv'
  <1> SUFFICES ASSUME TypeInv, [Next]_vars
               PROVE  TypeInv'
    OBVIOUS
  <1>1. Tables
    BY TypeParts
  <1>2. CASE \E d \in Digest : Resume(d)
    <2>1. PICK d \in Digest : Resume(d)
      BY <1>2
    <2>2. PICK s \in BOOLEAN : agent' = [agent EXCEPT ![d] = [turns |-> agent[d].turns + 1, summary |-> s]]
      BY <2>1 DEF Resume
    <2>3. agent[d].turns + 1 \in Nat
      BY <1>1 DEF Tables
    <2>4. [turns |-> agent[d].turns + 1, summary |-> s] \in [turns : Nat, summary : BOOLEAN]
      BY <2>3
    <2>5. agent' \in [Digest -> [turns : Nat, summary : BOOLEAN]]
      BY <1>1, <2>2, <2>4 DEF Tables
    <2>6. UNCHANGED <<row, raw, blob, progress, retired, note, pass, request, requests, crashes, called>>
      BY <2>1 DEF Resume, tables, limits
    <2>7. QED
      BY <2>5, <2>6 DEF TypeInv, TypeOK, FewRows, Present
  <1>3. CASE \E d \in Digest : Age(d)
    <2>1. PICK d \in Digest : Age(d)
      BY <1>3
    <2>2. [state |-> progress[d].state, attempts |-> progress[d].attempts, old |-> TRUE] \in Progress
      BY <1>1 DEF Tables, Progress
    <2>3. progress' \in [Digest -> Progress]
      BY <1>1, <2>1, <2>2 DEF Age, SetProgress, Tables
    <2>4. UNCHANGED <<agent, row, raw, blob, retired, note, pass, request, requests, crashes, called>>
      BY <2>1 DEF Age, limits
    <2>5. QED
      BY <2>3, <2>4 DEF TypeInv, TypeOK, FewRows, Present
  <1>4. CASE StartPass \/ \E p \in Admins, o \in Orgs : AdminRun(p, o)
    <2>1. PICK p \in Passes, orgs \in SUBSET Orgs, budget \in Nat : Begin(p, orgs, budget)
      <3>1. CASE StartPass
        <4>1. {o \in Orgs : PendingIn(o) # {}} \in SUBSET Orgs /\ MaxBatch \in Nat /\ Loop \in Passes
          BY DEF Passes
        <4>2. QED
          BY <3>1, <4>1 DEF StartPass
      <3>2. CASE \E p \in Admins, o \in Orgs : AdminRun(p, o)
        BY <3>2 DEF AdminRun, Passes
      <3>3. QED
        BY <1>4, <3>1, <3>2
    <2>2. Tables' /\ request' = request
      <3>1. UNCHANGED <<agent, tables, request, crashes, called>> /\ requests' \in {requests, requests + 1}
        BY <1>4 DEF StartPass, AdminRun, limits
      <3>2. UNCHANGED tables /\ requests' \in Nat /\ crashes' \in Nat /\ called' \in SUBSET Digest
        BY <1>1, <3>1 DEF Tables
      <3>3. QED
        BY <1>1, <3>1, <3>2, StillTyped
    <2>3. IsFiniteSet({}) /\ Cardinality({}) <= budget
      BY FS_EmptySet
    <2>4. QED
      BY <2>1, <2>2, <2>3, LoopsTyped DEF Begin
  <1>5. CASE Crash
    <2>1. Tables'
      BY <1>1, <1>5, StillTyped DEF Crash, Tables
    <2>2. CASE \E p \in Passes : ~At(p, "idle") /\ Become(p, PassIdle) /\ UNCHANGED request
      <3>1. Sized(PassIdle) /\ PassIdle \in Pass \cup {PassIdle}
        BY DEF Sized, PassIdle
      <3>2. QED
        BY <2>1, <2>2, <3>1, PassTyped
    <2>3. CASE \E h \in Handlers : request[h] # RequestIdle /\ Reply(h) /\ UNCHANGED pass
      <3>1. RequestIdle \in Request \cup {RequestIdle}
        OBVIOUS
      <3>2. QED
        BY <2>1, <2>3, <3>1, RequestTyped DEF Reply
    <2>4. QED
      BY <1>5, <2>2, <2>3 DEF Crash
  <1>6. CASE UNCHANGED vars
    BY <1>6 DEF vars, tables, limits, TypeInv, TypeOK, FewRows, Present
  <1>7. QED
    BY <1>2, <1>3, <1>4, <1>5, <1>6, ServingTyped, EnrichingTyped DEF Next

-----------------------------------------------------------------------------
\* Attempts

\* The passes that have decided to try digest d and may still count an attempt.
Trying(d) == {p \in Passes : pass[p].pc \in {"input", "wait", "call", "failed"} /\ Cur(p) = d}

CountInv ==
    \A d \in Digest : progress[d].attempts + Cardinality(Trying(d)) <= MaxAttempts + Cardinality(Admins)

LEMMA PassCount ==
    ASSUME IsFiniteSet(Admins)
    PROVE  /\ Cardinality(Admins) \in Nat
           /\ IsFiniteSet(Passes) /\ Cardinality(Passes) = Cardinality(Admins) + 1
           /\ \A p \in Passes : \A S \in SUBSET (Passes \ {p}) :
                 IsFiniteSet(S) /\ Cardinality(S) \in Nat /\ Cardinality(S) <= Cardinality(Admins)
           /\ \A S \in SUBSET Passes :
                 IsFiniteSet(S) /\ Cardinality(S) \in Nat /\ Cardinality(S) <= Cardinality(Admins) + 1
  <1>1. Cardinality(Admins) \in Nat
    BY FS_CardinalityType
  <1>2. IsFiniteSet(Passes) /\ Cardinality(Passes) = Cardinality(Admins) + 1
    <2>1. Passes = Admins \cup {Loop}
      BY DEF Passes
    <2>2. QED
      BY <2>1, FS_AddElement, ThreadAssumption
  <1>3. \A S \in SUBSET Passes :
           IsFiniteSet(S) /\ Cardinality(S) \in Nat /\ Cardinality(S) <= Cardinality(Admins) + 1
    BY <1>2, FS_Subset, FS_CardinalityType
  <1>4. ASSUME NEW p \in Passes, NEW S \in SUBSET (Passes \ {p})
        PROVE  Cardinality(S) <= Cardinality(Admins)
    <2>1. IsFiniteSet(Passes \ {p}) /\ Cardinality(Passes \ {p}) = Cardinality(Passes) - 1
      BY <1>2, FS_RemoveElement
    <2>2. Cardinality(Passes \ {p}) = Cardinality(Admins)
      BY <1>1, <1>2, <2>1
    <2>3. Cardinality(S) <= Cardinality(Passes \ {p})
      BY <2>1, FS_Subset
    <2>4. QED
      BY <2>2, <2>3
  <1>5. QED
    BY <1>1, <1>2, <1>3, <1>4

\* Fewer passes try the digest, and no more attempts are counted.
LEMMA CountStill ==
    ASSUME IsFiniteSet(Admins), CountInv, NEW d \in Digest,
           progress[d].attempts \in Nat, progress'[d].attempts \in Nat,
           progress'[d].attempts <= progress[d].attempts, Trying(d)' \subseteq Trying(d)
    PROVE  progress'[d].attempts + Cardinality(Trying(d)') <= MaxAttempts + Cardinality(Admins)
  <1>1. Trying(d) \in SUBSET Passes /\ Trying(d)' \in SUBSET Passes
    BY DEF Trying
  <1>2. IsFiniteSet(Trying(d)) /\ Cardinality(Trying(d)) \in Nat /\ Cardinality(Trying(d)') \in Nat
    BY <1>1, PassCount
  <1>3. Cardinality(Trying(d)') <= Cardinality(Trying(d))
    BY <1>2, FS_Subset
  <1>4. progress[d].attempts + Cardinality(Trying(d)) <= MaxAttempts + Cardinality(Admins)
    BY DEF CountInv
  <1>5. QED
    BY <1>2, <1>3, <1>4, PassCount

LEMMA CountInit == IsFiniteSet(Admins) /\ Init => CountInv
  <1> SUFFICES ASSUME IsFiniteSet(Admins), Init, NEW d \in Digest
               PROVE  progress[d].attempts + Cardinality(Trying(d)) <= MaxAttempts + Cardinality(Admins)
    BY DEF CountInv
  <1>1. Trying(d) = {} /\ progress[d].attempts = 0
    BY DEF Init, Trying, PassIdle, NoProgress
  <1>2. QED
    BY <1>1, FS_EmptySet, PassCount

\* Another job of one pass.
LEMMA JobCount ==
    ASSUME TypeInv, NEW p \in Passes, NEW j, Become(p, j), NEW d
    PROVE  /\ Trying(d)' \subseteq Trying(d) \cup {p}
           /\ j.pc \notin {"input", "wait", "call", "failed"} \/ j.cur.id # d
                 => Trying(d)' \subseteq Trying(d) \ {p}
  <1>1. pass'[p] = j /\ \A q \in Passes : q # p => pass'[q] = pass[q]
    BY DEF TypeInv, TypeOK, Become
  <1>2. QED
    BY <1>1 DEF Trying, Cur

LEMMA CountNext ==
    ASSUME TypeInv, CountInv, IsFiniteSet(Admins), [Next]_vars
    PROVE  CountInv'
  <1>0. TypeInv' /\ \A d \in Digest : progress[d].attempts \in Nat /\ progress'[d].attempts \in Nat
    <2>1. TypeInv'
      BY TypeNext
    <2>2. progress \in [Digest -> Progress] /\ progress' \in [Digest -> Progress]
      BY <2>1 DEF TypeInv, TypeOK
    <2>3. QED
      BY <2>1, <2>2 DEF Progress
  <1> DEFINE Goal == \A d \in Digest :
                        progress'[d].attempts + Cardinality(Trying(d)') <= MaxAttempts + Cardinality(Admins)
  <1>1. SUFFICES Goal
    BY DEF CountInv
  <1>2. ASSUME \A d \in Digest : progress'[d].attempts <= progress[d].attempts,
               \A d \in Digest : Trying(d)' \subseteq Trying(d)
        PROVE  Goal
    BY <1>0, <1>2, CountStill
  <1>3. ASSUME progress' = progress \/ \E S : Forget(S)
        PROVE  \A d \in Digest : progress'[d].attempts <= progress[d].attempts
    <2>1. \A d \in Digest : progress'[d] \in {progress[d], NoProgress}
      <3>1. ASSUME NEW S, Forget(S), NEW d \in Digest
            PROVE  progress'[d] \in {progress[d], NoProgress}
        BY <3>1 DEF Forget
      <3>2. QED
        BY <1>3, <3>1
    <2>2. NoProgress.attempts = 0
      BY DEF NoProgress
    <2>3. QED
      BY <1>0, <2>1, <2>2
  <1>4. CASE \E h \in Handlers : Serving(h)
    <2>1. progress' = progress \/ \E S : Forget(S)
      BY <1>4 DEF Serving, Merge, PutBlob, RecordRaw, ReadKeys, DeleteBlobs, BlobsRefused, DeleteRows,
                  Ingest, Upload, Purge, Retry, tables
    <2>2. pass' = pass
      BY <1>4 DEF Serving, Merge, PutBlob, RecordRaw, ReadKeys, DeleteBlobs, BlobsRefused, DeleteRows,
                  Ingest, Upload, Purge, Retry
    <2>3. \A d : Trying(d)' = Trying(d)
      BY <2>2 DEF Trying, Cur
    <2>4. QED
      BY <1>2, <1>3, <2>1, <2>3
  <1>5. CASE \/ \E d \in Digest : Resume(d) \/ Age(d)
             \/ UNCHANGED vars
    <2>1. pass' = pass
      BY <1>5 DEF Resume, Age, vars
    <2>2. \A d : Trying(d)' = Trying(d)
      BY <2>1 DEF Trying, Cur
    <2>3. \A d \in Digest : progress'[d].attempts = progress[d].attempts
      <3>1. CASE progress' = progress
        BY <3>1
      <3>2. CASE \E e \in Digest : Age(e)
        <4>1. PICK e \in Digest : progress' = [progress EXCEPT ![e] = [state |-> progress[e].state,
                                      attempts |-> progress[e].attempts, old |-> TRUE]]
          BY <3>2 DEF Age, SetProgress
        <4>2. QED
          BY <4>1 DEF TypeInv, TypeOK
      <3>3. QED
        BY <1>5, <3>1, <3>2 DEF Resume, vars, tables
    <2>4. \A d \in Digest : progress'[d].attempts <= progress[d].attempts
      BY <1>0, <2>3
    <2>5. QED
      BY <1>2, <2>2, <2>4
  <1>6. ASSUME NEW p \in Passes, NEW j, Become(p, j), j.pc \notin {"input", "wait", "call", "failed"},
               progress' = progress \/ \E S : Forget(S)
        PROVE  Goal
    <2>1. \A d \in Digest : Trying(d)' \subseteq Trying(d)
      BY <1>6, JobCount
    <2>2. QED
      BY <1>2, <1>3, <1>6, <2>1
  <1>7. \A orgs, budget, todo : Loops(orgs, budget, todo).pc = "next"
    BY DEF Loops
  <1>8. PassIdle.pc = "idle"
    BY DEF PassIdle
  <1>9. CASE StartPass \/ \E p \in Admins, o \in Orgs : AdminRun(p, o)
    <2>1. PICK p \in Passes : \E j : Become(p, j) /\ j.pc = "next"
      BY <1>7, <1>9 DEF StartPass, AdminRun, Begin, Passes
    <2>2. progress' = progress
      BY <1>9 DEF StartPass, AdminRun, tables
    <2>3. QED
      BY <1>6, <2>1, <2>2
  <1>10. CASE Crash
    <2>1. progress' = progress
      BY <1>10 DEF Crash, tables
    <2>2. CASE \E p \in Passes : Become(p, PassIdle)
      BY <1>6, <1>8, <2>1, <2>2
    <2>3. CASE pass' = pass
      <3>1. \A d : Trying(d)' = Trying(d)
        BY <2>3 DEF Trying, Cur
      <3>2. QED
        BY <1>2, <1>3, <2>1, <3>1
    <2>4. QED
      BY <1>10, <2>2, <2>3 DEF Crash
  <1>11. ASSUME NEW p \in Passes, Enriching(p)
         PROVE  Goal
    <2>1. CASE ListPending(p) \/ EndPass(p) \/ OverQuota(p) \/ SaveMisses(p) \/ Mint(p)
      <3>1. progress' = progress
        BY <2>1 DEF ListPending, EndPass, OverQuota, SaveMisses, Mint, tables
      <3>2. \E j : Become(p, j) /\ j.pc \in {"next", "idle"}
        <4>1. CASE ListPending(p)
          BY <1>7, <4>1 DEF ListPending
        <4>2. CASE EndPass(p)
          BY <1>8, <4>2 DEF EndPass
        <4>3. CASE OverQuota(p)
          BY <1>7, <4>3 DEF OverQuota
        <4>4. CASE SaveMisses(p) \/ Mint(p)
          <5>1. Proceed(p, 1)
            BY <4>4 DEF SaveMisses, Mint
          <5>2. QED
            BY <1>7, <5>1 DEF Proceed
        <4>5. QED
          BY <2>1, <4>1, <4>2, <4>3, <4>4
      <3>3. QED
        BY <1>6, <3>1, <3>2
    <2>2. CASE Clear(p) \/ Save(p) \/ Call(p, "save")
      <3>1. progress' = progress \/ \E S : Forget(S)
        BY <2>2 DEF Clear, Save, Call, tables
      <3>2. pass[p].pc \notin {"idle", "next"}
        BY <2>2 DEF Clear, Save, Call, At
      <3>3. pass[p] \in Pass
        BY <3>2, PassAt
      <3>4. \A label : Goto(p, label) => Become(p, [pass[p] EXCEPT !.pc = label])
                                         /\ [pass[p] EXCEPT !.pc = label].pc = label
        BY <3>3 DEF Goto, Pass
      <3>5. \E j : Become(p, j) /\ j.pc \in {"next", "mint", "clear", "save"}
        <4>1. CASE Proceed(p, 1)
          BY <1>7, <4>1 DEF Proceed
        <4>2. CASE \E label \in {"mint", "clear", "save"} : Goto(p, label)
          BY <3>4, <4>2
        <4>3. QED
          BY <2>2, <4>1, <4>2 DEF Clear, Save, Call
      <3>6. QED
        BY <1>6, <3>1, <3>5
    <2>3. CASE ReadInput(p) \/ Call(p, "failed")
      <3>1. progress' = progress
        BY <2>3 DEF ReadInput, Call, tables
      <3>2. pass[p].pc \in {"input", "call"} /\ pass[p] \in Pass
        BY <2>3, PassAt DEF ReadInput, Call, At
      <3>3. PICK label \in {"call", "wait", "failed"} : Goto(p, label)
        BY <2>3 DEF ReadInput, Call
      <3>4. PICK j : j = [pass[p] EXCEPT !.pc = label]
        OBVIOUS
      <3>5. Become(p, j) /\ j.pc = label /\ j.cur.id = Cur(p)
        BY <3>2, <3>3, <3>4 DEF Goto, Pass, Cur
      <3>6. \A d \in Digest : Trying(d)' \subseteq Trying(d)
        <4>1. SUFFICES ASSUME NEW d \in Digest
                       PROVE  Trying(d)' \subseteq Trying(d)
          OBVIOUS
        <4>2. CASE d = Cur(p)
          <5>1. p \in Trying(d)
            BY <3>2, <4>2 DEF Trying
          <5>2. Trying(d)' \subseteq Trying(d) \cup {p}
            BY <3>5, JobCount
          <5>3. QED
            BY <5>1, <5>2
        <4>3. CASE d # Cur(p)
          BY <3>5, <4>3, JobCount
        <4>4. QED
          BY <4>2, <4>3
      <3>7. QED
        BY <1>2, <1>3, <3>1, <3>6
    <2>4. CASE Take(p)
      <3>1. progress' = progress
        BY <2>4 DEF Take, tables
      <3>2. PICK c \in pass[p].todo :
               Become(p, [pc |-> IF GivesUp(c.id) THEN "abandon" ELSE "input",
                          orgs |-> pass[p].orgs, budget |-> pass[p].budget,
                          todo |-> pass[p].todo \ {c}, cur |-> c])
        BY <2>4 DEF Take
      <3>3. PICK j : j = [pc |-> IF GivesUp(c.id) THEN "abandon" ELSE "input",
                          orgs |-> pass[p].orgs, budget |-> pass[p].budget,
                          todo |-> pass[p].todo \ {c}, cur |-> c]
        OBVIOUS
      <3>4. Become(p, j) /\ j.cur.id = c.id /\ j.pc = IF GivesUp(c.id) THEN "abandon" ELSE "input"
        BY <3>2, <3>3
      <3>5. CASE GivesUp(c.id)
        BY <1>6, <3>1, <3>4, <3>5
      <3>6. CASE ~GivesUp(c.id)
        <4>1. SUFFICES ASSUME NEW d \in Digest
                       PROVE  progress'[d].attempts + Cardinality(Trying(d)') <= MaxAttempts + Cardinality(Admins)
          OBVIOUS
        <4>2. CASE d = c.id
          <5>1. progress'[d].attempts < MaxAttempts
            BY <1>0, <3>1, <3>6, <4>2 DEF GivesUp
          <5>2. Trying(d)' \in SUBSET Passes
            BY DEF Trying
          <5>3. Cardinality(Trying(d)') \in Nat /\ Cardinality(Trying(d)') <= Cardinality(Admins) + 1
            BY <5>2, PassCount
          <5>4. QED
            BY <1>0, <5>1, <5>3, PassCount
        <4>3. CASE d # c.id
          <5>1. Trying(d)' \subseteq Trying(d)
            BY <3>4, <4>3, JobCount
          <5>2. QED
            BY <1>0, <3>1, <5>1, CountStill
        <4>4. QED
          BY <4>2, <4>3
      <3>7. QED
        BY <3>5, <3>6
    <2>5. CASE Abandon(p) \/ Wait(p) \/ RecordFailure(p)
      <3>1. PICK c : c = Cur(p)
        OBVIOUS
      <3>2. c \in Digest /\ pass[p].pc \notin {"idle", "next"}
        BY <2>5, <3>1, PassAt DEF Abandon, Wait, RecordFailure, At
      <3>3. PICK j : Become(p, j) /\ j.pc = "next"
        BY <1>7, <2>5 DEF Abandon, Wait, RecordFailure, Proceed
      <3>4. \A d : Trying(d)' \subseteq Trying(d) \ {p}
        BY <3>3, JobCount
      <3>5. PICK st, a, o : SetProgress(c, st, a, o) /\
               \/ Abandon(p) /\ a = (IF progress[c] = NoProgress THEN 1 ELSE progress[c].attempts)
               \/ Wait(p) /\ a = progress[c].attempts + 0
               \/ RecordFailure(p) /\ a = progress[c].attempts + 1
        BY <2>5, <3>1 DEF Abandon, Wait, RecordFailure, RecordAttempt
      <3>6. progress'[c].attempts = a /\ \A d \in Digest : d # c => progress'[d] = progress[d]
        BY <3>2, <3>5 DEF SetProgress, TypeInv, TypeOK
      <3>7. SUFFICES ASSUME NEW d \in Digest
                     PROVE  progress'[d].attempts + Cardinality(Trying(d)') <= MaxAttempts + Cardinality(Admins)
        OBVIOUS
      <3>8. CASE d # c \/ a = progress[c].attempts
        BY <1>0, <3>2, <3>4, <3>6, <3>8, CountStill
      <3>9. CASE d = c /\ Abandon(p) /\ a = 1
        <4>1. Trying(d)' \in SUBSET (Passes \ {p})
          BY <3>4 DEF Trying
        <4>2. Cardinality(Trying(d)') \in Nat /\ Cardinality(Trying(d)') <= Cardinality(Admins)
          BY <4>1, PassCount
        <4>3. QED
          BY <3>6, <3>9, <4>2, PassCount
      <3>10. CASE d = c /\ RecordFailure(p) /\ a = progress[c].attempts + 1
        <4>1. p \in Trying(d)
          BY <3>1, <3>10 DEF Trying, RecordFailure, At
        <4>2. Trying(d) \in SUBSET Passes /\ Trying(d)' \in SUBSET Passes
          BY DEF Trying
        <4>3. /\ IsFiniteSet(Trying(d)) /\ Cardinality(Trying(d)) \in Nat /\ Cardinality(Trying(d)') \in Nat
          BY <4>2, PassCount
        <4>4. IsFiniteSet(Trying(d) \ {p}) /\ Cardinality(Trying(d) \ {p}) = Cardinality(Trying(d)) - 1
          BY <4>1, <4>3, FS_RemoveElement
        <4>5. Cardinality(Trying(d)') <= Cardinality(Trying(d)) - 1
          BY <3>4, <4>4, FS_Subset
        <4>6. progress[d].attempts + Cardinality(Trying(d)) <= MaxAttempts + Cardinality(Admins)
          BY DEF CountInv
        <4>7. QED
          BY <1>0, <3>6, <3>10, <4>3, <4>5, <4>6, PassCount
      <3>11. QED
        <4>1. progress[c].attempts + 0 = progress[c].attempts
          BY <1>0, <3>2
        <4>2. QED
          BY <3>5, <3>8, <3>9, <3>10, <4>1
    <2>6. QED
      BY <1>11, <2>1, <2>2, <2>3, <2>4, <2>5 DEF Enriching
  <1>12. QED
    <2> HIDE DEF Goal
    <2>1. QED
      BY <1>4, <1>5, <1>9, <1>10, <1>11 DEF Next

-----------------------------------------------------------------------------
\* The theorems

LEMMA SerialCorrect == Exclusive /\ Spec => []SerialInv
  <1>1. SUFFICES ASSUME Exclusive
                 PROVE  Spec => []SerialInv
    BY DEF ServerAssumption
  <1>2. SerialInv /\ [Next]_vars => SerialInv'
    BY <1>1, NextSerial
  <1>3. QED
    BY <1>2, InitSerial, PTL DEF Spec

\* As long as requests and passes do not overlap, a purge (delete_compactions) takes the
\* enrichment bookkeeping of its digests with it, also when threads die on the way.
THEOREM GhostFree == Exclusive /\ Spec => []NoGhost
  <1>1. SerialInv => NoGhost
    BY DEF SerialInv
  <1>2. QED
    BY <1>1, SerialCorrect, PTL

\* ... and the rationale notes that quote them: the enricher (_mint_rationale_notes)
\* quotes no session that is gone.
THEOREM QuotesBacked == Exclusive /\ Spec => []QuoteHasSession
  <1>1. SerialInv => QuoteHasSession
    BY DEF SerialInv
  <1>2. QED
    BY <1>1, SerialCorrect, PTL

\* Without overlap, no push of a digest (upsert_compaction's merge) throws its
\* enrichment away.
THEOREM EnrichmentKept == Exclusive /\ Spec => NeverDowngraded
  <1>1. SUFFICES ASSUME Exclusive
                 PROVE  Spec => NeverDowngraded
    BY DEF ServerAssumption
  <1>2. ASSUME SerialInv, [Next]_vars
        PROVE  [\A d \in Digest : Enriched(row[d]) /\ row'[d] # NoRow => Enriched(row'[d])]_vars
    BY <1>1, <1>2, RowStep DEF Kept
  <1>3. QED
    BY <1>1, <1>2, SerialCorrect, PTL DEF Spec, NeverDowngraded

\* Without overlap, neither a push nor save_enriched takes a digest's deterministic
\* fields back to an older state of its session.
THEOREM TurnsKept == Exclusive /\ Spec => TurnsNeverLost
  <1>1. SUFFICES ASSUME Exclusive
                 PROVE  Spec => TurnsNeverLost
    BY DEF ServerAssumption
  <1>2. ASSUME SerialInv, [Next]_vars
        PROVE  [\A d \in Digest : row'[d] # NoRow => row'[d].turns >= row[d].turns]_vars
    BY <1>1, <1>2, RowStep DEF Kept
  <1>3. QED
    BY <1>1, <1>2, SerialCorrect, PTL DEF Spec, TurnsNeverLost

\* While nothing overlaps and no thread is killed, every stored transcript is on record
\* (upload_raw, purge): none is left behind that a purge would not find.
THEOREM BlobsRecorded == Exclusive /\ MaxCrashes = 0 /\ Spec => []BlobHasRecord
  <1>1. SUFFICES ASSUME Exclusive, MaxCrashes = 0
                 PROVE  Spec => []BlobHasRecord
    BY DEF ServerAssumption
  <1>2. SerialInv /\ UploadInv /\ [Next]_vars => (SerialInv /\ UploadInv)'
    BY <1>1, NextSerial, UploadNext
  <1>3. Init => SerialInv /\ UploadInv
    BY InitSerial, UploadInit
  <1>4. SerialInv /\ UploadInv => BlobHasRecord
    BY DEF UploadInv
  <1>5. QED
    BY <1>2, <1>3, <1>4, PTL DEF Spec

\* Under the same condition, with an object store that finds what it holds, a digest is
\* not given up on for want of input (mark_enrichment_abandoned) when its transcript is
\* there: recording an upload makes a waiting digest new again (upsert_raw_transcript).
THEOREM TranscriptsTried ==
    Exclusive /\ ~FaultyBlobs /\ MaxCrashes = 0 /\ Spec => AbandonedWasTried
  <1>1. SUFFICES ASSUME Exclusive, ~FaultyBlobs, MaxCrashes = 0
                 PROVE  Spec => AbandonedWasTried
    BY DEF ServerAssumption
  <1> DEFINE Inv == SerialInv /\ UploadInv /\ InputInv
  <1>2. Init => Inv
    BY InitSerial, UploadInit, InputInit
  <1>3. Inv /\ [Next]_vars => Inv'
    BY <1>1, NextSerial, UploadNext, InputNext DEF UploadInv
  <1>4. ASSUME Inv
        PROVE  [\A p \in Passes : Abandon(p) /\ HasTurns(Cur(p)) => Cur(p) \in called]_vars
    <2>1. SUFFICES ASSUME NEW p \in Passes, Abandon(p), HasTurns(Cur(p))
                   PROVE  Cur(p) \in called
      OBVIOUS
    <2>2. pass[p].pc = "abandon" /\ pass[p] # PassIdle
      BY <2>1 DEF Abandon, At, PassIdle
    <2>3. Cur(p) \in Digest /\ Cur(p) = pass[p].cur.id
      BY <1>4, <2>2, JobAt DEF Cur
    <2>4. Tried(Cur(p)) /\ GivesUp(Cur(p)) /\ ~Recording(Cur(p))
      BY <1>4, <2>2, <2>3, OnePass DEF InputInv, Decided
    <2>5. progress[Cur(p)] \in Progress
      BY <1>4, <2>3 DEF SerialInv, Types
    <2>6. CASE progress[Cur(p)].attempts >= MaxAttempts
      BY <2>4, <2>5, <2>6 DEF Tried, Progress
    <2>7. CASE progress[Cur(p)].old
      <3>1. progress[Cur(p)].state \in {"waiting", "failed", "abandoned"}
        BY <2>4, <2>5, <2>7 DEF Tried, Progress, NoProgress
      <3>2. QED
        BY <2>1, <2>4, <3>1 DEF Tried
    <2>8. QED
      BY <2>4, <2>6, <2>7 DEF GivesUp
  <1>5. QED
    BY <1>2, <1>3, <1>4, PTL DEF Spec, AbandonedWasTried

\* However requests and passes interleave and crash, rows, progress and jobs keep the
\* shape the schemas give them, and no pass lists more than its budget (enrich_org's
\* limit) lets it enrich: the budget never falls below zero.
THEOREM EnrichmentTyped == Spec => []TypeOK
  <1>1. TypeInv => TypeOK
    BY DEF TypeInv
  <1>2. QED
    BY <1>1, TypeInit, TypeNext, PTL DEF Spec

\* However passes of the loop and of admins interleave and crash, a digest costs at most
\* enrich_max_attempts attempts and one more for every admin's pass: each checks before
\* its call and counts after it (record_enrichment_attempt).
THEOREM FewAttempts == IsFiniteSet(Admins) /\ Spec => []AttemptsBounded
  <1>1. SUFFICES ASSUME IsFiniteSet(Admins)
                 PROVE  Spec => []AttemptsBounded
    <2>1. IsFiniteSet(Admins) \in BOOLEAN
      BY DEF IsFiniteSet
    <2>2. QED
      BY <2>1
  <1> DEFINE Inv == TypeInv /\ CountInv
  <1>2. Init => Inv
    BY <1>1, TypeInit, CountInit
  <1>3. Inv /\ [Next]_vars => Inv'
    BY <1>1, TypeNext, CountNext
  <1>4. ASSUME Inv
        PROVE  AttemptsBounded
    <2>1. SUFFICES ASSUME NEW d \in Digest
                   PROVE  progress[d].attempts <= MaxAttempts + Cardinality(Admins)
      BY DEF AttemptsBounded
    <2>2. Trying(d) \in SUBSET Passes
      BY DEF Trying
    <2>3. Cardinality(Trying(d)) \in Nat
      BY <1>1, <2>2, PassCount
    <2>4. progress[d].attempts \in Nat
      BY <1>4 DEF TypeInv, TypeOK, Progress
    <2>5. progress[d].attempts + Cardinality(Trying(d)) <= MaxAttempts + Cardinality(Admins)
      BY <1>4 DEF CountInv
    <2>6. QED
      BY <1>1, <2>3, <2>4, <2>5, PassCount
  <1>5. QED
    BY <1>2, <1>3, <1>4, PTL DEF Spec

=============================================================================
