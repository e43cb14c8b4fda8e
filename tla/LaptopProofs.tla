---------------------------- MODULE LaptopProofs ----------------------------
(***************************************************************************)
(* Theorems about the laptop pipeline, for any set of transcripts and      *)
(* foreground processes, any bounds, and with every interleaving allowed.  *)
(***************************************************************************)
EXTENDS Laptop, TLAPS

USE BoundsAssumption, SwitchAssumption, ProcAssumption

-----------------------------------------------------------------------------
\* Type correctness

LEMMA InitTypeOK == Init => TypeOK
  BY DEF Init, TypeOK, Idle, Job, NoDigest, Digest, NoCopy, Pc, Session

\* A session's file is one of the transcripts, and its family are sessions.
LEMMA SessionFacts ==
    /\ \A s \in Session : File(s) \in Transcript
    /\ \A t \in Transcript : Family(t) \subseteq Session
    /\ \A t \in Transcript : \A i \in 1 .. MaxSegs : <<t, i>> \in Session
  BY DEF Session, Family, File

\* A job stays a job when any of its parts is replaced by one of the right type.
LEMMA IdleIsJob == Idle \in Job /\ NoDigest \in Digest /\ NoCopy \in [Session -> Nat]
  BY DEF Idle, Job, NoDigest, Digest, NoCopy, Pc

LEMMA BecomeType ==
    ASSUME TypeOK, NEW p \in Proc, NEW j \in Job, Become(p, j)
    PROVE  job' \in [Proc -> Job]
  BY DEF TypeOK, Become

\* A step of one process changes that process's job only.
LEMMA BecomeAt ==
    ASSUME TypeOK, NEW p \in Proc, NEW j, Become(p, j)
    PROVE  /\ job'[p] = j
           /\ \A q \in Proc : q # p => job'[q] = job[q]
  BY DEF TypeOK, Become

LEMMA FinishType ==
    ASSUME TypeOK, NEW p \in Proc, Finish(p)
    PROVE  job' \in [Proc -> Job]
  BY IdleIsJob, BecomeType DEF Finish

LEMMA GotoType ==
    ASSUME TypeOK, NEW p \in Proc, NEW label \in Pc, Goto(p, label)
    PROVE  job' \in [Proc -> Job]
  <1>1. job[p] \in Job
    BY DEF TypeOK
  <1>2. [job[p] EXCEPT !.pc = label] \in Job
    BY <1>1 DEF Job
  <1>3. QED
    BY <1>2, BecomeType DEF Goto

LEMMA ReturnType ==
    ASSUME TypeOK, NEW p \in Proc, NEW a \in Pc, NEW b \in Pc, Return(p, a, b)
    PROVE  job' \in [Proc -> Job]
  <1>1. job[p] \in Job
    BY DEF TypeOK
  <1>2. [job[p] EXCEPT !.pc = IF p = Daemon THEN a ELSE b,
                       !.cur = {}, !.row = NoDigest, !.copy = NoCopy] \in Job
    BY <1>1, IdleIsJob DEF Job
  <1>3. QED
    BY <1>2, BecomeType DEF Return

\* Where a step leads a process, and that it leads no other anywhere.
LEMMA FinishAt ==
    ASSUME TypeOK, NEW p \in Proc, Finish(p)
    PROVE  job'[p] = Idle /\ \A q \in Proc : q # p => job'[q] = job[q]
  BY BecomeAt DEF Finish

LEMMA GotoAt ==
    ASSUME TypeOK, NEW p \in Proc, NEW label, Goto(p, label)
    PROVE  /\ job'[p] = [job[p] EXCEPT !.pc = label]
           /\ job'[p].pc = label
           /\ \A q \in Proc : q # p => job'[q] = job[q]
  <1>1. job[p] \in Job
    BY DEF TypeOK
  <1>2. QED
    BY <1>1, BecomeAt DEF Goto, Job

LEMMA ReturnAt ==
    ASSUME TypeOK, NEW p \in Proc, NEW a, NEW b, Return(p, a, b)
    PROVE  /\ job'[p].pc = IF p = Daemon THEN a ELSE b
           /\ \A q \in Proc : q # p => job'[q] = job[q]
  <1>1. job[p] \in Job /\ p \in Proc
    BY DEF TypeOK, Proc
  <1>2. /\ job'[p] = [job[p] EXCEPT !.pc = IF p = Daemon THEN a ELSE b,
                                  !.cur = {}, !.row = NoDigest, !.copy = NoCopy]
        /\ \A q \in Proc : q # p => job'[q] = job[q]
    BY <1>1 DEF TypeOK, Become, Return
  <1>3. QED
    BY <1>1, <1>2 DEF Job

LEMMA ReadRowAt ==
    ASSUME TypeOK, NEW p \in Proc, NEW s, NEW row, ReadRow(p, s, row)
    PROVE  /\ job'[p].pc = "flag" /\ job'[p].cur = {s} /\ job'[p].row = row
           /\ \A q \in Proc : q # p => job'[q] = job[q]
  <1>1. job[p] \in Job /\ p \in Proc
    BY DEF TypeOK, Proc
  <1>2. /\ job'[p] = [job[p] EXCEPT !.pc = "flag", !.due = @ \ {s}, !.cur = {s}, !.row = row]
        /\ \A q \in Proc : q # p => job'[q] = job[q]
    BY <1>1 DEF TypeOK, Become, ReadRow
  <1>3. QED
    BY <1>1, <1>2 DEF Job, At, ReadRow

LEMMA RawDoneAt ==
    ASSUME TypeOK, NEW p \in Proc, NEW s, NEW label, RawDone(p, s, label)
    PROVE  /\ job'[p].pc = label
           /\ label # "raw" => job'[p].cur = {s}
           /\ \A q \in Proc : q # p => job'[q] = job[q]
  <1>1. job[p] \in Job /\ p \in Proc
    BY DEF TypeOK, Proc
  <1>2. /\ job'[p] = [job[p] EXCEPT !.pc = label, !.due = @ \ {s},
                                  !.cur = IF label = "raw" THEN {} ELSE {s}]
        /\ \A q \in Proc : q # p => job'[q] = job[q]
    BY <1>1 DEF TypeOK, Become, RawDone
  <1>3. QED
    BY <1>1, <1>2 DEF Job, At, RawDone

\* Steps that build the new job in place.
LEMMA ReadTranscriptAt ==
    ASSUME TypeOK, NEW p \in Proc, NEW t \in Transcript, ReadTranscript(p, t)
    PROVE  /\ job'[p].pc = "store"
           /\ \A q \in Proc : q # p => job'[q] = job[q]
  <1>1. job[p] \in Job /\ p \in Proc
    BY DEF TypeOK, Proc
  <1>2. /\ job'[p] = [job[p] EXCEPT
                       !.pc = "store", !.cur = Family(t),
                       !.copy = [s \in Session |-> IF s \in Family(t) THEN written[s] ELSE 0]]
        /\ \A q \in Proc : q # p => job'[q] = job[q]
    BY <1>1 DEF TypeOK, Become, ReadTranscript
  <1>3. QED
    BY <1>1, <1>2 DEF Job, At, ReadTranscript

LEMMA SkipSessionAt ==
    ASSUME TypeOK, NEW p \in Proc, NEW s \in Session, SkipSession(p, s)
    PROVE  /\ job'[p].pc \in {"settle", "pending"}
           /\ \A q \in Proc : q # p => job'[q] = job[q]
  <1>1. job[p] \in Job /\ p \in Proc
    BY DEF TypeOK, Proc
  <1>2. /\ job'[p] = [job[p] EXCEPT !.due = @ \ {s}]
        /\ \A q \in Proc : q # p => job'[q] = job[q]
    BY <1>1 DEF TypeOK, Become, SkipSession
  <1>3. QED
    BY <1>1, <1>2 DEF Job, At, SkipSession

LEMMA BuildAt ==
    ASSUME TypeOK, NEW p \in Proc, NEW s \in Session, Build(p, s)
    PROVE  /\ job'[p].pc = "stamp" /\ job'[p].cur = {s}
           /\ \A q \in Proc : q # p => job'[q] = job[q]
  <1>1. job[p] \in Job /\ p \in Proc
    BY DEF TypeOK, Proc
  <1>2. /\ job'[p] = [job[p] EXCEPT
                       !.pc = "stamp", !.due = @ \ {s}, !.cur = {s},
                       !.row = [NoDigest EXCEPT !.ver = captured[s]]]
        /\ \A q \in Proc : q # p => job'[q] = job[q]
    BY <1>1 DEF TypeOK, Become, Build
  <1>3. QED
    BY <1>1, <1>2 DEF Job, At, Build

LEMMA StampAt ==
    ASSUME TypeOK, NEW p \in Proc, Stamp(p)
    PROVE  /\ job'[p].pc = "carry" /\ job'[p].cur = job[p].cur
           /\ \A q \in Proc : q # p => job'[q] = job[q]
  <1>1. job[p] \in Job
    BY DEF TypeOK
  <1>2. PICK row : Become(p, [job[p] EXCEPT !.pc = "carry", !.row = row])
    BY DEF Stamp
  <1>3. /\ job'[p] = [job[p] EXCEPT !.pc = "carry", !.row = row]
        /\ \A q \in Proc : q # p => job'[q] = job[q]
    BY <1>2, BecomeAt
  <1>4. QED
    BY <1>1, <1>3 DEF Job

LEMMA CarryAt ==
    ASSUME TypeOK, NEW p \in Proc, Carry(p)
    PROVE  \E s \in job[p].cur :
             /\ s \in Session
             /\ job'[p].pc = "write" /\ job'[p].cur = job[p].cur
             /\ job'[p].row.released = digest[s].released
             /\ Unmark(IF digest[s].ver # 0 THEN {s} ELSE {})
             /\ \A q \in Proc : q # p => job'[q] = job[q]
  <1>1. job[p] \in Job
    BY DEF TypeOK
  <1>2. PICK s \in job[p].cur :
          /\ Become(p, [job[p] EXCEPT
                          !.pc = "write",
                          !.row = [job[p].row EXCEPT !.hold = digest[s].hold,
                                                     !.released = digest[s].released]])
          /\ Unmark(IF digest[s].ver # 0 THEN {s} ELSE {})
    BY DEF Carry
  <1> DEFINE row == [job[p].row EXCEPT !.hold = digest[s].hold,
                                       !.released = digest[s].released]
  <1>3. row.released = digest[s].released
    BY <1>1 DEF Job, Digest
  <1>4. Become(p, [job[p] EXCEPT !.pc = "write", !.row = row])
    BY <1>2
  <1> HIDE DEF row
  <1>5. /\ job'[p] = [job[p] EXCEPT !.pc = "write", !.row = row]
        /\ \A q \in Proc : q # p => job'[q] = job[q]
    BY <1>4, BecomeAt
  <1>6. job'[p].pc = "write" /\ job'[p].cur = job[p].cur /\ job'[p].row = row
    BY <1>1, <1>5 DEF Job
  <1>7. s \in Session
    BY <1>1 DEF Job
  <1>8. QED
    BY <1>2, <1>3, <1>5, <1>6, <1>7

LEMMA BeginSettleAt ==
    ASSUME TypeOK, BeginSettle
    PROVE  /\ job'[Daemon].pc = "settle"
           /\ \A q \in Proc : q # Daemon => job'[q] = job[q]
  <1>1. job[Daemon] \in Job /\ Daemon \in Proc
    BY DEF TypeOK, Proc
  <1>2. PICK S : Become(Daemon, [job[Daemon] EXCEPT !.pc = "settle", !.due = S])
    BY DEF BeginSettle
  <1>3. /\ job'[Daemon] = [job[Daemon] EXCEPT !.pc = "settle", !.due = S]
        /\ \A q \in Proc : q # Daemon => job'[q] = job[q]
    BY <1>1, <1>2 DEF TypeOK, Become
  <1>4. QED
    BY <1>1, <1>3 DEF Job

LEMMA BeginReleaseAt ==
    ASSUME TypeOK, BeginRelease
    PROVE  /\ job'[Daemon].pc = "releasable"
           /\ \A q \in Proc : q # Daemon => job'[q] = job[q]
  <1>1. job[Daemon] \in Job /\ Daemon \in Proc
    BY DEF TypeOK, Proc
  <1>2. /\ job'[Daemon] = [job[Daemon] EXCEPT !.pc = "releasable", !.due = WorkSessions]
        /\ \A q \in Proc : q # Daemon => job'[q] = job[q]
    BY <1>1 DEF TypeOK, Become, BeginRelease
  <1>3. QED
    BY <1>1, <1>2 DEF Job

LEMMA ListReleasableAt ==
    ASSUME TypeOK, ListReleasable
    PROVE  /\ job'[Daemon].pc = "release"
           /\ \A q \in Proc : q # Daemon => job'[q] = job[q]
  <1>1. job[Daemon] \in Job /\ Daemon \in Proc
    BY DEF TypeOK, Proc
  <1>2. PICK S : Become(Daemon, [job[Daemon] EXCEPT !.pc = "release", !.due = S])
    BY DEF ListReleasable
  <1>3. /\ job'[Daemon] = [job[Daemon] EXCEPT !.pc = "release", !.due = S]
        /\ \A q \in Proc : q # Daemon => job'[q] = job[q]
    BY <1>1, <1>2, BecomeAt
  <1>4. QED
    BY <1>1, <1>3 DEF Job

LEMMA ReleaseMissesAt ==
    ASSUME TypeOK, NEW s \in Session, ReleaseMisses(s)
    PROVE  /\ job'[Daemon].pc = "release"
           /\ \A q \in Proc : q # Daemon => job'[q] = job[q]
  <1>1. job[Daemon] \in Job /\ Daemon \in Proc
    BY DEF TypeOK, Proc
  <1>2. /\ job'[Daemon] = [job[Daemon] EXCEPT !.due = @ \ {s}]
        /\ \A q \in Proc : q # Daemon => job'[q] = job[q]
    BY <1>1 DEF TypeOK, Become, ReleaseMisses
  <1>3. QED
    BY <1>1, <1>2 DEF Job, At, ReleaseMisses

LEMMA BeginCompactAt ==
    ASSUME TypeOK, NEW p \in Proc, BeginCompact(p)
    PROVE  /\ job'[p].pc = "pending"
           /\ \A q \in Proc : q # p => job'[q] = job[q]
  <1>1. job[p] \in Job /\ p \in Proc
    BY DEF TypeOK, Proc
  <1>2. PICK S : Become(p, [job[p] EXCEPT !.pc = "pending", !.due = S])
    BY DEF BeginCompact
  <1>3. /\ job'[p] = [job[p] EXCEPT !.pc = "pending", !.due = S]
        /\ \A q \in Proc : q # p => job'[q] = job[q]
    BY <1>1, <1>2 DEF TypeOK, Become
  <1>4. QED
    BY <1>1, <1>3 DEF Job

LEMMA WriteRowAt ==
    ASSUME TypeOK, NEW p \in Proc, WriteRow(p)
    PROVE  /\ job'[p].pc \in {"release", "idle", "online"}
           /\ \A q \in Proc : q # p => job'[q] = job[q]
  <1>1. \/ Return(p, "release", "idle")
        \/ Become(p, [Idle EXCEPT !.pc = IF p = Daemon THEN "online" ELSE "idle"])
    BY DEF WriteRow
  <1>2. QED
    BY <1>1, ReturnAt, BecomeAt DEF Idle

LEMMA BeginSyncAt ==
    ASSUME TypeOK, NEW p \in Proc, BeginSync(p)
    PROVE  /\ job'[p].pc = "gate"
           /\ \A q \in Proc : q # p => job'[q] = job[q]
  <1>1. job[p] \in Job
    BY DEF TypeOK
  <1>2. /\ job'[p] = [job[p] EXCEPT !.pc = "gate", !.due = WorkSessions]
        /\ \A q \in Proc : q # p => job'[q] = job[q]
    BY <1>1, BecomeAt DEF BeginSync
  <1>3. QED
    BY <1>1, <1>2 DEF Job

LEMMA GateAt ==
    ASSUME TypeOK, NEW p \in Proc, Gate(p)
    PROVE  /\ job'[p].pc = "fresh"
           /\ job'[p].copy = [s \in Session |->
                               IF s \in Eligible(job[p].due) THEN digest[s].ver ELSE 0]
           /\ \A q \in Proc : q # p => job'[q] = job[q]
  <1> DEFINE read == [s \in Session |->
                        IF s \in Eligible(job[p].due) THEN digest[s].ver ELSE 0]
  <1>1. job[p] \in Job
    BY DEF TypeOK
  <1>2. PICK S : Become(p, [job[p] EXCEPT !.pc = "fresh", !.due = S, !.copy = read])
    BY DEF Gate
  <1> HIDE DEF read
  <1>3. /\ job'[p] = [job[p] EXCEPT !.pc = "fresh", !.due = S, !.copy = read]
        /\ \A q \in Proc : q # p => job'[q] = job[q]
    BY <1>2, BecomeAt
  <1>4. job'[p].pc = "fresh" /\ job'[p].copy = read
    BY <1>1, <1>3 DEF Job
  <1>5. QED
    BY <1>3, <1>4 DEF read

LEMMA FreshAt ==
    ASSUME TypeOK, NEW p \in Proc, NEW raw \in BOOLEAN, Fresh(p, raw)
    PROVE  /\ job'[p].pc \in {"mark", "push"}
           /\ job'[p].pc = "mark" => job'[p].copy = NoCopy
           /\ job'[p].copy = [s \in Session |-> IF s \in synced THEN 0 ELSE job[p].copy[s]]
           /\ \A q \in Proc : q # p => job'[q] = job[q]
  <1> DEFINE batch == [s \in Session |-> IF s \in synced THEN 0 ELSE job[p].copy[s]]
             label == IF batch = NoCopy THEN "mark" ELSE "push"
  <1>1. job[p] \in Job
    BY DEF TypeOK
  <1>2. PICK S : Become(p, [job[p] EXCEPT !.pc = label, !.due = S, !.copy = batch])
    BY DEF Fresh
  <1>3. label \in {"mark", "push"} /\ (label = "mark" => batch = NoCopy)
    OBVIOUS
  <1> HIDE DEF batch, label
  <1>4. /\ job'[p] = [job[p] EXCEPT !.pc = label, !.due = S, !.copy = batch]
        /\ \A q \in Proc : q # p => job'[q] = job[q]
    BY <1>2, BecomeAt
  <1>5. job'[p].pc = label /\ job'[p].copy = batch
    BY <1>1, <1>4 DEF Job
  <1>6. QED
    BY <1>3, <1>4, <1>5 DEF batch

LEMMA MarkSyncedAt ==
    ASSUME TypeOK, NEW p \in Proc, NEW s \in Session, MarkSynced(p, s)
    PROVE  /\ job[p].pc = "mark" /\ job'[p].pc = "mark"
           /\ job'[p].copy = [job[p].copy EXCEPT ![s] = 0]
           /\ \A q \in Proc : q # p => job'[q] = job[q]
  <1>1. job[p] \in Job
    BY DEF TypeOK
  <1>2. /\ job'[p] = [job[p] EXCEPT !.copy = [job[p].copy EXCEPT ![s] = 0]]
        /\ \A q \in Proc : q # p => job'[q] = job[q]
    BY <1>1 DEF TypeOK, Become, MarkSynced
  <1>3. QED
    BY <1>1, <1>2 DEF Job, At, MarkSynced

LEMMA BeginRawAt ==
    ASSUME TypeOK, NEW p \in Proc, BeginRaw(p)
    PROVE  /\ job'[p].pc = "raw"
           /\ \A q \in Proc : q # p => job'[q] = job[q]
  <1>1. job[p] \in Job
    BY DEF TypeOK
  <1>2. /\ job'[p] = [job[p] EXCEPT !.pc = "raw", !.due = @ \ (rawSynced \cup rawUnavail)]
        /\ \A q \in Proc : q # p => job'[q] = job[q]
    BY <1>1 DEF TypeOK, Become, BeginRaw
  <1>3. QED
    BY <1>1, <1>2 DEF Job

LEMMA UnmarkType ==
    ASSUME TypeOK, NEW S, Unmark(S)
    PROVE  /\ synced' \in SUBSET Session
           /\ rawSynced' \in SUBSET Session
           /\ rawUnavail' \in SUBSET Session
  BY DEF TypeOK, Unmark

\* Every variable the steps below leave alone keeps its type.
LEMMA StutterType == TypeOK /\ UNCHANGED vars => TypeOK'
  BY DEF TypeOK, vars, files, sessions, marks, org, loop, limits

LEMMA WorldType ==
    ASSUME TypeOK, World
    PROVE  TypeOK'
  <1>1. ASSUME NEW t \in Transcript, Settle(t)
        PROVE  TypeOK'
    BY <1>1 DEF TypeOK, Settle, sessions, marks, org, loop, limits
  <1>2. ASSUME NEW t \in Transcript, NEW i \in 1 .. MaxSegs, Append(t, i)
        PROVE  TypeOK'
    <2>1. <<t, i>> \in Session
      BY DEF Session
    <2>2. written' \in [Session -> Nat]
      BY <1>2, <2>1 DEF TypeOK, Append
    <2>3. mtime' \in [Transcript -> Nat] /\ quiet' \in [Transcript -> BOOLEAN]
      BY <1>2 DEF TypeOK, Append
    <2>4. QED
      BY <1>2, <2>2, <2>3 DEF TypeOK, Append, sessions, marks, org, loop, limits
  <1>3. ASSUME NEW s \in Session, Age(s)
        PROVE  TypeOK'
    <2>1. digest' \in [Session -> Digest]
      BY <1>3 DEF TypeOK, Age, Digest
    <2>2. QED
      BY <1>3, <2>1 DEF TypeOK, Age, files, sessions, marks, org, loop, limits
  <1>4. QED
    BY <1>1, <1>2, <1>3 DEF World

\* The read half of a flag update, whoever does it.
LEMMA ReadRowType ==
    ASSUME TypeOK, NEW p \in Proc, NEW s \in Session, NEW row \in Digest,
           ReadRow(p, s, row), commands' \in Nat
    PROVE  TypeOK'
  <1>1. job[p] \in Job
    BY DEF TypeOK
  <1>2. [job[p] EXCEPT !.pc = "flag", !.due = @ \ {s}, !.cur = {s}, !.row = row] \in Job
    BY <1>1 DEF Job, Pc
  <1>3. job' \in [Proc -> Job]
    BY <1>2, BecomeType DEF ReadRow
  <1>4. QED
    BY <1>3 DEF TypeOK, ReadRow, files, sessions, marks, org, loop

LEMMA WatchType ==
    ASSUME TypeOK, Watch
    PROVE  TypeOK'
  <1> USE DEF TypeOK, files, sessions, marks, org, loop, limits
  <1>0. Daemon \in Proc /\ job[Daemon] \in Job
    BY DEF Proc
  <1>1. ASSUME Scan
        PROVE  TypeOK'
    <2>1. job' \in [Proc -> Job]
      BY <1>0, <1>1, GotoType DEF Scan, Pc
    <2>2. seen' \in [Transcript -> Nat] /\ scan' \in [Transcript -> Nat]
      BY <1>1 DEF Scan
    <2>3. QED
      BY <1>1, <2>1, <2>2 DEF Scan
  <1>2. ASSUME BeginSettle
        PROVE  TypeOK'
    <2>1. PICK S \in SUBSET Session :
             Become(Daemon, [job[Daemon] EXCEPT !.pc = "settle", !.due = S])
      BY <1>2 DEF BeginSettle, Unsettled, WorkSessions
    <2>2. [job[Daemon] EXCEPT !.pc = "settle", !.due = S] \in Job
      BY <1>0 DEF Job, Pc
    <2>3. job' \in [Proc -> Job]
      BY <1>0, <2>1, <2>2, BecomeType
    <2>4. QED
      BY <1>2, <2>3 DEF BeginSettle
  <1>3. ASSUME SkipSettle \/ EndRelease
        PROVE  TypeOK'
    <2>1. job' \in [Proc -> Job]
      BY <1>0, <1>3, GotoType DEF SkipSettle, EndRelease, Pc
    <2>2. QED
      BY <1>3, <2>1 DEF SkipSettle, EndRelease
  <1>4. ASSUME SkipSync
        PROVE  TypeOK'
    <2>1. job' \in [Proc -> Job]
      BY <1>0, <1>4, FinishType DEF SkipSync
    <2>2. QED
      BY <1>4, <2>1 DEF SkipSync
  <1>5. ASSUME BeginRelease
        PROVE  TypeOK'
    <2>1. [job[Daemon] EXCEPT !.pc = "releasable", !.due = WorkSessions] \in Job
      BY <1>0 DEF Job, Pc, WorkSessions
    <2>2. job' \in [Proc -> Job]
      BY <1>0, <1>5, <2>1, BecomeType DEF BeginRelease
    <2>3. QED
      BY <1>5, <2>2 DEF BeginRelease
  <1>10. ASSUME ListReleasable
         PROVE  TypeOK'
    <2>1. PICK S \in SUBSET Session :
             Become(Daemon, [job[Daemon] EXCEPT !.pc = "release", !.due = S])
      BY <1>0, <1>10 DEF ListReleasable, Releasable, Job
    <2>2. [job[Daemon] EXCEPT !.pc = "release", !.due = S] \in Job
      BY <1>0 DEF Job, Pc
    <2>3. job' \in [Proc -> Job]
      BY <1>0, <2>1, <2>2, BecomeType
    <2>4. QED
      BY <1>10, <2>3 DEF ListReleasable
  <1>6. ASSUME NEW t \in Transcript, ReadFails(t)
        PROVE  TypeOK'
    BY <1>6 DEF ReadFails
  <1>7. ASSUME NEW s \in Session, AutoRelease(s)
        PROVE  TypeOK'
    <2>1. [digest[s] EXCEPT !.released = TRUE] \in Digest
      BY ZenonT(60) DEF Digest
    <2>2. QED
      BY <1>0, <1>7, <2>1, ReadRowType DEF AutoRelease
  <1>8. ASSUME NEW s \in Session, ReleaseMisses(s)
        PROVE  TypeOK'
    <2>1. [job[Daemon] EXCEPT !.due = @ \ {s}] \in Job
      BY <1>0 DEF Job
    <2>2. job' \in [Proc -> Job]
      BY <1>0, <1>8, <2>1, BecomeType DEF ReleaseMisses
    <2>3. QED
      BY <1>8, <2>2 DEF ReleaseMisses
  <1>9. QED
    BY <1>1, <1>2, <1>3, <1>4, <1>5, <1>6, <1>7, <1>8, <1>10 DEF Watch

LEMMA CommandType ==
    ASSUME TypeOK, NEW p, Command(p)
    PROVE  commands' \in Nat
  BY DEF TypeOK, Command

\* Capture and compaction, by either kind of process.
LEMMA CompactType ==
    ASSUME TypeOK, NEW p \in Proc,
           \/ StoreFamily(p) \/ Stamp(p) \/ Carry(p) \/ WriteDigest(p)
           \/ \E t \in Transcript : ReadTranscript(p, t)
           \/ \E s \in Session : SkipSession(p, s) \/ Build(p, s)
    PROVE  TypeOK'
  <1> USE DEF TypeOK, files, sessions, marks, org, loop, limits
  <1>0. job[p] \in Job
    OBVIOUS
  <1>1. ASSUME StoreFamily(p)
        PROVE  TypeOK'
    <2>1. job' \in [Proc -> Job]
      BY <1>1, ReturnType DEF StoreFamily, Pc
    <2>2. captured' \in [Session -> Nat] /\ personal' \in SUBSET Session
      BY <1>0, <1>1 DEF StoreFamily, Job
    <2>3. seen' \in [Transcript -> Nat] /\ scan' \in [Transcript -> Nat]
      BY <1>1 DEF StoreFamily
    <2>4. QED
      BY <1>1, <2>1, <2>2, <2>3 DEF StoreFamily
  <1>2. ASSUME Carry(p)
        PROVE  TypeOK'
    <2>1. PICK s \in job[p].cur :
            /\ Become(p, [job[p] EXCEPT
                            !.pc = "write",
                            !.row = [job[p].row EXCEPT !.hold = digest[s].hold,
                                                       !.released = digest[s].released]])
            /\ Unmark(IF digest[s].ver # 0 THEN {s} ELSE {})
      BY <1>2 DEF Carry
    <2>2. s \in Session
      BY <1>0 DEF Job
    <2>3. [job[p].row EXCEPT !.hold = digest[s].hold,
                             !.released = digest[s].released] \in Digest
      BY <1>0, <2>2 DEF Job, Digest
    <2>4. [job[p] EXCEPT
             !.pc = "write",
             !.row = [job[p].row EXCEPT !.hold = digest[s].hold,
                                        !.released = digest[s].released]] \in Job
      BY <1>0, <2>3 DEF Job, Pc
    <2>5. job' \in [Proc -> Job]
      BY <2>1, <2>4, BecomeType
    <2>6. QED
      BY <1>2, <2>1, <2>5, UnmarkType DEF Carry
  <1>3. ASSUME WriteDigest(p)
        PROVE  TypeOK'
    <2>1. job' \in [Proc -> Job]
      BY <1>3, ReturnType DEF WriteDigest, Pc
    <2>2. digest' \in [Session -> Digest]
      BY <1>0, <1>3 DEF WriteDigest, Job
    <2>3. QED
      BY <1>3, <2>1, <2>2 DEF WriteDigest
  <1>4. ASSUME NEW t \in Transcript, ReadTranscript(p, t)
        PROVE  TypeOK'
    <2> DEFINE content == [s \in Session |-> IF s \in Family(t) THEN written[s] ELSE 0]
    <2>1. [job[p] EXCEPT !.pc = "store", !.cur = Family(t), !.copy = content] \in Job
      BY <1>0, SessionFacts DEF Job, Pc
    <2>2. job' \in [Proc -> Job]
      BY <1>4, <2>1, BecomeType DEF ReadTranscript
    <2>3. commands' \in Nat
      <3>1. CASE p = Daemon
        BY <1>4, <3>1 DEF ReadTranscript
      <3>2. CASE p # Daemon
        BY <1>4, <3>2, CommandType DEF ReadTranscript
      <3>3. QED
        BY <3>1, <3>2
    <2>4. QED
      BY <1>4, <2>2, <2>3 DEF ReadTranscript
  <1>5. ASSUME NEW s \in Session, SkipSession(p, s)
        PROVE  TypeOK'
    <2>1. [job[p] EXCEPT !.due = @ \ {s}] \in Job
      BY <1>0 DEF Job
    <2>2. job' \in [Proc -> Job]
      BY <1>5, <2>1, BecomeType DEF SkipSession
    <2>3. QED
      BY <1>5, <2>2 DEF SkipSession
  <1>6. ASSUME NEW s \in Session, Build(p, s)
        PROVE  TypeOK'
    <2>1. [NoDigest EXCEPT !.ver = captured[s]] \in Digest
      BY DEF NoDigest, Digest
    <2>2. [job[p] EXCEPT
             !.pc = "stamp", !.due = @ \ {s}, !.cur = {s},
             !.row = [NoDigest EXCEPT !.ver = captured[s]]] \in Job
      BY <1>0, <2>1 DEF Job, Pc
    <2>3. job' \in [Proc -> Job]
      BY <1>6, <2>2, BecomeType DEF Build
    <2>4. QED
      BY <1>6, <2>3 DEF Build
  <1>7. ASSUME Stamp(p)
        PROVE  TypeOK'
    <2>1. PICK s \in job[p].cur :
            Become(p, [job[p] EXCEPT !.pc = "carry",
                                     !.row = [job[p].row EXCEPT !.built = mtime[File(s)]]])
      BY <1>7 DEF Stamp
    <2>2. mtime[File(s)] \in Nat
      BY <1>0, SessionFacts DEF Job
    <2>3. [job[p].row EXCEPT !.built = mtime[File(s)]] \in Digest
      BY <1>0, <2>2 DEF Job, Digest
    <2>4. [job[p] EXCEPT !.pc = "carry",
                         !.row = [job[p].row EXCEPT !.built = mtime[File(s)]]] \in Job
      BY <1>0, <2>3 DEF Job, Pc
    <2>5. job' \in [Proc -> Job]
      BY <2>1, <2>4, BecomeType
    <2>6. QED
      BY <1>7, <2>5 DEF Stamp
  <1>8. QED
    BY <1>1, <1>2, <1>3, <1>4, <1>5, <1>6, <1>7

\* The write half of a flag update.
LEMMA WriteRowType ==
    ASSUME TypeOK, NEW p \in Proc, WriteRow(p)
    PROVE  TypeOK'
  <1> USE DEF TypeOK, files, sessions, marks, org, loop, limits
  <1>1. PICK s \in job[p].cur :
          IF digest[s].ver # 0
          THEN /\ digest' = [digest EXCEPT ![s] = job[p].row]
               /\ consent' = [consent EXCEPT ![s] = Decided(p, s, job[p].row)]
               /\ Return(p, "release", "idle")
          ELSE /\ Become(p, [Idle EXCEPT !.pc = IF p = Daemon THEN "online" ELSE "idle"])
               /\ UNCHANGED <<digest, consent>>
    BY DEF WriteRow
  <1>2. job[p].row \in Digest /\ s \in Session
    BY DEF Job
  <1>3. Decided(p, s, job[p].row) \in SUBSET Decision
    BY <1>2 DEF Decided, Decision
  <1>4. digest' \in [Session -> Digest] /\ consent' \in [Session -> SUBSET Decision]
    BY <1>1, <1>2, <1>3
  <1>5. [Idle EXCEPT !.pc = IF p = Daemon THEN "online" ELSE "idle"] \in Job
    BY IdleIsJob DEF Job, Pc
  <1>6. job' \in [Proc -> Job]
    BY <1>1, <1>5, BecomeType, ReturnType DEF Pc
  <1>7. QED
    BY <1>4, <1>6 DEF WriteRow

\* The server holds natural numbers of turns after any part of a batch.
LEMMA UpsertedType ==
    ASSUME TypeOK, NEW p \in Proc, NEW S
    PROVE  Upserted(p, S) \in [Session -> Nat]
  BY DEF TypeOK, Upserted, Job

\* Pushing and marking, by either kind of process.
LEMMA SyncType ==
    ASSUME TypeOK, NEW p \in Proc,
           \/ Push(p) \/ PushFails(p) \/ BeginRaw(p) \/ MarkRaw(p)
           \/ MarkRawUnavailable(p) \/ EndSync(p)
           \/ BeginSync(p) \/ Gate(p) \/ \E raw \in BOOLEAN : Fresh(p, raw)
           \/ \E s \in Session : \/ MarkSynced(p, s) \/ PushRaw(p, s)
                                 \/ RawRetry(p, s) \/ RawRefused(p, s)
    PROVE  TypeOK'
  <1> USE DEF TypeOK, files, sessions, marks, org, loop, limits
  <1>0. job[p] \in Job
    OBVIOUS
  <1>1. ASSUME Push(p)
        PROVE  TypeOK'
    <2>1. job' \in [Proc -> Job]
      BY <1>1, GotoType DEF Push, Pc
    <2>2. QED
      BY <1>1, <2>1, UpsertedType DEF Push
  <1>2. ASSUME PushFails(p)
        PROVE  TypeOK'
    <2>1. job' \in [Proc -> Job]
      BY <1>2, FinishType DEF PushFails
    <2>2. server' \in [Session -> Nat]
      BY <1>2, UpsertedType DEF PushFails
    <2>3. QED
      BY <1>2, <2>1, <2>2 DEF PushFails
  <1>3. ASSUME BeginRaw(p)
        PROVE  TypeOK'
    <2>1. [job[p] EXCEPT !.pc = "raw", !.due = @ \ (rawSynced \cup rawUnavail)] \in Job
      BY <1>0 DEF Job, Pc
    <2>2. job' \in [Proc -> Job]
      BY <1>3, <2>1, BecomeType DEF BeginRaw
    <2>3. QED
      BY <1>3, <2>2 DEF BeginRaw
  <1>4. ASSUME MarkRaw(p) \/ MarkRawUnavailable(p)
        PROVE  TypeOK'
    <2>1. job' \in [Proc -> Job]
      BY <1>4, ReturnType DEF MarkRaw, MarkRawUnavailable, Pc
    <2>2. rawSynced' \in SUBSET Session /\ rawUnavail' \in SUBSET Session
      BY <1>0, <1>4 DEF MarkRaw, MarkRawUnavailable, Job
    <2>3. QED
      BY <1>4, <2>1, <2>2 DEF MarkRaw, MarkRawUnavailable
  <1>5. ASSUME EndSync(p)
        PROVE  TypeOK'
    <2>1. job' \in [Proc -> Job]
      BY <1>5, FinishType DEF EndSync
    <2>2. QED
      BY <1>5, <2>1 DEF EndSync
  <1>6. ASSUME BeginSync(p)
        PROVE  TypeOK'
    <2>1. [job[p] EXCEPT !.pc = "gate", !.due = WorkSessions] \in Job
      BY <1>0 DEF Job, Pc, WorkSessions
    <2>2. job' \in [Proc -> Job]
      BY <1>6, <2>1, BecomeType DEF BeginSync
    <2>3. commands' \in Nat
      <3>1. CASE p = Daemon
        BY <1>6, <3>1 DEF BeginSync
      <3>2. CASE p # Daemon
        BY <1>6, <3>2, CommandType DEF BeginSync
      <3>3. QED
        BY <3>1, <3>2
    <2>4. QED
      BY <1>6, <2>2, <2>3 DEF BeginSync
  <1>10. ASSUME Gate(p)
         PROVE  TypeOK'
    <2> DEFINE read == [s \in Session |->
                          IF s \in Eligible(job[p].due) THEN digest[s].ver ELSE 0]
    <2>1. read \in [Session -> Nat]
      BY DEF Digest
    <2>2. PICK S \in SUBSET Session :
             Become(p, [job[p] EXCEPT !.pc = "fresh", !.due = S, !.copy = read])
      BY <1>0, <1>10 DEF Gate, Eligible, Job
    <2> HIDE DEF read
    <2>3. [job[p] EXCEPT !.pc = "fresh", !.due = S, !.copy = read] \in Job
      BY <1>0, <2>1 DEF Job, Pc
    <2>4. job' \in [Proc -> Job]
      BY <2>2, <2>3, BecomeType
    <2>5. QED
      BY <1>10, <2>4 DEF Gate
  <1>11. ASSUME NEW raw \in BOOLEAN, Fresh(p, raw)
         PROVE  TypeOK'
    <2> DEFINE batch == [s \in Session |-> IF s \in synced THEN 0 ELSE job[p].copy[s]]
               label == IF batch = NoCopy THEN "mark" ELSE "push"
    <2>1. batch \in [Session -> Nat] /\ label \in Pc
      BY <1>0 DEF Job, Pc
    <2>2. PICK S \in SUBSET Session :
             Become(p, [job[p] EXCEPT !.pc = label, !.due = S, !.copy = batch])
      BY <1>0, <1>11 DEF Fresh, Job
    <2> HIDE DEF batch, label
    <2>3. [job[p] EXCEPT !.pc = label, !.due = S, !.copy = batch] \in Job
      BY <1>0, <2>1 DEF Job
    <2>4. job' \in [Proc -> Job]
      BY <2>2, <2>3, BecomeType
    <2>5. QED
      BY <1>11, <2>4 DEF Fresh
  <1>7. ASSUME NEW s \in Session, MarkSynced(p, s)
        PROVE  TypeOK'
    <2>1. [job[p] EXCEPT !.copy = [job[p].copy EXCEPT ![s] = 0]] \in Job
      BY <1>0 DEF Job
    <2>2. job' \in [Proc -> Job]
      BY <1>7, <2>1, BecomeType DEF MarkSynced
    <2>3. QED
      BY <1>7, <2>2 DEF MarkSynced
  <1>8. ASSUME NEW s \in Session, PushRaw(p, s) \/ RawRetry(p, s) \/ RawRefused(p, s)
        PROVE  TypeOK'
    <2>1. ASSUME NEW label \in Pc, RawDone(p, s, label)
          PROVE  job' \in [Proc -> Job]
      <3>1. [job[p] EXCEPT !.pc = label, !.due = @ \ {s},
                           !.cur = IF label = "raw" THEN {} ELSE {s}] \in Job
        BY <1>0 DEF Job
      <3>2. QED
        BY <2>1, <3>1, BecomeType DEF RawDone
    <2>2. job' \in [Proc -> Job]
      BY <1>8, <2>1 DEF PushRaw, RawRetry, RawRefused, Pc
    <2>3. serverRaw' \in [Session -> Nat]
      BY <1>8 DEF PushRaw, RawRetry, RawRefused
    <2>4. QED
      BY <1>8, <2>2, <2>3 DEF PushRaw, RawRetry, RawRefused
  <1>9. QED
    BY <1>1, <1>2, <1>3, <1>4, <1>5, <1>6, <1>7, <1>8, <1>10, <1>11

LEMMA CrashType ==
    ASSUME TypeOK, NEW p \in Proc, Crash(p)
    PROVE  TypeOK'
  <1>1. job' \in [Proc -> Job]
    BY FinishType DEF Crash
  <1>2. crashes' \in Nat /\ seen' \in [Transcript -> Nat] /\ scan' \in [Transcript -> Nat]
    BY DEF TypeOK, Crash, loop
  <1>3. QED
    BY <1>1, <1>2 DEF TypeOK, Crash, files, sessions, marks, org

LEMMA EngineerType ==
    ASSUME TypeOK, NEW p \in Proc, Engineer(p)
    PROVE  TypeOK'
  <1> USE DEF TypeOK, files, sessions, marks, org, loop, limits
  <1>0. job[p] \in Job
    OBVIOUS
  <1>1. ASSUME BeginCompact(p)
        PROVE  TypeOK'
    <2>1. PICK S \in SUBSET Session :
            /\ Become(p, [job[p] EXCEPT !.pc = "pending", !.due = S])
            /\ consent' = [s \in Session |->
                              IF s \in S THEN consent[s] \ {"purged"} ELSE consent[s]]
      BY ZenonT(60), <1>1 DEF BeginCompact, Pending, WorkSessions
    <2>2. [job[p] EXCEPT !.pc = "pending", !.due = S] \in Job
      BY <1>0 DEF Job, Pc
    <2>3. job' \in [Proc -> Job]
      BY <2>1, <2>2, BecomeType
    <2>4. commands' \in Nat
      BY <1>1, CommandType DEF BeginCompact
    <2>5. consent' \in [Session -> SUBSET Decision]
      BY <2>1
    <2>6. QED
      BY <1>1, <2>3, <2>4, <2>5 DEF BeginCompact
  <1>2. ASSUME EndCompact(p)
        PROVE  TypeOK'
    <2>1. job' \in [Proc -> Job]
      BY <1>2, FinishType DEF EndCompact
    <2>2. QED
      BY <1>2, <2>1 DEF EndCompact
  <1>3. ASSUME NEW s \in Session, NEW b \in BOOLEAN, SetMode(p, s, b)
        PROVE  TypeOK'
    <2>1. commands' \in Nat
      BY <1>3, CommandType DEF SetMode
    <2>2. personal' \in SUBSET Session
      BY <1>3 DEF SetMode
    <2>3. consent' \in [Session -> SUBSET Decision]
      BY <1>3 DEF SetMode, Decision
    <2>4. QED
      BY <1>3, <2>1, <2>2, <2>3 DEF SetMode
  <1>4. ASSUME NEW s \in Session, NEW b \in BOOLEAN, SetHold(p, s, b) \/ SetReleased(p, s, b)
        PROVE  TypeOK'
    <2>1. /\ [digest[s] EXCEPT !.hold = b] \in Digest
          /\ [digest[s] EXCEPT !.released = b] \in Digest
      BY DEF Digest
    <2>2. commands' \in Nat
      BY <1>4, CommandType DEF SetHold, SetReleased
    <2>3. QED
      BY <1>4, <2>1, <2>2, ReadRowType DEF SetHold, SetReleased
  <1>5. ASSUME NEW S \in SUBSET Session, Purge(p, S)
        PROVE  TypeOK'
    <2>1. commands' \in Nat
      BY <1>5, CommandType DEF Purge
    <2>2. digest' \in [Session -> Digest]
      BY <1>5, IdleIsJob DEF Purge
    <2>3. consent' \in [Session -> SUBSET Decision]
      BY <1>5 DEF Purge, Decision
    <2>4. QED
      BY <1>5, <2>1, <2>2, <2>3, UnmarkType DEF Purge
  <1>6. ASSUME NEW S \in SUBSET Session, Resync(p, S)
        PROVE  TypeOK'
    <2>1. commands' \in Nat
      BY <1>6, CommandType DEF Resync
    <2>2. QED
      BY <1>6, <2>1, UnmarkType DEF Resync
  <1>7. QED
    BY <1>1, <1>2, <1>3, <1>4, <1>5, <1>6 DEF Engineer

LEMMA NextTypeOK == TypeOK /\ [Next]_vars => TypeOK'
  <1> SUFFICES ASSUME TypeOK, [Next]_vars
               PROVE  TypeOK'
    OBVIOUS
  <1>1. CASE World
    BY <1>1, WorldType
  <1>2. CASE Watch
    BY <1>2, WatchType
  <1>3. ASSUME NEW p \in Proc, Shared(p)
        PROVE  TypeOK'
    BY <1>3, CompactType, WriteRowType, SyncType, CrashType DEF Shared
  <1>4. ASSUME NEW p \in Foreground, Engineer(p)
        PROVE  TypeOK'
    BY <1>4, EngineerType DEF Proc
  <1>5. CASE UNCHANGED vars
    BY <1>5, StutterType
  <1>6. QED
    BY <1>1, <1>2, <1>3, <1>4, <1>5 DEF Next

\* Every reachable state is well typed: rows, watermarks and jobs only ever hold
\* what the store's tables and the operations' local variables can hold.
THEOREM TypeCorrect == Spec => []TypeOK
  <1>1. QED
    BY InitTypeOK, NextTypeOK, PTL DEF Spec

-----------------------------------------------------------------------------
\* Watermarks never run ahead of the server

\* A process that is about to mark a session as synced has seen the server take it.
MarksWhatWasPushed ==
    \A p \in Proc :
        /\ At(p, "mark") => \A s \in Batch(p) : server[s] # 0
        /\ At(p, "rawmark") => \A s \in job[p].cur : server[s] # 0

AckInv == TypeOK /\ AcknowledgedOnServer /\ MarksWhatWasPushed

\* A step that takes nothing from the server, marks nothing and leads no process to a
\* marking step preserves the invariant.
LEMMA AckFrame ==
    ASSUME AckInv,
           \A s \in Session : server[s] # 0 => server'[s] # 0,
           synced' \subseteq synced, rawSynced' \subseteq rawSynced,
           \A q \in Proc : job'[q] = job[q] \/ job'[q].pc \notin {"mark", "rawmark"}
    PROVE  AcknowledgedOnServer' /\ MarksWhatWasPushed'
  BY DEF AckInv, TypeOK, AcknowledgedOnServer, MarksWhatWasPushed, At, Batch, Job

LEMMA AckLocal ==
    ASSUME AckInv, World \/ Watch \/ UNCHANGED vars
    PROVE  AcknowledgedOnServer' /\ MarksWhatWasPushed'
  <1>0. TypeOK /\ Daemon \in Proc
    BY DEF AckInv, Proc
  <1>1. server' = server /\ synced' = synced /\ rawSynced' = rawSynced
    BY DEF World, Settle, Append, Age, Watch, Scan, BeginSettle, SkipSettle, BeginRelease,
           ListReleasable, EndRelease, SkipSync, ReadFails, AutoRelease, ReadRow, ReleaseMisses, vars, marks, org
  <1>2. \A q \in Proc : job'[q] = job[q] \/ job'[q].pc \notin {"mark", "rawmark"}
    <2>1. CASE World \/ UNCHANGED vars \/ \E t \in Transcript : ReadFails(t)
      BY <2>1 DEF World, Settle, Append, Age, ReadFails, vars
    <2>2. CASE Scan \/ SkipSettle \/ EndRelease
      BY <1>0, <2>2, GotoAt DEF Scan, SkipSettle, EndRelease
    <2>3. CASE SkipSync
      BY <1>0, <2>3, FinishAt DEF SkipSync, Idle
    <2>4. CASE BeginSettle \/ BeginRelease \/ ListReleasable
      BY <1>0, <2>4, BeginSettleAt, BeginReleaseAt, ListReleasableAt
    <2>5. CASE \E s \in Session : AutoRelease(s) \/ ReleaseMisses(s)
      BY <1>0, <2>5, ReadRowAt, ReleaseMissesAt DEF AutoRelease
    <2>6. QED
      BY <2>1, <2>2, <2>3, <2>4, <2>5 DEF Watch
  <1>3. QED
    BY <1>1, <1>2, AckFrame

LEMMA AckCompact ==
    ASSUME AckInv, NEW p \in Proc,
           \/ StoreFamily(p) \/ Stamp(p) \/ Carry(p) \/ WriteDigest(p) \/ WriteRow(p)
           \/ Crash(p)
           \/ \E t \in Transcript : ReadTranscript(p, t)
           \/ \E s \in Session : SkipSession(p, s) \/ Build(p, s)
    PROVE  AcknowledgedOnServer' /\ MarksWhatWasPushed'
  <1>0. TypeOK
    BY DEF AckInv
  <1>1. server' = server /\ synced' \subseteq synced /\ rawSynced' \subseteq rawSynced
    BY DEF StoreFamily, Stamp, Carry, Unmark, WriteDigest, WriteRow, Crash, ReadTranscript,
           SkipSession, Build, marks, org
  <1>2. \A q \in Proc : job'[q] = job[q] \/ job'[q].pc \notin {"mark", "rawmark"}
    <2>1. CASE StoreFamily(p) \/ WriteDigest(p)
      BY <1>0, <2>1, ReturnAt DEF StoreFamily, WriteDigest
    <2>2. CASE Stamp(p) \/ Carry(p)
      BY <1>0, <2>2, StampAt, CarryAt
    <2>3. CASE WriteRow(p)
      BY <1>0, <2>3, WriteRowAt
    <2>4. CASE Crash(p)
      BY <1>0, <2>4, FinishAt DEF Crash, Idle
    <2>5. CASE \E t \in Transcript : ReadTranscript(p, t)
      BY <1>0, <2>5, ReadTranscriptAt
    <2>6. CASE \E s \in Session : SkipSession(p, s) \/ Build(p, s)
      BY <1>0, <2>6, SkipSessionAt, BuildAt
    <2>7. QED
      BY <2>1, <2>2, <2>3, <2>4, <2>5, <2>6
  <1>3. QED
    BY <1>1, <1>2, AckFrame

LEMMA AckEngineer ==
    ASSUME AckInv, NEW p \in Proc, Engineer(p)
    PROVE  AcknowledgedOnServer' /\ MarksWhatWasPushed'
  <1>0. TypeOK
    BY DEF AckInv
  <1>1. server' = server /\ synced' \subseteq synced /\ rawSynced' \subseteq rawSynced
    BY DEF Engineer, BeginCompact, EndCompact, SetMode, SetHold, SetReleased, ReadRow,
           Purge, Resync, Unmark, marks, org
  <1>2. \A q \in Proc : job'[q] = job[q] \/ job'[q].pc \notin {"mark", "rawmark"}
    <2>1. CASE BeginCompact(p)
      BY <1>0, <2>1, BeginCompactAt
    <2>2. CASE EndCompact(p)
      BY <1>0, <2>2, FinishAt DEF EndCompact, Idle
    <2>3. CASE \E s \in Session, b \in BOOLEAN : SetHold(p, s, b) \/ SetReleased(p, s, b)
      BY <1>0, <2>3, ReadRowAt DEF SetHold, SetReleased
    <2>4. CASE \/ \E s \in Session, b \in BOOLEAN : SetMode(p, s, b)
               \/ \E S \in SUBSET Session : Purge(p, S) \/ Resync(p, S)
      BY <2>4 DEF SetMode, Purge, Resync
    <2>5. QED
      BY <2>1, <2>2, <2>3, <2>4 DEF Engineer
  <1>3. QED
    BY <1>1, <1>2, AckFrame

\* The steps of a sync.
LEMMA AckSync ==
    ASSUME AckInv, NEW p \in Proc,
           \/ Push(p) \/ PushFails(p) \/ BeginRaw(p) \/ MarkRaw(p)
           \/ MarkRawUnavailable(p) \/ EndSync(p)
           \/ BeginSync(p) \/ Gate(p) \/ \E raw \in BOOLEAN : Fresh(p, raw)
           \/ \E s \in Session : \/ MarkSynced(p, s) \/ PushRaw(p, s)
                                 \/ RawRetry(p, s) \/ RawRefused(p, s)
    PROVE  AcknowledgedOnServer' /\ MarksWhatWasPushed'
  <1>0. TypeOK /\ AcknowledgedOnServer /\ MarksWhatWasPushed
    BY DEF AckInv
  <1>1. CASE Push(p)
    <2>1. /\ job'[p].pc = "mark" /\ job'[p].copy = job[p].copy
          /\ \A q \in Proc : q # p => job'[q] = job[q]
      <3>1. /\ job'[p] = [job[p] EXCEPT !.pc = "mark"]
            /\ \A q \in Proc : q # p => job'[q] = job[q]
        BY <1>0, <1>1, GotoAt DEF Push
      <3>2. job[p] \in Job
        BY <1>0 DEF TypeOK
      <3>3. QED
        BY <3>1, <3>2 DEF Job
    <2>2. /\ \A s \in Session : job[p].copy[s] # 0 => server'[s] # 0
          /\ \A s \in Session : server[s] # 0 => server'[s] # 0
      BY <1>1 DEF Push, Upserted, Batch
    <2>3. synced' = synced /\ rawSynced' = rawSynced
      BY <1>1 DEF Push, marks
    <2>4. AcknowledgedOnServer'
      BY <1>0, <2>2, <2>3 DEF AcknowledgedOnServer, TypeOK
    <2>5. MarksWhatWasPushed'
      BY <1>0, <2>1, <2>2 DEF MarksWhatWasPushed, At, Batch, TypeOK, Job
    <2>6. QED
      BY <2>4, <2>5
  <1>2. CASE PushFails(p)
    <2>1. \A q \in Proc : job'[q] = job[q] \/ job'[q].pc \notin {"mark", "rawmark"}
      BY <1>0, <1>2, FinishAt DEF PushFails, Idle
    <2>2. \A s \in Session : server[s] # 0 => server'[s] # 0
      BY <1>2 DEF PushFails, Upserted, Batch
    <2>3. synced' = synced /\ rawSynced' = rawSynced
      BY <1>2 DEF PushFails, marks
    <2>4. QED
      BY <2>1, <2>2, <2>3, AckFrame
  <1>3. CASE BeginRaw(p) \/ MarkRawUnavailable(p) \/ EndSync(p)
    <2>1. \A q \in Proc : job'[q] = job[q] \/ job'[q].pc \notin {"mark", "rawmark"}
      BY <1>0, <1>3, BeginRawAt, ReturnAt, FinishAt DEF MarkRawUnavailable, EndSync, Idle
    <2>2. server' = server /\ synced' = synced /\ rawSynced' = rawSynced
      BY <1>3 DEF BeginRaw, MarkRawUnavailable, EndSync, marks, org
    <2>3. QED
      BY <2>1, <2>2, AckFrame
  <1>4. CASE MarkRaw(p)
    <2>1. /\ job'[p].pc = "raw"
          /\ \A q \in Proc : q # p => job'[q] = job[q]
      BY <1>0, <1>4, ReturnAt DEF MarkRaw
    <2>2. server' = server /\ synced' = synced /\ rawSynced' = rawSynced \cup job[p].cur
      BY <1>4 DEF MarkRaw, org
    <2>3. \A s \in job[p].cur : server[s] # 0
      BY <1>0, <1>4 DEF MarksWhatWasPushed, MarkRaw
    <2>4. AcknowledgedOnServer'
      BY <1>0, <2>2, <2>3 DEF AcknowledgedOnServer
    <2>5. MarksWhatWasPushed'
      BY <1>0, <2>1, <2>2 DEF MarksWhatWasPushed, At, Batch
    <2>6. QED
      BY <2>4, <2>5
  <1>5. ASSUME NEW raw \in BOOLEAN, Fresh(p, raw)
        PROVE  AcknowledgedOnServer' /\ MarksWhatWasPushed'
    <2>1. server' = server /\ synced' = synced /\ rawSynced' = rawSynced
      BY <1>5 DEF Fresh, marks, org
    <2>2. At(p, "mark")' => \A s \in Session : job'[p].copy[s] = 0
      BY ZenonT(60), <1>0, <1>5, FreshAt DEF At, NoCopy
    <2>3. /\ job'[p].pc # "rawmark"
          /\ \A q \in Proc : q # p => job'[q] = job[q]
      BY <1>0, <1>5, FreshAt
    <2>4. AcknowledgedOnServer'
      BY <1>0, <2>1 DEF AcknowledgedOnServer
    <2>5. MarksWhatWasPushed'
      BY <1>0, <2>1, <2>2, <2>3 DEF MarksWhatWasPushed, At, Batch
    <2>6. QED
      BY <2>4, <2>5
  <1>10. CASE BeginSync(p) \/ Gate(p)
    <2>1. \A q \in Proc : job'[q] = job[q] \/ job'[q].pc \notin {"mark", "rawmark"}
      BY <1>0, <1>10, BeginSyncAt, GateAt
    <2>2. server' = server /\ synced' = synced /\ rawSynced' = rawSynced
      BY <1>10 DEF BeginSync, Gate, marks, org
    <2>3. QED
      BY <2>1, <2>2, AckFrame
  <1>6. ASSUME NEW s \in Session, MarkSynced(p, s)
        PROVE  AcknowledgedOnServer' /\ MarksWhatWasPushed'
    <2>1. server' = server /\ synced' = synced \cup {s} /\ rawSynced' = rawSynced
      BY <1>6 DEF MarkSynced, org
    <2>2. server[s] # 0
      BY <1>0, <1>6 DEF MarkSynced, MarksWhatWasPushed
    <2>3. /\ job[p].pc = "mark" /\ job'[p].pc = "mark"
          /\ job'[p].copy = [job[p].copy EXCEPT ![s] = 0]
          /\ \A q \in Proc : q # p => job'[q] = job[q]
      BY <1>0, <1>6, MarkSyncedAt
    <2>7. job[p].copy \in [Session -> Nat]
      BY <1>0 DEF TypeOK, Job
    <2>8. \A r \in Session : job'[p].copy[r] # 0 => job[p].copy[r] # 0
      BY <2>3, <2>7
    <2>4. AcknowledgedOnServer'
      BY <1>0, <2>1, <2>2 DEF AcknowledgedOnServer
    <2>5. MarksWhatWasPushed'
      <3>1. Batch(p)' \subseteq Batch(p) /\ At(p, "mark") /\ At(p, "mark")'
        BY <2>3, <2>8 DEF Batch, At
      <3>2. \A q \in Proc : q # p => Batch(q)' = Batch(q) /\ job'[q] = job[q]
        BY <2>3 DEF Batch, At
      <3>3. ~At(p, "rawmark")'
        BY <3>1 DEF At
      <3>4. QED
        BY <1>0, <2>1, <3>1, <3>2, <3>3 DEF MarksWhatWasPushed, At
    <2>6. QED
      BY <2>4, <2>5
  <1>7. ASSUME NEW s \in Session, PushRaw(p, s)
        PROVE  AcknowledgedOnServer' /\ MarksWhatWasPushed'
    <2>1. server' = server /\ synced' = synced /\ rawSynced' = rawSynced /\ server[s] # 0
      BY <1>7 DEF PushRaw, marks
    <2>2. /\ job'[p].pc = "rawmark" /\ job'[p].cur = {s}
          /\ \A q \in Proc : q # p => job'[q] = job[q]
      <3>1. RawDone(p, s, "rawmark")
        BY <1>7 DEF PushRaw
      <3>2. QED
        BY <1>0, <3>1, RawDoneAt
    <2>3. AcknowledgedOnServer'
      BY <1>0, <2>1 DEF AcknowledgedOnServer
    <2>4. MarksWhatWasPushed'
      BY <1>0, <2>1, <2>2 DEF MarksWhatWasPushed, At, Batch
    <2>5. QED
      BY <2>3, <2>4
  <1>8. ASSUME NEW s \in Session, RawRetry(p, s) \/ RawRefused(p, s)
        PROVE  AcknowledgedOnServer' /\ MarksWhatWasPushed'
    <2>1. \A q \in Proc : job'[q] = job[q] \/ job'[q].pc \notin {"mark", "rawmark"}
      <3>1. RawDone(p, s, "raw") \/ RawDone(p, s, "rawbad")
        BY <1>8 DEF RawRetry, RawRefused
      <3>2. job'[p].pc \in {"raw", "rawbad"} /\ \A q \in Proc : q # p => job'[q] = job[q]
        BY <1>0, <3>1, RawDoneAt
      <3>3. QED
        BY <3>2
    <2>2. server' = server /\ synced' = synced /\ rawSynced' = rawSynced
      BY <1>8 DEF RawRetry, RawRefused, marks, org
    <2>3. QED
      BY <2>1, <2>2, AckFrame
  <1>9. QED
    BY <1>1, <1>2, <1>3, <1>4, <1>5, <1>6, <1>7, <1>8, <1>10

LEMMA InitAck == Init => AckInv
  <1>1. Init => AcknowledgedOnServer /\ MarksWhatWasPushed
    BY DEF Init, AcknowledgedOnServer, MarksWhatWasPushed, At, Idle
  <1>2. QED
    BY <1>1, InitTypeOK DEF AckInv

LEMMA NextAck == AckInv /\ [Next]_vars => AckInv'
  <1> SUFFICES ASSUME AckInv, [Next]_vars
               PROVE  AcknowledgedOnServer' /\ MarksWhatWasPushed'
    BY NextTypeOK DEF AckInv
  <1>1. CASE World \/ Watch \/ UNCHANGED vars
    BY <1>1, AckLocal
  <1>2. ASSUME NEW p \in Proc, Shared(p)
        PROVE  AcknowledgedOnServer' /\ MarksWhatWasPushed'
    BY <1>2, AckCompact, AckSync DEF Shared
  <1>3. ASSUME NEW p \in Foreground, Engineer(p)
        PROVE  AcknowledgedOnServer' /\ MarksWhatWasPushed'
    BY <1>3, AckEngineer DEF Proc
  <1>4. QED
    BY <1>1, <1>2, <1>3 DEF Next

\* A session marked as synced, digest or raw transcript, has a digest on the server,
\* under every interleaving of the daemon and any number of foreground operations, and
\* whatever crashes, failed pushes and lost replies (SyncClient.sync marks only after a
\* push whose reply counted the whole batch).
THEOREM Acknowledged == Spec => []AcknowledgedOnServer
  <1>1. AckInv => AcknowledgedOnServer
    BY DEF AckInv
  <1>2. QED
    BY <1>1, InitAck, NextAck, PTL DEF Spec

-----------------------------------------------------------------------------
\* Nothing leaves the laptop before it is released

\* Whatever may still reach the store or the server as released was released: rows in
\* the store, the row a compaction is about to write, the batch a sync is about to push.
ReleasedRows == \A s \in Session : digest[s].released => "released" \in consent[s]

ReleasedInFlight ==
    \A p \in Proc :
        /\ At(p, "stamp") \/ At(p, "carry") => \A a, b \in job[p].cur : a = b
        /\ At(p, "write") /\ job[p].row.released =>
              \A s \in job[p].cur : "released" \in consent[s]
        /\ At(p, "fresh") \/ At(p, "push") => \A s \in Batch(p) : "released" \in consent[s]

\* The steps at which a process holds content it is about to store or to send.
Holding == {"stamp", "carry", "write", "fresh", "push"}

USE DEF Holding

ReleaseInv == TypeOK /\ ReleasedBeforeLeaving /\ ReleasedRows /\ ReleasedInFlight

\* A step that sends nothing, releases nothing and leads no process to a step that
\* could preserves the invariant.
LEMMA ReleaseFrame ==
    ASSUME ReleaseInv,
           server' = server, serverRaw' = serverRaw,
           \A s \in Session : "released" \in consent[s] => "released" \in consent'[s],
           \A s \in Session : digest'[s].released => digest[s].released,
           \A q \in Proc : job'[q] = job[q] \/ job'[q].pc \notin Holding
    PROVE  ReleasedBeforeLeaving' /\ ReleasedRows' /\ ReleasedInFlight'
  <1>1. ReleasedBeforeLeaving'
    BY DEF ReleaseInv, ReleasedBeforeLeaving
  <1>2. ReleasedRows'
    BY DEF ReleaseInv, ReleasedRows
  <1>3. ASSUME NEW q \in Proc
        PROVE  /\ At(q, "stamp")' \/ At(q, "carry")' => \A a, b \in job'[q].cur : a = b
               /\ At(q, "write")' /\ job'[q].row.released =>
                     \A s \in job'[q].cur : "released" \in consent'[s]
               /\ At(q, "fresh")' \/ At(q, "push")' =>
                     \A s \in Batch(q)' : "released" \in consent'[s]
    <2>1. job[q].cur \subseteq Session
      BY DEF ReleaseInv, TypeOK, Job
    <2>2. CASE job'[q] = job[q]
      BY <2>1, <2>2 DEF ReleaseInv, ReleasedInFlight, At, Batch
    <2>3. CASE job'[q].pc \notin Holding
      BY <2>3 DEF At
    <2>4. QED
      BY <2>2, <2>3
  <1>4. QED
    BY <1>1, <1>2, <1>3 DEF ReleasedInFlight

LEMMA ReleaseLocal ==
    ASSUME ReleaseInv, World \/ Watch \/ UNCHANGED vars
    PROVE  ReleasedBeforeLeaving' /\ ReleasedRows' /\ ReleasedInFlight'
  <1>0. TypeOK /\ Daemon \in Proc
    BY DEF ReleaseInv, Proc
  <1>1. server' = server /\ serverRaw' = serverRaw /\ consent' = consent
    BY DEF World, Settle, Append, Age, Watch, Scan, BeginSettle, SkipSettle, BeginRelease,
           ListReleasable, EndRelease, SkipSync, ReadFails, AutoRelease, ReadRow, ReleaseMisses, vars, org
  <1>2. \A s \in Session : digest'[s].released => digest[s].released
    <2>1. CASE \E s \in Session : Age(s)
      <3>1. PICK s \in Session : digest' = [digest EXCEPT ![s].aged = TRUE]
        BY <2>1 DEF Age
      <3>2. QED
        BY <1>0, <3>1 DEF TypeOK, Digest
    <2>2. CASE \/ Watch \/ UNCHANGED vars
               \/ \E t \in Transcript : Settle(t) \/ \E i \in 1 .. MaxSegs : Append(t, i)
      BY <2>2 DEF Settle, Append, Watch, Scan, BeginSettle, SkipSettle, BeginRelease,
           ListReleasable, EndRelease, SkipSync, ReadFails, AutoRelease, ReadRow, ReleaseMisses, vars
    <2>3. QED
      BY <2>1, <2>2 DEF World
  <1>3. \A q \in Proc : job'[q] = job[q] \/ job'[q].pc \notin Holding
    <2>1. CASE World \/ UNCHANGED vars \/ \E t \in Transcript : ReadFails(t)
      BY <2>1 DEF World, Settle, Append, Age, ReadFails, vars
    <2>2. CASE Scan \/ SkipSettle \/ EndRelease
      BY <1>0, <2>2, GotoAt DEF Scan, SkipSettle, EndRelease
    <2>3. CASE SkipSync
      BY <1>0, <2>3, FinishAt DEF SkipSync, Idle
    <2>4. CASE BeginSettle \/ BeginRelease \/ ListReleasable
      BY <1>0, <2>4, BeginSettleAt, BeginReleaseAt, ListReleasableAt
    <2>5. CASE \E s \in Session : AutoRelease(s) \/ ReleaseMisses(s)
      BY <1>0, <2>5, ReadRowAt, ReleaseMissesAt DEF AutoRelease
    <2>6. QED
      BY <2>1, <2>2, <2>3, <2>4, <2>5 DEF Watch
  <1>4. QED
    BY <1>1, <1>2, <1>3, ReleaseFrame

LEMMA ReleaseEngineer ==
    ASSUME ReleaseInv, NEW p \in Proc, Engineer(p)
    PROVE  ReleasedBeforeLeaving' /\ ReleasedRows' /\ ReleasedInFlight'
  <1>0. TypeOK
    BY DEF ReleaseInv
  <1>1. server' = server /\ serverRaw' = serverRaw
    BY DEF Engineer, BeginCompact, EndCompact, SetMode, SetHold, SetReleased, ReadRow,
           Purge, Resync, org
  <1>2. \A s \in Session : "released" \in consent[s] => "released" \in consent'[s]
    <2>1. CASE BeginCompact(p)
      <3>1. PICK S : consent' = [s \in Session |->
                                   IF s \in S THEN consent[s] \ {"purged"} ELSE consent[s]]
        BY <2>1 DEF BeginCompact
      <3>2. QED
        BY <3>1
    <2>2. CASE EndCompact(p)
      BY <2>2 DEF EndCompact
    <2>3. CASE \E s \in Session, b \in BOOLEAN : SetHold(p, s, b) \/ SetReleased(p, s, b)
      BY <2>3 DEF SetHold, SetReleased, ReadRow
    <2>4. CASE \E s \in Session, b \in BOOLEAN : SetMode(p, s, b)
      BY <1>0, <2>4 DEF SetMode, TypeOK
    <2>5. CASE \E S \in SUBSET Session : Purge(p, S) \/ Resync(p, S)
      BY <2>5 DEF Purge, Resync
    <2>6. QED
      BY <2>1, <2>2, <2>3, <2>4, <2>5 DEF Engineer
  <1>3. \A s \in Session : digest'[s].released => digest[s].released
    <2>1. CASE \E S \in SUBSET Session : Purge(p, S)
      <3>1. PICK S : digest' = [s \in Session |-> IF s \in S THEN NoDigest ELSE digest[s]]
        BY <2>1 DEF Purge
      <3>2. QED
        BY <3>1 DEF NoDigest
    <2>2. CASE \/ BeginCompact(p) \/ EndCompact(p)
               \/ \E s \in Session, b \in BOOLEAN :
                     SetMode(p, s, b) \/ SetHold(p, s, b) \/ SetReleased(p, s, b)
               \/ \E S \in SUBSET Session : Resync(p, S)
      BY <2>2 DEF BeginCompact, EndCompact, SetMode, SetHold, SetReleased, ReadRow, Resync
    <2>3. QED
      BY <2>1, <2>2 DEF Engineer
  <1>4. \A q \in Proc : job'[q] = job[q] \/ job'[q].pc \notin Holding
    <2>1. CASE BeginCompact(p)
      BY <1>0, <2>1, BeginCompactAt
    <2>2. CASE EndCompact(p)
      BY <1>0, <2>2, FinishAt DEF EndCompact, Idle
    <2>3. CASE \E s \in Session, b \in BOOLEAN : SetHold(p, s, b) \/ SetReleased(p, s, b)
      BY <1>0, <2>3, ReadRowAt DEF SetHold, SetReleased
    <2>4. CASE \/ \E s \in Session, b \in BOOLEAN : SetMode(p, s, b)
               \/ \E S \in SUBSET Session : Purge(p, S) \/ Resync(p, S)
      BY <2>4 DEF SetMode, Purge, Resync
    <2>5. QED
      BY <2>1, <2>2, <2>3, <2>4 DEF Engineer
  <1>5. QED
    BY <1>1, <1>2, <1>3, <1>4, ReleaseFrame

\* Capture, compaction and the write half of a flag update.
LEMMA ReleaseCompact ==
    ASSUME ReleaseInv, NEW p \in Proc,
           \/ StoreFamily(p) \/ Stamp(p) \/ Carry(p) \/ WriteDigest(p) \/ WriteRow(p)
           \/ Crash(p)
           \/ \E t \in Transcript : ReadTranscript(p, t)
           \/ \E s \in Session : SkipSession(p, s) \/ Build(p, s)
    PROVE  ReleasedBeforeLeaving' /\ ReleasedRows' /\ ReleasedInFlight'
  <1>0. TypeOK /\ ReleasedBeforeLeaving /\ ReleasedRows /\ ReleasedInFlight
    BY DEF ReleaseInv
  <1>1. server' = server /\ serverRaw' = serverRaw
    BY DEF StoreFamily, Stamp, Carry, WriteDigest, WriteRow, Crash, ReadTranscript,
           SkipSession, Build, org
  <1>2. CASE \/ StoreFamily(p) \/ Crash(p)
             \/ \E t \in Transcript : ReadTranscript(p, t)
             \/ \E s \in Session : SkipSession(p, s)
    <2>1. \A q \in Proc : job'[q] = job[q] \/ job'[q].pc \notin Holding
      <3>1. CASE StoreFamily(p)
        BY <1>0, <3>1, ReturnAt DEF StoreFamily
      <3>2. CASE Crash(p)
        BY <1>0, <3>2, FinishAt DEF Crash, Idle
      <3>3. CASE \E t \in Transcript : ReadTranscript(p, t)
        BY <1>0, <3>3, ReadTranscriptAt
      <3>4. CASE \E s \in Session : SkipSession(p, s)
        BY <1>0, <3>4, SkipSessionAt
      <3>5. QED
        BY <1>2, <3>1, <3>2, <3>3, <3>4
    <2>2. digest' = digest /\ consent' = consent
      BY <1>2 DEF StoreFamily, Crash, ReadTranscript, SkipSession
    <2>3. QED
      BY <1>1, <2>1, <2>2, ReleaseFrame
  <1>3. CASE \E s \in Session : Build(p, s)
    <2>1. PICK s \in Session : /\ job'[p].pc = "stamp" /\ job'[p].cur = {s}
                              /\ \A q \in Proc : q # p => job'[q] = job[q]
      BY <1>0, <1>3, BuildAt
    <2>2. digest' = digest /\ consent' = consent
      BY <1>3 DEF Build
    <2>3. ReleasedBeforeLeaving' /\ ReleasedRows'
      BY <1>0, <1>1, <2>2 DEF ReleasedBeforeLeaving, ReleasedRows
    <2>4. ReleasedInFlight'
      BY <1>0, <2>1, <2>2 DEF ReleasedInFlight, At, Batch
    <2>5. QED
      BY <2>3, <2>4
  <1>4. CASE Carry(p)
    <2>1. PICK s \in job[p].cur :
             /\ s \in Session
             /\ job'[p].pc = "write" /\ job'[p].cur = job[p].cur
             /\ job'[p].row.released = digest[s].released
             /\ \A q \in Proc : q # p => job'[q] = job[q]
      BY <1>0, <1>4, CarryAt
    <2>2. digest' = digest /\ consent' = consent
      BY <1>4 DEF Carry
    <2>3. \A r \in job[p].cur : r = s
      BY <1>0, <1>4 DEF ReleasedInFlight, Carry
    <2>4. ReleasedBeforeLeaving' /\ ReleasedRows'
      BY <1>0, <1>1, <2>2 DEF ReleasedBeforeLeaving, ReleasedRows
    <2>5. ReleasedInFlight'
      BY <1>0, <2>1, <2>2, <2>3 DEF ReleasedInFlight, ReleasedRows, At, Batch
    <2>6. QED
      BY <2>4, <2>5
  <1>5. CASE WriteDigest(p)
    <2>1. PICK s \in job[p].cur : digest' = [digest EXCEPT ![s] = job[p].row]
      BY <1>5 DEF WriteDigest
    <2>2. consent' = consent /\ At(p, "write")
      BY <1>5 DEF WriteDigest
    <2>3. job[p].row.released => "released" \in consent[s]
      BY <1>0, <2>1, <2>2 DEF ReleasedInFlight
    <2>4. ReleasedRows'
      BY <1>0, <2>1, <2>2, <2>3 DEF ReleasedRows, TypeOK
    <2>5. \A q \in Proc : job'[q] = job[q] \/ job'[q].pc \notin Holding
      BY <1>0, <1>5, ReturnAt DEF WriteDigest
    <2>6. ReleasedBeforeLeaving'
      BY <1>0, <1>1, <2>2 DEF ReleasedBeforeLeaving
    <2>7. ReleasedInFlight'
      BY <1>0, <2>2, <2>5 DEF ReleasedInFlight, At, Batch
    <2>8. QED
      BY <2>4, <2>6, <2>7
  <1>6. CASE WriteRow(p)
    <2>1. PICK s \in job[p].cur :
            \/ /\ digest' = [digest EXCEPT ![s] = job[p].row]
               /\ consent' = [consent EXCEPT ![s] = Decided(p, s, job[p].row)]
            \/ digest' = digest /\ consent' = consent
      BY <1>6 DEF WriteRow
    <2>2. s \in Session
      BY <1>0 DEF TypeOK, Job
    <2>3. /\ "released" \in consent[s] => "released" \in Decided(p, s, job[p].row)
          /\ job[p].row.released => "released" \in Decided(p, s, job[p].row)
      BY DEF Decided
    <2>4. \A r \in Session : "released" \in consent[r] => "released" \in consent'[r]
      BY <1>0, <2>1, <2>2, <2>3 DEF TypeOK
    <2>5. ReleasedRows'
      BY <1>0, <2>1, <2>2, <2>3, <2>4 DEF ReleasedRows, TypeOK
    <2>6. \A q \in Proc : job'[q] = job[q] \/ job'[q].pc \notin Holding
      BY <1>0, <1>6, WriteRowAt
    <2>7. ReleasedBeforeLeaving'
      BY <1>0, <1>1, <2>4 DEF ReleasedBeforeLeaving
    <2>8. ReleasedInFlight'
      <3>1. \A q \in Proc : job[q].cur \subseteq Session
        BY <1>0 DEF TypeOK, Job
      <3>2. QED
        BY <1>0, <2>4, <2>6, <3>1 DEF ReleasedInFlight, At, Batch
    <2>9. QED
      BY <2>5, <2>7, <2>8
  <1>7. CASE Stamp(p)
    <2>1. /\ job'[p].pc = "carry" /\ job'[p].cur = job[p].cur
          /\ \A q \in Proc : q # p => job'[q] = job[q]
      BY <1>0, <1>7, StampAt
    <2>2. digest' = digest /\ consent' = consent /\ At(p, "stamp")
      BY <1>7 DEF Stamp
    <2>3. ReleasedBeforeLeaving' /\ ReleasedRows'
      BY <1>0, <1>1, <2>2 DEF ReleasedBeforeLeaving, ReleasedRows
    <2>4. ReleasedInFlight'
      BY <1>0, <2>1, <2>2 DEF ReleasedInFlight, At, Batch
    <2>5. QED
      BY <2>3, <2>4
  <1>8. QED
    BY <1>2, <1>3, <1>4, <1>5, <1>6, <1>7

\* The steps of a sync.
LEMMA ReleaseSync ==
    ASSUME ReleaseInv, NEW p \in Proc,
           \/ Push(p) \/ PushFails(p) \/ BeginRaw(p) \/ MarkRaw(p)
           \/ MarkRawUnavailable(p) \/ EndSync(p)
           \/ BeginSync(p) \/ Gate(p) \/ \E raw \in BOOLEAN : Fresh(p, raw)
           \/ \E s \in Session : \/ MarkSynced(p, s) \/ PushRaw(p, s)
                                 \/ RawRetry(p, s) \/ RawRefused(p, s)
    PROVE  ReleasedBeforeLeaving' /\ ReleasedRows' /\ ReleasedInFlight'
  <1>0. TypeOK /\ ReleasedBeforeLeaving /\ ReleasedRows /\ ReleasedInFlight
    BY DEF ReleaseInv
  <1>1. digest' = digest /\ consent' = consent
    BY DEF Push, PushFails, BeginRaw, MarkRaw, MarkRawUnavailable, EndSync, BeginSync,
           Gate, Fresh, MarkSynced, PushRaw, RawRetry, RawRefused
  <1>2. ReleasedRows'
    BY <1>0, <1>1 DEF ReleasedRows
  <1>3. CASE Gate(p) \/ \E raw \in BOOLEAN : Fresh(p, raw)
    <2>1. /\ job'[p].pc \in {"fresh", "mark", "push"}
          /\ \A q \in Proc : q # p => job'[q] = job[q]
      BY <1>0, <1>3, GateAt, FreshAt
    <2>2. \A s \in Session : job'[p].copy[s] # 0 => "released" \in consent[s]
      <3>1. CASE Gate(p)
        BY <1>0, <3>1, GateAt DEF Eligible, ReleasedRows
      <3>2. CASE \E raw \in BOOLEAN : Fresh(p, raw)
        <4>1. At(p, "fresh")
          BY <3>2 DEF Fresh
        <4>2. job'[p].copy = [s \in Session |-> IF s \in synced THEN 0 ELSE job[p].copy[s]]
          BY <1>0, <3>2, FreshAt
        <4>3. QED
          BY <1>0, <4>1, <4>2 DEF ReleasedInFlight, Batch
      <3>3. QED
        BY <1>3, <3>1, <3>2
    <2>3. ReleasedInFlight'
      BY <1>0, <1>1, <2>1, <2>2 DEF ReleasedInFlight, At, Batch
    <2>4. server' = server /\ serverRaw' = serverRaw
      BY <1>3 DEF Gate, Fresh, org
    <2>5. ReleasedBeforeLeaving'
      BY <1>0, <1>1, <2>4 DEF ReleasedBeforeLeaving
    <2>6. QED
      BY <1>2, <2>3, <2>5
  <1>4. ASSUME ~Gate(p), ~\E raw \in BOOLEAN : Fresh(p, raw)
        PROVE  ReleasedInFlight'
    <2>1. \A q \in Proc : job'[q] = job[q] \/ job'[q].pc \notin Holding
      <3>1. CASE Push(p)
        BY <1>0, <3>1, GotoAt DEF Push
      <3>2. CASE PushFails(p) \/ EndSync(p)
        BY <1>0, <3>2, FinishAt DEF PushFails, EndSync, Idle
      <3>3. CASE BeginRaw(p)
        BY <1>0, <3>3, BeginRawAt
      <3>4. CASE MarkRaw(p) \/ MarkRawUnavailable(p)
        BY <1>0, <3>4, ReturnAt DEF MarkRaw, MarkRawUnavailable
      <3>5. CASE \E s \in Session : MarkSynced(p, s)
        BY <1>0, <3>5, MarkSyncedAt
      <3>6. CASE \E s \in Session : PushRaw(p, s) \/ RawRetry(p, s) \/ RawRefused(p, s)
        <4>1. PICK s \in Session :
                RawDone(p, s, "rawmark") \/ RawDone(p, s, "raw") \/ RawDone(p, s, "rawbad")
          BY <3>6 DEF PushRaw, RawRetry, RawRefused
        <4>2. /\ job'[p].pc \in {"rawmark", "raw", "rawbad"}
              /\ \A q \in Proc : q # p => job'[q] = job[q]
          BY <1>0, <4>1, RawDoneAt
        <4>3. QED
          BY <4>2
      <3>7. CASE BeginSync(p)
        BY <1>0, <3>7, BeginSyncAt
      <3>8. QED
        BY <1>4, <3>1, <3>2, <3>3, <3>4, <3>5, <3>6, <3>7
    <2>2. QED
      BY <1>0, <1>1, <2>1 DEF ReleasedInFlight, At, Batch
  <1>5. CASE Push(p) \/ PushFails(p)
    <2>1. PICK S \in SUBSET Batch(p) : server' = Upserted(p, S)
      BY <1>5 DEF Push, PushFails
    <2>2. serverRaw' = serverRaw /\ At(p, "push")
      BY <1>5 DEF Push, PushFails
    <2>3. \A s \in S : "released" \in consent[s]
      BY <1>0, <2>1, <2>2 DEF ReleasedInFlight
    <2>4. ReleasedBeforeLeaving'
      BY <1>0, <1>1, <2>1, <2>2, <2>3 DEF ReleasedBeforeLeaving, Upserted
    <2>5. ~Gate(p) /\ ~\E raw \in BOOLEAN : Fresh(p, raw)
      BY <2>2 DEF Gate, Fresh, At
    <2>6. QED
      BY <1>2, <1>4, <2>4, <2>5
  <1>6. CASE \E s \in Session : PushRaw(p, s) \/ RawRetry(p, s)
    <2>1. PICK s \in Session : PushRaw(p, s) \/ RawRetry(p, s)
      BY <1>6
    <2>2. /\ server' = server /\ At(p, "raw")
          /\ \/ serverRaw' = serverRaw
             \/ server[s] # 0 /\ serverRaw' = [serverRaw EXCEPT ![s] = captured[s]]
      BY <2>1 DEF PushRaw, RawRetry
    <2>3. ReleasedBeforeLeaving'
      BY <1>0, <1>1, <2>2 DEF ReleasedBeforeLeaving, TypeOK
    <2>4. ~Gate(p) /\ ~\E raw \in BOOLEAN : Fresh(p, raw)
      BY <2>2 DEF Gate, Fresh, At
    <2>5. QED
      BY <1>2, <1>4, <2>3, <2>4
  <1>7. CASE \/ BeginSync(p) \/ BeginRaw(p) \/ MarkRaw(p) \/ MarkRawUnavailable(p) \/ EndSync(p)
             \/ \E s \in Session : MarkSynced(p, s) \/ RawRefused(p, s)
    <2>1. server' = server /\ serverRaw' = serverRaw
      BY <1>7 DEF BeginSync, BeginRaw, MarkRaw, MarkRawUnavailable, EndSync, MarkSynced, RawRefused, org
    <2>2. ReleasedBeforeLeaving'
      BY <1>0, <1>1, <2>1 DEF ReleasedBeforeLeaving
    <2>3. QED
      BY <1>2, <1>3, <1>4, <2>2
  <1>8. QED
    BY <1>3, <1>5, <1>6, <1>7

LEMMA InitRelease == Init => ReleaseInv
  <1>1. Init => ReleasedBeforeLeaving /\ ReleasedRows /\ ReleasedInFlight
    BY DEF Init, ReleasedBeforeLeaving, ReleasedRows, ReleasedInFlight, At, Idle, NoDigest
  <1>2. QED
    BY <1>1, InitTypeOK DEF ReleaseInv

LEMMA NextRelease == ReleaseInv /\ [Next]_vars => ReleaseInv'
  <1> SUFFICES ASSUME ReleaseInv, [Next]_vars
               PROVE  ReleasedBeforeLeaving' /\ ReleasedRows' /\ ReleasedInFlight'
    BY NextTypeOK DEF ReleaseInv
  <1>1. CASE World \/ Watch \/ UNCHANGED vars
    BY <1>1, ReleaseLocal
  <1>2. ASSUME NEW p \in Proc, Shared(p)
        PROVE  ReleasedBeforeLeaving' /\ ReleasedRows' /\ ReleasedInFlight'
    BY <1>2, ReleaseCompact, ReleaseSync DEF Shared
  <1>3. ASSUME NEW p \in Foreground, Engineer(p)
        PROVE  ReleasedBeforeLeaving' /\ ReleasedRows' /\ ReleasedInFlight'
    BY <1>3, ReleaseEngineer DEF Proc
  <1>4. QED
    BY <1>1, <1>2, <1>3 DEF Next

\* Nothing of a session is on the server unless its digest was marked released at some
\* time, by the engineer or by the grace window: the gate of SyncClient.sync
\* (eligible_compactions), the flags carried over by compact_session and the rows
\* rewritten by mark_released and set_hold, interleaved in any order.
THEOREM Consented == Spec => []ReleasedBeforeLeaving
  <1>1. ReleaseInv => ReleasedBeforeLeaving
    BY DEF ReleaseInv
  <1>2. QED
    BY <1>1, InitRelease, NextRelease, PTL DEF Spec

-----------------------------------------------------------------------------
\* When operations do not overlap, watermarks are exact

\* A marked session has a digest, and the server holds that very digest.
MarkedIsCurrent ==
    \A s \in synced : digest[s].ver # 0 /\ server[s] = digest[s].ver

\* Operations do not overlap, because each waits for the others or the daemon has the
\* store to itself.
Solo == Exclusive \/ Foreground = {}

OneAtATime == \A p, q \in Proc : ~At(p, "idle") /\ ~At(q, "idle") => p = q

\* What p's operation holds in memory still agrees with the store.
Agrees(p) ==
    /\ At(p, "stamp") \/ At(p, "carry") => \A a, b \in job[p].cur : a = b
    /\ At(p, "write") => job[p].cur \cap synced = {}
    /\ At(p, "flag") => \A s \in job[p].cur : job[p].row.ver = digest[s].ver
    /\ At(p, "fresh") => \A s \in Batch(p) : job[p].copy[s] = digest[s].ver
    /\ At(p, "push") => \A s \in Batch(p) : s \notin synced /\ job[p].copy[s] = digest[s].ver
    /\ At(p, "mark") => \A s \in Batch(p) : /\ job[p].copy[s] = digest[s].ver
                                           /\ job[p].copy[s] = server[s]

Consistent == MarkedIsCurrent /\ OneAtATime /\ \A p \in Proc : Agrees(p)

HonestInv == TypeOK /\ Consistent

Careless == {"stamp", "carry", "write", "flag", "fresh", "push", "mark"}

\* A step that changes no digest's content, marks nothing and sends nothing.
LEMMA HonestFrame ==
    ASSUME HonestInv,
           server' = server, synced' \subseteq synced,
           \A s \in Session : digest'[s].ver = digest[s].ver,
           \A q \in Proc : job'[q] = job[q] \/ job'[q].pc \notin Careless,
           OneAtATime'
    PROVE  Consistent'
  <1>1. MarkedIsCurrent'
    BY DEF HonestInv, Consistent, MarkedIsCurrent, TypeOK
  <1>2. ASSUME NEW q \in Proc
        PROVE  Agrees(q)'
    <2>1. job[q].cur \subseteq Session
      BY DEF HonestInv, Consistent, TypeOK, Job
    <2>2. CASE job'[q] = job[q]
      BY <2>1, <2>2 DEF HonestInv, Consistent, Agrees, At, Batch
    <2>3. CASE job'[q].pc \notin Careless
      BY <2>3 DEF Agrees, At, Careless
    <2>4. QED
      BY <2>2, <2>3
  <1>3. QED
    BY <1>1, <1>2 DEF Consistent

\* The step of a process that runs alone.
LEMMA HonestAlone ==
    ASSUME HonestInv, NEW p \in Proc,
           \A q \in Proc : q # p => At(q, "idle") /\ job'[q] = job[q],
           MarkedIsCurrent', Agrees(p)'
    PROVE  Consistent'
  <1>1. \A q \in Proc : q # p => Agrees(q)'
    BY DEF Agrees, At
  <1>2. OneAtATime'
    BY DEF OneAtATime, At
  <1>3. QED
    BY <1>1, <1>2 DEF Consistent

\* A process that runs alone stays alone.
LEMMA HonestQuiet ==
    ASSUME HonestInv, NEW p \in Proc,
           \A q \in Proc : q # p => At(q, "idle") /\ job'[q] = job[q],
           server' = server, synced' \subseteq synced,
           \A s \in Session : digest'[s].ver = digest[s].ver,
           job'[p].pc \notin Careless
    PROVE  Consistent'
  <1>1. OneAtATime'
    BY DEF OneAtATime, At
  <1>2. QED
    BY <1>1, HonestFrame

LEMMA BusyAlone ==
    ASSUME HonestInv, NEW p \in Proc, ~At(p, "idle")
    PROVE  \A q \in Proc : q # p => At(q, "idle")
  BY DEF HonestInv, Consistent, OneAtATime

LEMMA CommandAlone ==
    ASSUME Solo, NEW p \in Proc, Free(p)
    PROVE  \A q \in Proc : At(q, "idle")
  BY DEF Free, Solo, Proc

\* The read half of a flag update remembers the content that the store holds.
LEMMA HonestReadRow ==
    ASSUME HonestInv, NEW p \in Proc, NEW s \in Session, NEW row,
           \A q \in Proc : q # p => At(q, "idle"),
           ReadRow(p, s, row), row.ver = digest[s].ver
    PROVE  Consistent'
  <1>0. TypeOK
    BY DEF HonestInv, Consistent
  <1>1. /\ job'[p].pc = "flag" /\ job'[p].cur = {s} /\ job'[p].row = row
        /\ \A q \in Proc : q # p => job'[q] = job[q]
    BY <1>0, ReadRowAt
  <1>2. server' = server /\ synced' = synced /\ digest' = digest
    BY DEF ReadRow, org, marks
  <1>3. MarkedIsCurrent'
    BY <1>2 DEF HonestInv, Consistent, MarkedIsCurrent
  <1>4. Agrees(p)'
    BY <1>1, <1>2 DEF Agrees, At
  <1>5. QED
    BY <1>1, <1>3, <1>4, HonestAlone

LEMMA HonestLocal ==
    ASSUME Solo, HonestInv, World \/ Watch \/ UNCHANGED vars
    PROVE  Consistent'
  <1>0. TypeOK /\ Daemon \in Proc
    BY DEF HonestInv, Consistent, Proc
  <1>1. server' = server /\ synced' = synced
    BY DEF World, Settle, Append, Age, Watch, Scan, BeginSettle, SkipSettle, BeginRelease,
           ListReleasable, EndRelease, SkipSync, ReadFails, AutoRelease, ReadRow, ReleaseMisses, vars, marks, org
  <1>2. \A s \in Session : digest'[s].ver = digest[s].ver
    <2>1. CASE \E s \in Session : Age(s)
      <3>1. PICK s \in Session : digest' = [digest EXCEPT ![s].aged = TRUE]
        BY <2>1 DEF Age
      <3>2. QED
        BY <1>0, <3>1 DEF TypeOK, Digest
    <2>2. CASE \/ Watch \/ UNCHANGED vars
               \/ \E t \in Transcript : Settle(t) \/ \E i \in 1 .. MaxSegs : Append(t, i)
      BY <2>2 DEF Settle, Append, Watch, Scan, BeginSettle, SkipSettle, BeginRelease,
           ListReleasable, EndRelease, SkipSync, ReadFails, AutoRelease, ReadRow, ReleaseMisses, vars
    <2>3. QED
      BY <2>1, <2>2 DEF World
  <1>3. CASE World \/ UNCHANGED vars \/ \E t \in Transcript : ReadFails(t)
    <2>1. job' = job
      BY <1>3 DEF World, Settle, Append, Age, ReadFails, vars
    <2>2. OneAtATime'
      BY <2>1 DEF HonestInv, Consistent, OneAtATime, At
    <2>3. QED
      BY <1>1, <1>2, <2>1, <2>2, HonestFrame
  <1>4. CASE \/ Scan \/ BeginSettle \/ SkipSettle \/ BeginRelease \/ ListReleasable
             \/ EndRelease \/ SkipSync
             \/ \E s \in Session : ReleaseMisses(s)
    <2>1. \A q \in Proc : q # Daemon => At(q, "idle")
      <3>1. CASE Scan
        BY <1>0, <3>1, CommandAlone DEF Scan
      <3>2. CASE ~Scan
        <4>1. ~At(Daemon, "idle")
          BY <1>4, <3>2 DEF BeginSettle, SkipSettle, BeginRelease, ListReleasable, EndRelease,
                            SkipSync, ReleaseMisses, At
        <4>2. QED
          BY <1>0, <4>1, BusyAlone
      <3>3. QED
        BY <3>1, <3>2
    <2>2. /\ job'[Daemon].pc \notin Careless
          /\ \A q \in Proc : q # Daemon => job'[q] = job[q]
      <3>1. CASE Scan \/ SkipSettle \/ EndRelease
        BY <1>0, <3>1, GotoAt DEF Scan, SkipSettle, EndRelease, Careless
      <3>2. CASE SkipSync
        BY <1>0, <3>2, FinishAt DEF SkipSync, Idle, Careless
      <3>3. CASE BeginSettle \/ BeginRelease \/ ListReleasable
        BY <1>0, <3>3, BeginSettleAt, BeginReleaseAt, ListReleasableAt DEF Careless
      <3>4. CASE \E s \in Session : ReleaseMisses(s)
        BY <1>0, <3>4, ReleaseMissesAt DEF Careless
      <3>5. QED
        BY <1>4, <3>1, <3>2, <3>3, <3>4
    <2>3. QED
      BY <1>0, <1>1, <1>2, <2>1, <2>2, HonestQuiet
  <1>5. ASSUME NEW s \in Session, AutoRelease(s)
        PROVE  Consistent'
    <2>1. \A q \in Proc : q # Daemon => At(q, "idle")
      <3>1. ~At(Daemon, "idle")
        BY <1>5 DEF AutoRelease, At
      <3>2. QED
        BY <1>0, <3>1, BusyAlone
    <2>2. ReadRow(Daemon, s, [digest[s] EXCEPT !.released = TRUE])
      BY <1>5 DEF AutoRelease
    <2>3. [digest[s] EXCEPT !.released = TRUE].ver = digest[s].ver
      BY <1>0 DEF TypeOK, Digest
    <2> DEFINE row == [digest[s] EXCEPT !.released = TRUE]
    <2>4. ReadRow(Daemon, s, row) /\ row.ver = digest[s].ver
      BY <2>2, <2>3
    <2>5. QED
      <3> HIDE DEF row
      <3>1. QED
        BY <1>0, <2>1, <2>4, HonestReadRow
  <1>6. QED
    BY <1>3, <1>4, <1>5 DEF Watch

\* Capture, compaction and the write half of a flag update.
LEMMA HonestCompact ==
    ASSUME Solo, HonestInv, NEW p \in Proc,
           \/ StoreFamily(p) \/ Stamp(p) \/ Carry(p) \/ WriteDigest(p) \/ WriteRow(p)
           \/ Crash(p)
           \/ \E t \in Transcript : ReadTranscript(p, t)
           \/ \E s \in Session : SkipSession(p, s) \/ Build(p, s)
    PROVE  Consistent'
  <1>0. TypeOK /\ MarkedIsCurrent /\ OneAtATime /\ Agrees(p)
    BY DEF HonestInv, Consistent
  <1>1. server' = server
    BY DEF StoreFamily, Stamp, Carry, WriteDigest, WriteRow, Crash, ReadTranscript,
           SkipSession, Build, org
  <1>2. CASE Crash(p)
    <2>1. job'[p] = Idle /\ \A q \in Proc : q # p => job'[q] = job[q]
      BY <1>0, <1>2, FinishAt DEF Crash
    <2>2. OneAtATime'
      BY <1>0, <2>1 DEF OneAtATime, At, Idle
    <2>3. synced' = synced /\ digest' = digest
      BY <1>2 DEF Crash, marks
    <2>4. \A q \in Proc : job'[q] = job[q] \/ job'[q].pc \notin Careless
      BY <2>1 DEF Idle, Careless
    <2>5. QED
      BY <1>1, <2>2, <2>3, <2>4, HonestFrame
  <1>3. ASSUME NEW t \in Transcript, ReadTranscript(p, t)
        PROVE  Consistent'
    <2>1. \A q \in Proc : q # p => At(q, "idle")
      <3>1. CASE p = Daemon
        BY <1>3, <3>1, BusyAlone DEF ReadTranscript, At
      <3>2. CASE p # Daemon
        BY <1>3, <3>2, CommandAlone DEF ReadTranscript, Command
      <3>3. QED
        BY <3>1, <3>2
    <2>2. job'[p].pc \notin Careless /\ \A q \in Proc : q # p => job'[q] = job[q]
      BY <1>0, <1>3, ReadTranscriptAt DEF Careless
    <2>3. synced' = synced /\ digest' = digest
      BY <1>3 DEF ReadTranscript, marks
    <2>4. QED
      BY <1>1, <2>1, <2>2, <2>3, HonestQuiet
  <1>4. CASE \/ StoreFamily(p) \/ Stamp(p) \/ Carry(p) \/ WriteDigest(p) \/ WriteRow(p)
             \/ \E s \in Session : SkipSession(p, s) \/ Build(p, s)
    <2>0. \A q \in Proc : q # p => At(q, "idle")
      <3>1. ~At(p, "idle")
        BY <1>4 DEF StoreFamily, Stamp, Carry, WriteDigest, WriteRow, SkipSession, Build, At
      <3>2. QED
        BY <3>1, BusyAlone
    <2>1. CASE StoreFamily(p) \/ \E s \in Session : SkipSession(p, s)
      <3>1. job'[p].pc \notin Careless /\ \A q \in Proc : q # p => job'[q] = job[q]
        BY <1>0, <2>1, ReturnAt, SkipSessionAt DEF StoreFamily, Careless
      <3>2. synced' = synced /\ digest' = digest
        BY <2>1 DEF StoreFamily, SkipSession, marks
      <3>3. QED
        BY <1>1, <2>0, <3>1, <3>2, HonestQuiet
    <2>2. ASSUME NEW s \in Session, Build(p, s)
          PROVE  Consistent'
      <3>1. /\ job'[p].pc = "stamp" /\ job'[p].cur = {s}
            /\ \A q \in Proc : q # p => job'[q] = job[q]
        BY <1>0, <2>2, BuildAt
      <3>2. synced' = synced /\ digest' = digest
        BY <2>2 DEF Build, marks
      <3>3. MarkedIsCurrent'
        BY <1>0, <1>1, <3>2 DEF MarkedIsCurrent
      <3>4. Agrees(p)'
        BY <3>1 DEF Agrees, At
      <3>5. QED
        BY <2>0, <3>1, <3>3, <3>4, HonestAlone
    <2>3. CASE Carry(p)
      <3>1. PICK s \in job[p].cur :
               /\ s \in Session
               /\ job'[p].pc = "write" /\ job'[p].cur = job[p].cur
               /\ Unmark(IF digest[s].ver # 0 THEN {s} ELSE {})
               /\ \A q \in Proc : q # p => job'[q] = job[q]
        BY <1>0, <2>3, CarryAt
      <3>2. \A r \in job[p].cur : r = s
        BY <1>0, <2>3 DEF Agrees, Carry
      <3>3. synced' \subseteq synced /\ s \notin synced' /\ digest' = digest
        BY <1>0, <2>3, <3>1 DEF MarkedIsCurrent, Unmark, Carry
      <3>4. MarkedIsCurrent'
        BY <1>0, <1>1, <3>3 DEF MarkedIsCurrent
      <3>5. Agrees(p)'
        BY <3>1, <3>2, <3>3 DEF Agrees, At
      <3>6. QED
        BY <2>0, <3>1, <3>4, <3>5, HonestAlone
    <2>4. CASE WriteDigest(p)
      <3>1. PICK s \in job[p].cur : digest' = [digest EXCEPT ![s] = job[p].row]
        BY <2>4 DEF WriteDigest
      <3>2. s \notin synced /\ synced' = synced
        BY <1>0, <2>4, <3>1 DEF Agrees, WriteDigest, marks
      <3>3. MarkedIsCurrent'
        BY <1>0, <1>1, <3>1, <3>2 DEF MarkedIsCurrent, TypeOK
      <3>4. job'[p].pc \in {"settle", "pending"} /\ \A q \in Proc : q # p => job'[q] = job[q]
        BY <1>0, <2>4, ReturnAt DEF WriteDigest
      <3>5. Agrees(p)'
        BY <3>4 DEF Agrees, At
      <3>6. QED
        BY <2>0, <3>3, <3>4, <3>5, HonestAlone
    <2>5. CASE WriteRow(p)
      <3>1. PICK s \in job[p].cur :
              digest' = [digest EXCEPT ![s] = job[p].row] \/ digest' = digest
        BY <2>5 DEF WriteRow
      <3>2. job[p].row.ver = digest[s].ver
        BY <1>0, <2>5 DEF Agrees, WriteRow
      <3>3. \A r \in Session : digest'[r].ver = digest[r].ver
        BY <1>0, <3>1, <3>2 DEF TypeOK
      <3>4. synced' = synced
        BY <2>5 DEF WriteRow, marks
      <3>5. job'[p].pc \notin Careless /\ \A q \in Proc : q # p => job'[q] = job[q]
        BY <1>0, <2>5, WriteRowAt DEF Careless
      <3>6. QED
        BY <1>1, <2>0, <3>3, <3>4, <3>5, HonestQuiet
    <2>6. CASE Stamp(p)
      <3>1. /\ job'[p].pc = "carry" /\ job'[p].cur = job[p].cur
            /\ \A q \in Proc : q # p => job'[q] = job[q]
        BY <1>0, <2>6, StampAt
      <3>2. synced' = synced /\ digest' = digest /\ At(p, "stamp")
        BY <2>6 DEF Stamp, marks
      <3>3. MarkedIsCurrent'
        BY <1>0, <1>1, <3>2 DEF MarkedIsCurrent
      <3>4. Agrees(p)'
        BY <1>0, <3>1, <3>2 DEF Agrees, At
      <3>5. QED
        BY <2>0, <3>1, <3>3, <3>4, HonestAlone
    <2>7. QED
      BY <1>4, <2>1, <2>2, <2>3, <2>4, <2>5, <2>6
  <1>5. QED
    BY <1>2, <1>3, <1>4

\* The steps of a sync.
LEMMA HonestSync ==
    ASSUME Solo, HonestInv, NEW p \in Proc,
           \/ Push(p) \/ PushFails(p) \/ BeginRaw(p) \/ MarkRaw(p)
           \/ MarkRawUnavailable(p) \/ EndSync(p)
           \/ BeginSync(p) \/ Gate(p) \/ \E raw \in BOOLEAN : Fresh(p, raw)
           \/ \E s \in Session : \/ MarkSynced(p, s) \/ PushRaw(p, s)
                                 \/ RawRetry(p, s) \/ RawRefused(p, s)
    PROVE  Consistent'
  <1>0. TypeOK /\ MarkedIsCurrent /\ OneAtATime /\ Agrees(p)
    BY DEF HonestInv, Consistent
  <1>1. digest' = digest
    BY DEF Push, PushFails, BeginRaw, MarkRaw, MarkRawUnavailable, EndSync, BeginSync,
           Gate, Fresh, MarkSynced, PushRaw, RawRetry, RawRefused
  <1>2. CASE BeginSync(p)
    <2>1. \A q \in Proc : q # p => At(q, "idle")
      <3>1. CASE p = Daemon
        BY <1>2, <3>1, BusyAlone DEF BeginSync, At
      <3>2. CASE p # Daemon
        BY <1>2, <3>2, CommandAlone DEF BeginSync, Command
      <3>3. QED
        BY <3>1, <3>2
    <2>2. job'[p].pc \notin Careless /\ \A q \in Proc : q # p => job'[q] = job[q]
      BY <1>0, <1>2, BeginSyncAt DEF Careless
    <2>3. synced' = synced /\ server' = server
      BY <1>2 DEF BeginSync, marks, org
    <2>4. QED
      BY <1>1, <2>1, <2>2, <2>3, HonestQuiet
  <1>3. CASE \/ Push(p) \/ PushFails(p) \/ BeginRaw(p) \/ MarkRaw(p)
             \/ MarkRawUnavailable(p) \/ EndSync(p)
             \/ Gate(p) \/ \E raw \in BOOLEAN : Fresh(p, raw)
             \/ \E s \in Session : \/ MarkSynced(p, s) \/ PushRaw(p, s)
                                   \/ RawRetry(p, s) \/ RawRefused(p, s)
    <2>0. \A q \in Proc : q # p => At(q, "idle")
      <3>1. ~At(p, "idle")
        BY <1>3 DEF Push, PushFails, BeginRaw, MarkRaw, MarkRawUnavailable, EndSync,
                    Gate, Fresh, MarkSynced, PushRaw, RawRetry, RawRefused, At
      <3>2. QED
        BY <3>1, BusyAlone
    <2>1. CASE Push(p)
      <3>1. /\ job'[p].pc = "mark" /\ job'[p].copy = job[p].copy
            /\ \A q \in Proc : q # p => job'[q] = job[q]
        <4>1. /\ job'[p] = [job[p] EXCEPT !.pc = "mark"]
              /\ \A q \in Proc : q # p => job'[q] = job[q]
          BY <1>0, <2>1, GotoAt DEF Push
        <4>2. job[p] \in Job
          BY <1>0 DEF TypeOK
        <4>3. QED
          BY <4>1, <4>2 DEF Job
      <3>2. synced' = synced /\ server' = Upserted(p, Batch(p)) /\ At(p, "push")
        BY <2>1 DEF Push, marks
      <3>3. MarkedIsCurrent'
        BY <1>0, <1>1, <3>2 DEF MarkedIsCurrent, Upserted, Agrees, TypeOK
      <3>4. \A s \in Batch(p) : server'[s] = job[p].copy[s] /\ job[p].copy[s] = digest[s].ver
        BY <1>0, <3>2 DEF Upserted, Batch, Agrees
      <3>5. Batch(p)' = Batch(p)
        BY <3>1 DEF Batch
      <3>6. Agrees(p)'
        BY <1>1, <3>1, <3>4, <3>5 DEF Agrees, At
      <3>7. QED
        BY <2>0, <3>1, <3>3, <3>6, HonestAlone
    <2>2. CASE PushFails(p)
      <3>1. job'[p].pc = "idle" /\ \A q \in Proc : q # p => job'[q] = job[q]
        BY <1>0, <2>2, FinishAt DEF PushFails, Idle
      <3>2. PICK S \in SUBSET Batch(p) : server' = Upserted(p, S)
        BY <2>2 DEF PushFails
      <3>3. synced' = synced /\ At(p, "push")
        BY <2>2 DEF PushFails, marks
      <3>4. MarkedIsCurrent'
        BY <1>0, <1>1, <3>2, <3>3 DEF MarkedIsCurrent, Upserted, Agrees, TypeOK
      <3>5. Agrees(p)'
        BY <3>1 DEF Agrees, At
      <3>6. QED
        BY <2>0, <3>1, <3>4, <3>5, HonestAlone
    <2>3. ASSUME NEW s \in Session, MarkSynced(p, s)
          PROVE  Consistent'
      <3>1. /\ job[p].pc = "mark" /\ job'[p].pc = "mark"
            /\ job'[p].copy = [job[p].copy EXCEPT ![s] = 0]
            /\ \A q \in Proc : q # p => job'[q] = job[q]
        BY <1>0, <2>3, MarkSyncedAt
      <3>2. synced' = synced \cup {s} /\ server' = server
        BY <2>3 DEF MarkSynced, org
      <3>3. digest[s].ver # 0 /\ server[s] = digest[s].ver
        BY <1>0, <2>3 DEF MarkSynced, Agrees, Batch
      <3>4. MarkedIsCurrent'
        BY <1>0, <1>1, <3>2, <3>3 DEF MarkedIsCurrent
      <3>5. job[p].copy \in [Session -> Nat]
        BY <1>0 DEF TypeOK, Job
      <3>6. \A r \in Session : job'[p].copy[r] # 0 => job'[p].copy[r] = job[p].copy[r]
        BY <3>1, <3>5
      <3>7. \A r \in Batch(p)' : r \in Batch(p) /\ job'[p].copy[r] = job[p].copy[r]
        BY <3>6 DEF Batch
      <3>8. Agrees(p)'
        BY <1>0, <1>1, <3>1, <3>2, <3>7 DEF Agrees, At
      <3>9. QED
        BY <2>0, <3>1, <3>4, <3>8, HonestAlone
    <2>4. CASE \/ BeginRaw(p) \/ MarkRaw(p) \/ MarkRawUnavailable(p) \/ EndSync(p)
               \/ \E s \in Session : PushRaw(p, s) \/ RawRetry(p, s) \/ RawRefused(p, s)
      <3>1. server' = server /\ synced' = synced
        BY <2>4 DEF BeginRaw, MarkRaw, MarkRawUnavailable, EndSync, PushRaw, RawRetry,
                    RawRefused, marks, org
      <3>2. job'[p].pc \notin Careless /\ \A q \in Proc : q # p => job'[q] = job[q]
        <4>1. CASE BeginRaw(p) \/ EndSync(p)
          BY <1>0, <4>1, BeginRawAt, FinishAt DEF EndSync, Idle, Careless
        <4>2. CASE MarkRaw(p) \/ MarkRawUnavailable(p)
          BY <1>0, <4>2, ReturnAt DEF MarkRaw, MarkRawUnavailable, Careless
        <4>3. CASE \E s \in Session : PushRaw(p, s) \/ RawRetry(p, s) \/ RawRefused(p, s)
          <5>1. PICK s \in Session :
                  RawDone(p, s, "rawmark") \/ RawDone(p, s, "raw") \/ RawDone(p, s, "rawbad")
            BY <4>3 DEF PushRaw, RawRetry, RawRefused
          <5>2. /\ job'[p].pc \in {"rawmark", "raw", "rawbad"}
                /\ \A q \in Proc : q # p => job'[q] = job[q]
            BY <1>0, <5>1, RawDoneAt
          <5>3. QED
            BY <5>2 DEF Careless
        <4>4. QED
          BY <2>4, <4>1, <4>2, <4>3
      <3>3. QED
        BY <1>1, <2>0, <3>1, <3>2, HonestQuiet
    <2>5. CASE Gate(p)
      <3>1. /\ job'[p].pc = "fresh"
            /\ job'[p].copy = [s \in Session |->
                                 IF s \in Eligible(job[p].due) THEN digest[s].ver ELSE 0]
            /\ \A q \in Proc : q # p => job'[q] = job[q]
        BY <1>0, <2>5, GateAt
      <3>2. synced' = synced /\ server' = server
        BY <2>5 DEF Gate, marks, org
      <3>3. MarkedIsCurrent'
        BY <1>0, <1>1, <3>2 DEF MarkedIsCurrent
      <3>4. Agrees(p)'
        BY <1>1, <3>1 DEF Agrees, At, Batch
      <3>5. QED
        BY <2>0, <3>1, <3>3, <3>4, HonestAlone
    <2>6. ASSUME NEW raw \in BOOLEAN, Fresh(p, raw)
          PROVE  Consistent'
      <3>1. /\ job'[p].pc \in {"mark", "push"}
            /\ job'[p].pc = "mark" => job'[p].copy = NoCopy
            /\ job'[p].copy = [s \in Session |-> IF s \in synced THEN 0 ELSE job[p].copy[s]]
            /\ \A q \in Proc : q # p => job'[q] = job[q]
        BY <1>0, <2>6, FreshAt
      <3>2. synced' = synced /\ server' = server /\ At(p, "fresh")
        BY <2>6 DEF Fresh, marks, org
      <3>3. MarkedIsCurrent'
        BY <1>0, <1>1, <3>2 DEF MarkedIsCurrent
      <3>4. \A s \in Session : job'[p].copy[s] # 0 =>
               s \notin synced /\ job'[p].copy[s] = digest[s].ver
        BY <1>0, <3>1, <3>2 DEF Agrees, Batch
      <3>5. Agrees(p)'
        BY <1>1, <3>1, <3>2, <3>4 DEF Agrees, At, Batch, NoCopy
      <3>6. QED
        BY <2>0, <3>1, <3>3, <3>5, HonestAlone
    <2>7. QED
      BY <1>3, <2>1, <2>2, <2>3, <2>4, <2>5, <2>6
  <1>4. QED
    BY <1>2, <1>3

LEMMA HonestEngineer ==
    ASSUME Solo, HonestInv, NEW p \in Proc, Engineer(p)
    PROVE  Consistent'
  <1>0. TypeOK /\ MarkedIsCurrent /\ OneAtATime
    BY DEF HonestInv, Consistent
  <1>1. server' = server
    BY DEF Engineer, BeginCompact, EndCompact, SetMode, SetHold, SetReleased, ReadRow,
           Purge, Resync, org
  <1>2. \A q \in Proc : q # p => At(q, "idle")
    <2>1. CASE EndCompact(p)
      BY <2>1, BusyAlone DEF EndCompact, At
    <2>2. CASE ~EndCompact(p)
      <3>1. Free(p)
        BY <2>2 DEF Engineer, BeginCompact, SetMode, SetHold, SetReleased, Purge, Resync, Command
      <3>2. QED
        BY <3>1, CommandAlone
    <2>3. QED
      BY <2>1, <2>2
  <1>3. CASE BeginCompact(p) \/ EndCompact(p)
    <2>1. synced' = synced /\ digest' = digest
      BY <1>3 DEF BeginCompact, EndCompact, marks
    <2>2. job'[p].pc \notin Careless /\ \A q \in Proc : q # p => job'[q] = job[q]
      BY <1>0, <1>3, BeginCompactAt, FinishAt DEF EndCompact, Idle, Careless
    <2>3. QED
      BY <1>1, <1>2, <2>1, <2>2, HonestQuiet
  <1>4. CASE \/ \E s \in Session, b \in BOOLEAN : SetMode(p, s, b)
             \/ \E S \in SUBSET Session : Resync(p, S)
    <2>1. job' = job /\ digest' = digest /\ synced' \subseteq synced
      BY <1>4 DEF SetMode, Resync, Unmark, marks
    <2>2. OneAtATime'
      BY <1>0, <2>1 DEF OneAtATime, At
    <2>3. QED
      BY <1>1, <2>1, <2>2, HonestFrame
  <1>5. ASSUME NEW s \in Session, NEW b \in BOOLEAN, SetHold(p, s, b) \/ SetReleased(p, s, b)
        PROVE  Consistent'
    <2>1. PICK row : ReadRow(p, s, row) /\ row.ver = digest[s].ver
      <3>1. /\ [digest[s] EXCEPT !.hold = b].ver = digest[s].ver
            /\ [digest[s] EXCEPT !.released = b].ver = digest[s].ver
        BY <1>0 DEF TypeOK, Digest
      <3>2. \/ ReadRow(p, s, [digest[s] EXCEPT !.hold = b])
            \/ ReadRow(p, s, [digest[s] EXCEPT !.released = b])
        BY <1>5 DEF SetHold, SetReleased
      <3>3. QED
        BY <3>1, <3>2
    <2>2. QED
      BY <1>2, <2>1, HonestReadRow
  <1>6. ASSUME NEW S \in SUBSET Session, Purge(p, S)
        PROVE  Consistent'
    <2>1. job' = job /\ At(p, "idle") /\ synced' = synced \ S
      BY <1>6 DEF Purge, Command, Free, Unmark
    <2>2. \A s \in Session : s \notin S => digest'[s] = digest[s]
      BY <1>6 DEF Purge
    <2>3. MarkedIsCurrent'
      BY <1>0, <1>1, <2>1, <2>2 DEF MarkedIsCurrent, TypeOK
    <2>4. Agrees(p)'
      BY <2>1 DEF Agrees, At
    <2>5. QED
      BY <1>2, <2>1, <2>3, <2>4, HonestAlone
  <1>7. QED
    BY <1>3, <1>4, <1>5, <1>6 DEF Engineer

LEMMA InitHonest == Init => HonestInv
  <1>1. Init => Consistent
    BY DEF Init, Consistent, MarkedIsCurrent, OneAtATime, Agrees, At, Idle
  <1>2. QED
    BY <1>1, InitTypeOK DEF HonestInv

LEMMA NextHonest == Solo /\ HonestInv /\ [Next]_vars => HonestInv'
  <1> SUFFICES ASSUME Solo, HonestInv, [Next]_vars
               PROVE  Consistent'
    BY NextTypeOK DEF HonestInv
  <1>1. CASE World \/ Watch \/ UNCHANGED vars
    BY <1>1, HonestLocal
  <1>2. ASSUME NEW p \in Proc, Shared(p)
        PROVE  Consistent'
    BY <1>2, HonestCompact, HonestSync DEF Shared
  <1>3. ASSUME NEW p \in Foreground, Engineer(p)
        PROVE  Consistent'
    BY <1>3, HonestEngineer DEF Proc
  <1>4. QED
    BY <1>1, <1>2, <1>3 DEF Next

\* As long as operations do not overlap, a digest marked as synced is the very one the
\* server holds, whatever crashes, failed pushes and lost replies: skipping it in the
\* next sync loses nothing (clear_synced in compact_session, delete_compactions).
THEOREM SerialWatermarks == Exclusive /\ Spec => []WatermarkHonest
  <1> SUFFICES ASSUME Exclusive
               PROVE  Spec => []WatermarkHonest
    OBVIOUS
  <1>1. HonestInv => WatermarkHonest
    BY DEF HonestInv, Consistent, MarkedIsCurrent, WatermarkHonest
  <1>2. HonestInv /\ [Next]_vars => HonestInv'
    BY NextHonest DEF Solo
  <1>3. QED
    BY <1>1, <1>2, InitHonest, PTL DEF Spec

(***************************************************************************)
(* The laptop implements Delivery: for any transcripts, processes and      *)
(* bounds, every step of Laptop is a step of Delivery or a stutter.        *)
(* Besides the invariants above (what is released, what the                *)
(* server has acknowledged) this needs that no row, no digest and no batch *)
(* in flight ever holds more turns than its transcript.                    *)
(***************************************************************************)
-----------------------------------------------------------------------------
\* Nothing is made up

Genuine == \A s \in Session : captured[s] <= written[s] /\ digest[s].ver <= written[s]

\* The steps at which a process holds content it has read, or a digest built from it.
Copying == {"store", "fresh", "push"}
Rowing == {"stamp", "carry", "write", "flag"}

Sourced(p) ==
    /\ job[p].pc \in Copying => \A s \in Session : job[p].copy[s] <= written[s]
    /\ job[p].pc \in Rowing => \A s \in job[p].cur : job[p].row.ver <= written[s]

SourceInv == TypeOK /\ Genuine /\ \A p \in Proc : Sourced(p)

\* A step that makes no transcript shorter and leads no process to a holding step
\* preserves the invariant, if what it stores is genuine.
LEMMA SourceFrame ==
    ASSUME SourceInv, TypeOK', Genuine',
           \A s \in Session : written'[s] >= written[s],
           \A q \in Proc : job'[q] = job[q] \/ job'[q].pc \notin Copying \cup Rowing
    PROVE  SourceInv'
  <1>1. ASSUME NEW q \in Proc
        PROVE  Sourced(q)'
    <2>1. /\ job[q].cur \subseteq Session
          /\ job[q].copy \in [Session -> Nat] /\ job[q].row.ver \in Nat
          /\ written \in [Session -> Nat] /\ written' \in [Session -> Nat]
      BY DEF SourceInv, TypeOK, Job, Digest
    <2>2. CASE job'[q] = job[q]
      <3>1. Sourced(q)
        BY DEF SourceInv
      <3>2. ASSUME job[q].pc \in Copying, NEW s \in Session
            PROVE  job[q].copy[s] <= written'[s]
        <4>1. job[q].copy[s] <= written[s] /\ written'[s] >= written[s]
          BY <3>1, <3>2 DEF Sourced
        <4>2. QED
          BY <2>1, <4>1
      <3>3. ASSUME job[q].pc \in Rowing, NEW s \in job[q].cur
            PROVE  job[q].row.ver <= written'[s]
        <4>1. s \in Session /\ job[q].row.ver <= written[s] /\ written'[s] >= written[s]
          BY <2>1, <3>1, <3>3 DEF Sourced
        <4>2. QED
          BY <2>1, <4>1
      <3>4. QED
        BY <2>2, <3>2, <3>3 DEF Sourced
    <2>3. CASE job'[q].pc \notin Copying \cup Rowing
      BY <2>3 DEF Sourced
    <2>4. QED
      BY <2>2, <2>3
  <1>2. QED
    BY <1>1 DEF SourceInv

\* A step of p alone, that writes to no transcript.
LEMMA SourceAlone ==
    ASSUME SourceInv, TypeOK', Genuine', written' = written,
           NEW p \in Proc, Sourced(p)',
           \A q \in Proc : q # p => job'[q] = job[q]
    PROVE  SourceInv'
  BY DEF SourceInv, Sourced

\* Rows that are not touched, or only lose their digest, stay genuine.
LEMMA GenuineFrame ==
    ASSUME SourceInv, TypeOK', captured' = captured,
           \A s \in Session : written'[s] >= written[s],
           \A s \in Session : digest'[s].ver \in {0, digest[s].ver}
    PROVE  Genuine'
  <1>1. ASSUME NEW s \in Session
        PROVE  captured'[s] <= written'[s] /\ digest'[s].ver <= written'[s]
    <2>1. /\ captured[s] \in Nat /\ digest[s].ver \in Nat
          /\ written[s] \in Nat /\ written'[s] \in Nat
      BY DEF SourceInv, TypeOK, Digest
    <2>2. captured[s] <= written[s] /\ digest[s].ver <= written[s] /\ written'[s] >= written[s]
      BY DEF SourceInv, Genuine
    <2>3. digest'[s].ver \in {0, digest[s].ver}
      OBVIOUS
    <2>4. QED
      BY <2>1, <2>2, <2>3
  <1>2. QED
    BY <1>1 DEF Genuine

LEMMA SourceLocal ==
    ASSUME SourceInv, TypeOK', World \/ Watch \/ UNCHANGED vars
    PROVE  SourceInv'
  <1>0. TypeOK /\ Daemon \in Proc
    BY DEF SourceInv, Proc
  <1>1. \A s \in Session : written'[s] >= written[s]
    <2>1. CASE \E t \in Transcript, i \in 1 .. MaxSegs : Append(t, i)
      <3>1. PICK t \in Transcript, i \in 1 .. MaxSegs :
               written' = [written EXCEPT ![<<t, i>>] = written[<<t, i>>] + 1]
        BY <2>1 DEF Append
      <3>2. <<t, i>> \in Session
        BY SessionFacts
      <3>3. ASSUME NEW s \in Session
            PROVE  written'[s] >= written[s]
        <4>1. written[s] \in Nat /\ written'[s] \in {written[s], written[s] + 1}
          BY <1>0, <3>1, <3>2 DEF TypeOK
        <4>2. QED
          BY <4>1
      <3>4. QED
        BY <3>3
    <2>2. CASE written' = written
      BY <1>0, <2>2 DEF TypeOK
    <2>3. QED
      BY <2>1, <2>2 DEF World, Settle, Age, Watch, Scan, BeginSettle, SkipSettle, BeginRelease,
           ListReleasable, EndRelease, SkipSync, ReadFails, AutoRelease, ReadRow, ReleaseMisses,
           vars, files
  <1>2. captured' = captured /\ \A s \in Session : digest'[s].ver = digest[s].ver
    <2>1. CASE \E s \in Session : Age(s)
      <3>1. PICK s \in Session : /\ digest' = [digest EXCEPT ![s].aged = TRUE]
                                 /\ captured' = captured
        BY <2>1 DEF Age, sessions
      <3>2. QED
        BY <1>0, <3>1 DEF TypeOK, Digest
    <2>2. CASE captured' = captured /\ digest' = digest
      BY <2>2
    <2>3. QED
      BY <2>1, <2>2 DEF World, Settle, Append, Watch, Scan, BeginSettle, SkipSettle,
           BeginRelease, ListReleasable, EndRelease, SkipSync, ReadFails, AutoRelease, ReadRow,
           ReleaseMisses, vars, sessions
  <1>3. Genuine'
    BY <1>1, <1>2, GenuineFrame
  <1>4. CASE \E s \in Session : AutoRelease(s)
    <2>1. PICK s \in Session : ReadRow(Daemon, s, [digest[s] EXCEPT !.released = TRUE])
      BY <1>4 DEF AutoRelease
    <2>2. /\ job'[Daemon].pc = "flag" /\ job'[Daemon].cur = {s}
          /\ job'[Daemon].row = [digest[s] EXCEPT !.released = TRUE]
          /\ \A q \in Proc : q # Daemon => job'[q] = job[q]
      BY <1>0, <2>1, ReadRowAt
    <2>3. job'[Daemon].row.ver = digest[s].ver
      BY <1>0, <2>2 DEF TypeOK, Digest
    <2>4. written' = written
      BY <2>1 DEF ReadRow, files
    <2>5. Sourced(Daemon)'
      BY <2>2, <2>3, <2>4 DEF Sourced, SourceInv, Genuine, Copying
    <2>6. QED
      BY <1>0, <1>3, <2>2, <2>4, <2>5, SourceAlone
  <1>5. CASE ~ \E s \in Session : AutoRelease(s)
    <2>1. \A q \in Proc : job'[q] = job[q] \/ job'[q].pc \notin Copying \cup Rowing
      <3>1. CASE World \/ UNCHANGED vars \/ \E t \in Transcript : ReadFails(t)
        BY <3>1 DEF World, Settle, Append, Age, ReadFails, vars
      <3>2. CASE Scan \/ SkipSettle \/ EndRelease
        BY <1>0, <3>2, GotoAt DEF Scan, SkipSettle, EndRelease, Copying, Rowing
      <3>3. CASE SkipSync
        BY <1>0, <3>3, FinishAt DEF SkipSync, Idle, Copying, Rowing
      <3>4. CASE BeginSettle \/ BeginRelease \/ ListReleasable
        BY <1>0, <3>4, BeginSettleAt, BeginReleaseAt, ListReleasableAt DEF Copying, Rowing
      <3>5. CASE \E s \in Session : ReleaseMisses(s)
        BY <1>0, <3>5, ReleaseMissesAt DEF Copying, Rowing
      <3>6. QED
        BY <1>5, <3>1, <3>2, <3>3, <3>4, <3>5 DEF Watch
    <2>2. QED
      BY <1>1, <1>3, <2>1, SourceFrame
  <1>6. QED
    BY <1>4, <1>5

\* Capture, compaction and the write half of a flag update.
LEMMA SourceCompact ==
    ASSUME SourceInv, TypeOK', NEW p \in Proc,
           \/ StoreFamily(p) \/ Stamp(p) \/ Carry(p) \/ WriteDigest(p) \/ WriteRow(p)
           \/ Crash(p)
           \/ \E t \in Transcript : ReadTranscript(p, t)
           \/ \E s \in Session : SkipSession(p, s) \/ Build(p, s)
    PROVE  SourceInv'
  <1>0. /\ TypeOK /\ Genuine /\ Sourced(p)
        /\ job[p] \in Job /\ job[p].cur \subseteq Session /\ job[p].row \in Digest
    BY DEF SourceInv, TypeOK, Job
  <1>1. written' = written /\ \A s \in Session : written'[s] >= written[s]
    <2>1. written' = written
      BY DEF StoreFamily, Stamp, Carry, WriteDigest, WriteRow, Crash, ReadTranscript,
             SkipSession, Build, files
    <2>2. QED
      BY <1>0, <2>1 DEF TypeOK
  <1>2. CASE Crash(p) \/ \E s \in Session : SkipSession(p, s)
    <2>1. captured' = captured /\ digest' = digest
      BY <1>2 DEF Crash, SkipSession, sessions
    <2>2. Genuine'
      BY <1>1, <2>1, GenuineFrame
    <2>3. \A q \in Proc : job'[q] = job[q] \/ job'[q].pc \notin Copying \cup Rowing
      BY <1>0, <1>2, FinishAt, SkipSessionAt DEF Crash, Idle, Copying, Rowing
    <2>4. QED
      BY <1>1, <2>2, <2>3, SourceFrame
  <1>3. CASE \E t \in Transcript : ReadTranscript(p, t)
    <2>1. PICK t \in Transcript :
             /\ Become(p, [job[p] EXCEPT
                             !.pc = "store", !.cur = Family(t),
                             !.copy = [s \in Session |->
                                         IF s \in Family(t) THEN written[s] ELSE 0]])
             /\ captured' = captured /\ digest' = digest
      BY <1>3 DEF ReadTranscript, sessions
    <2> DEFINE read == [s \in Session |-> IF s \in Family(t) THEN written[s] ELSE 0]
    <2>2. \A s \in Session : read[s] <= written[s]
      BY <1>0 DEF TypeOK
    <2>3. Become(p, [job[p] EXCEPT !.pc = "store", !.cur = Family(t), !.copy = read])
      BY <2>1
    <2> HIDE DEF read
    <2>4. /\ job'[p] = [job[p] EXCEPT !.pc = "store", !.cur = Family(t), !.copy = read]
          /\ \A q \in Proc : q # p => job'[q] = job[q]
      BY <1>0, <2>3, BecomeAt
    <2>5. job'[p].pc = "store" /\ job'[p].copy = read
      BY <1>0, <2>4 DEF Job
    <2>6. Sourced(p)'
      BY <1>1, <2>2, <2>5 DEF Sourced, Rowing
    <2>7. Genuine'
      BY <1>1, <2>1, GenuineFrame
    <2>8. QED
      BY <1>1, <2>4, <2>6, <2>7, SourceAlone
  <1>4. CASE StoreFamily(p)
    <2>1. \A s \in Session : job[p].copy[s] <= written[s]
      BY <1>0, <1>4 DEF StoreFamily, At, Sourced, Copying
    <2>2. PICK t \in Transcript :
             captured' = [s \in Session |-> IF s \in Family(t) THEN job[p].copy[s] ELSE captured[s]]
      BY <1>4 DEF StoreFamily
    <2>3. digest' = digest
      BY <1>4 DEF StoreFamily
    <2>4. Genuine'
      BY <1>0, <1>1, <2>1, <2>2, <2>3 DEF Genuine
    <2>5. \A q \in Proc : job'[q] = job[q] \/ job'[q].pc \notin Copying \cup Rowing
      BY <1>0, <1>4, ReturnAt DEF StoreFamily, Copying, Rowing
    <2>6. QED
      BY <1>1, <2>4, <2>5, SourceFrame
  <1>5. CASE \E s \in Session : Build(p, s)
    <2>1. PICK s \in Session :
             /\ Become(p, [job[p] EXCEPT !.pc = "stamp", !.due = job[p].due \ {s}, !.cur = {s},
                                         !.row = [NoDigest EXCEPT !.ver = captured[s]]])
             /\ captured' = captured /\ digest' = digest
      BY <1>5 DEF Build, sessions
    <2> DEFINE row == [NoDigest EXCEPT !.ver = captured[s]]
    <2>2. row.ver <= written[s]
      BY <1>0 DEF Genuine, NoDigest
    <2>3. Become(p, [job[p] EXCEPT !.pc = "stamp", !.due = job[p].due \ {s}, !.cur = {s}, !.row = row])
      BY <2>1
    <2> HIDE DEF row
    <2>4. /\ job'[p] = [job[p] EXCEPT !.pc = "stamp", !.due = job[p].due \ {s}, !.cur = {s}, !.row = row]
          /\ \A q \in Proc : q # p => job'[q] = job[q]
      BY <1>0, <2>3, BecomeAt
    <2>5. job'[p].pc = "stamp" /\ job'[p].row = row /\ job'[p].cur = {s}
      BY <1>0, <2>4 DEF Job
    <2>6. Sourced(p)'
      BY <1>1, <2>2, <2>5 DEF Sourced, Copying
    <2>7. Genuine'
      BY <1>1, <2>1, GenuineFrame
    <2>8. QED
      BY <1>1, <2>4, <2>6, <2>7, SourceAlone
  <1>6. CASE Stamp(p) \/ Carry(p)
    <2>1. \A s \in job[p].cur : job[p].row.ver <= written[s]
      BY <1>0, <1>6 DEF Stamp, Carry, At, Sourced, Rowing
    <2>2. PICK row :
             /\ row.ver = job[p].row.ver
             /\ \/ Become(p, [job[p] EXCEPT !.pc = "carry", !.row = row])
                \/ Become(p, [job[p] EXCEPT !.pc = "write", !.row = row])
      <3>1. CASE Stamp(p)
        <4>1. PICK s \in job[p].cur :
                 Become(p, [job[p] EXCEPT
                              !.pc = "carry", !.row = [job[p].row EXCEPT !.built = mtime[File(s)]]])
          BY <3>1 DEF Stamp
        <4> DEFINE r == [job[p].row EXCEPT !.built = mtime[File(s)]]
        <4>2. r.ver = job[p].row.ver
          BY <1>0 DEF Digest
        <4>3. Become(p, [job[p] EXCEPT !.pc = "carry", !.row = r])
          BY <4>1
        <4> HIDE DEF r
        <4>4. QED
          BY <4>2, <4>3
      <3>2. CASE Carry(p)
        <4>1. PICK s \in job[p].cur :
                 Become(p, [job[p] EXCEPT
                              !.pc = "write",
                              !.row = [job[p].row EXCEPT !.hold = digest[s].hold,
                                                         !.released = digest[s].released]])
          BY <3>2 DEF Carry
        <4> DEFINE r == [job[p].row EXCEPT !.hold = digest[s].hold,
                                           !.released = digest[s].released]
        <4>2. r.ver = job[p].row.ver
          BY <1>0 DEF Digest
        <4>3. Become(p, [job[p] EXCEPT !.pc = "write", !.row = r])
          BY <4>1
        <4> HIDE DEF r
        <4>4. QED
          BY <4>2, <4>3
      <3>3. QED
        BY <1>6, <3>1, <3>2
    <2>3. /\ \/ job'[p] = [job[p] EXCEPT !.pc = "carry", !.row = row]
             \/ job'[p] = [job[p] EXCEPT !.pc = "write", !.row = row]
          /\ \A q \in Proc : q # p => job'[q] = job[q]
      BY <1>0, <2>2, BecomeAt
    <2>4. job'[p].pc \in {"carry", "write"} /\ job'[p].row = row /\ job'[p].cur = job[p].cur
      BY <1>0, <2>3 DEF Job
    <2>5. Sourced(p)'
      BY <1>1, <2>1, <2>2, <2>4 DEF Sourced, Copying
    <2>6. captured' = captured /\ digest' = digest
      BY <1>6 DEF Stamp, Carry, sessions
    <2>7. Genuine'
      BY <1>1, <2>6, GenuineFrame
    <2>8. QED
      BY <1>1, <2>3, <2>5, <2>7, SourceAlone
  <1>7. CASE WriteDigest(p) \/ WriteRow(p)
    <2>1. \A s \in job[p].cur : job[p].row.ver <= written[s]
      BY <1>0, <1>7 DEF WriteDigest, WriteRow, At, Sourced, Rowing
    <2>2. captured' = captured
      BY <1>7 DEF WriteDigest, WriteRow, sessions
    <2>3. \/ digest' = digest
          \/ \E s \in job[p].cur : digest' = [digest EXCEPT ![s] = job[p].row]
      BY <1>7 DEF WriteDigest, WriteRow
    <2>4. Genuine'
      BY <1>0, <1>1, <2>1, <2>2, <2>3 DEF Genuine, TypeOK
    <2>5. \A q \in Proc : job'[q] = job[q] \/ job'[q].pc \notin Copying \cup Rowing
      BY <1>0, <1>7, ReturnAt, WriteRowAt DEF WriteDigest, Copying, Rowing
    <2>6. QED
      BY <1>1, <2>4, <2>5, SourceFrame
  <1>8. QED
    BY <1>2, <1>3, <1>4, <1>5, <1>6, <1>7

LEMMA SourceSync ==
    ASSUME SourceInv, TypeOK', NEW p \in Proc,
           \/ Push(p) \/ PushFails(p) \/ BeginRaw(p) \/ MarkRaw(p)
           \/ MarkRawUnavailable(p) \/ EndSync(p)
           \/ BeginSync(p) \/ Gate(p) \/ \E raw \in BOOLEAN : Fresh(p, raw)
           \/ \E s \in Session : \/ MarkSynced(p, s) \/ PushRaw(p, s)
                                 \/ RawRetry(p, s) \/ RawRefused(p, s)
    PROVE  SourceInv'
  <1>0. TypeOK /\ Genuine /\ Sourced(p) /\ job[p].copy \in [Session -> Nat]
    BY DEF SourceInv, TypeOK, Job
  <1>1. written' = written /\ captured' = captured /\ digest' = digest
    BY DEF Push, PushFails, BeginRaw, MarkRaw, MarkRawUnavailable, EndSync, BeginSync, Gate,
           Fresh, MarkSynced, PushRaw, RawRetry, RawRefused, files, sessions
  <1>2. Genuine' /\ \A s \in Session : written'[s] >= written[s]
    BY <1>0, <1>1 DEF Genuine, TypeOK
  <1>3. CASE Gate(p)
    <2>1. /\ job'[p].pc = "fresh"
          /\ job'[p].copy = [s \in Session |->
                               IF s \in Eligible(job[p].due) THEN digest[s].ver ELSE 0]
          /\ \A q \in Proc : q # p => job'[q] = job[q]
      BY <1>0, <1>3, GateAt
    <2>2. Sourced(p)'
      BY <1>0, <1>1, <2>1 DEF Sourced, Rowing, Genuine, TypeOK
    <2>3. QED
      BY <1>1, <1>2, <2>1, <2>2, SourceAlone
  <1>4. CASE \E raw \in BOOLEAN : Fresh(p, raw)
    <2>1. /\ job'[p].pc \in {"mark", "push"}
          /\ job'[p].copy = [s \in Session |-> IF s \in synced THEN 0 ELSE job[p].copy[s]]
          /\ \A q \in Proc : q # p => job'[q] = job[q]
      BY <1>0, <1>4, FreshAt
    <2>2. \A s \in Session : job[p].copy[s] <= written[s]
      BY <1>0, <1>4 DEF Fresh, At, Sourced, Copying
    <2>3. Sourced(p)'
      BY <1>0, <1>1, <2>1, <2>2 DEF Sourced, Rowing, TypeOK
    <2>4. QED
      BY <1>1, <1>2, <2>1, <2>3, SourceAlone
  <1>5. CASE ~Gate(p) /\ ~ \E raw \in BOOLEAN : Fresh(p, raw)
    <2>1. \A q \in Proc : job'[q] = job[q] \/ job'[q].pc \notin Copying \cup Rowing
      <3>0. CASE Push(p)
        BY <1>0, <3>0, GotoAt DEF Push, Copying, Rowing
      <3>1. CASE PushFails(p) \/ EndSync(p)
        BY <1>0, <3>1, FinishAt DEF PushFails, EndSync, Idle, Copying, Rowing
      <3>2. CASE BeginRaw(p) \/ MarkRaw(p) \/ MarkRawUnavailable(p) \/ BeginSync(p)
        BY <1>0, <3>2, BeginRawAt, ReturnAt, BeginSyncAt
           DEF MarkRaw, MarkRawUnavailable, Copying, Rowing
      <3>3. CASE \E s \in Session : MarkSynced(p, s)
        BY <1>0, <3>3, MarkSyncedAt DEF Copying, Rowing
      <3>4. CASE \E s \in Session : PushRaw(p, s) \/ RawRetry(p, s) \/ RawRefused(p, s)
        BY <1>0, <3>4, RawDoneAt DEF PushRaw, RawRetry, RawRefused, Copying, Rowing
      <3>5. QED
        BY <1>5, <3>0, <3>1, <3>2, <3>3, <3>4
    <2>2. QED
      BY <1>2, <2>1, SourceFrame
  <1>6. QED
    BY <1>3, <1>4, <1>5

LEMMA SourceEngineer ==
    ASSUME SourceInv, TypeOK', NEW p \in Proc, Engineer(p)
    PROVE  SourceInv'
  <1>0. TypeOK /\ Genuine /\ Sourced(p)
    BY DEF SourceInv
  <1>1. written' = written /\ captured' = captured
    BY DEF Engineer, BeginCompact, EndCompact, SetMode, SetHold, SetReleased, ReadRow,
           Purge, Resync, files, sessions
  <1>2. \A s \in Session : digest'[s].ver \in {0, digest[s].ver}
    <2>1. CASE \E S \in SUBSET Session : Purge(p, S)
      BY <2>1 DEF Purge, NoDigest
    <2>2. CASE digest' = digest
      BY <2>2
    <2>3. QED
      BY <2>1, <2>2 DEF Engineer, BeginCompact, EndCompact, SetMode, SetHold, SetReleased,
           ReadRow, Resync
  <1>3. Genuine' /\ \A s \in Session : written'[s] >= written[s]
    <2>1. \A s \in Session : written'[s] >= written[s]
      BY <1>0, <1>1 DEF TypeOK
    <2>2. QED
      BY <1>1, <1>2, <2>1, GenuineFrame
  <1>4. CASE \E s \in Session, b \in BOOLEAN : SetHold(p, s, b) \/ SetReleased(p, s, b)
    <2>1. PICK s \in Session, b \in BOOLEAN : SetHold(p, s, b) \/ SetReleased(p, s, b)
      BY <1>4
    <2>2. PICK row : ReadRow(p, s, row) /\ row.ver = digest[s].ver
      <3>1. /\ [digest[s] EXCEPT !.hold = b].ver = digest[s].ver
            /\ [digest[s] EXCEPT !.released = b].ver = digest[s].ver
        BY <1>0 DEF TypeOK, Digest
      <3>2. QED
        BY <2>1, <3>1 DEF SetHold, SetReleased
    <2>3. /\ job'[p].pc = "flag" /\ job'[p].cur = {s} /\ job'[p].row = row
          /\ \A q \in Proc : q # p => job'[q] = job[q]
      BY <1>0, <2>2, ReadRowAt
    <2>4. Sourced(p)'
      BY <1>0, <1>1, <2>2, <2>3 DEF Sourced, Genuine, Copying
    <2>5. QED
      BY <1>1, <1>3, <2>3, <2>4, SourceAlone
  <1>5. CASE ~ \E s \in Session, b \in BOOLEAN : SetHold(p, s, b) \/ SetReleased(p, s, b)
    <2>1. \A q \in Proc : job'[q] = job[q] \/ job'[q].pc \notin Copying \cup Rowing
      <3>1. CASE BeginCompact(p) \/ EndCompact(p)
        BY <1>0, <3>1, BeginCompactAt, FinishAt DEF EndCompact, Idle, Copying, Rowing
      <3>2. CASE job' = job
        BY <3>2
      <3>3. QED
        BY <1>5, <3>1, <3>2 DEF Engineer, SetMode, Purge, Resync
    <2>2. QED
      BY <1>3, <2>1, SourceFrame
  <1>6. QED
    BY <1>4, <1>5

LEMMA InitSource == Init => SourceInv
  <1>1. Init => Genuine /\ \A p \in Proc : Sourced(p)
    BY DEF Init, Genuine, Sourced, Idle, NoDigest, Copying, Rowing
  <1>2. QED
    BY <1>1, InitTypeOK DEF SourceInv

LEMMA NextSource == SourceInv /\ [Next]_vars => SourceInv'
  <1> SUFFICES ASSUME SourceInv, [Next]_vars
               PROVE  SourceInv'
    OBVIOUS
  <1>0. TypeOK'
    BY NextTypeOK DEF SourceInv
  <1>1. CASE World \/ Watch \/ UNCHANGED vars
    BY <1>0, <1>1, SourceLocal
  <1>2. ASSUME NEW p \in Proc, Shared(p)
        PROVE  SourceInv'
    BY <1>0, <1>2, SourceCompact, SourceSync DEF Shared
  <1>3. ASSUME NEW p \in Foreground, Engineer(p)
        PROVE  SourceInv'
    BY <1>0, <1>3, SourceEngineer DEF Proc
  <1>4. QED
    BY <1>1, <1>2, <1>3 DEF Next

-----------------------------------------------------------------------------
\* The mapping of steps

ContractStep == [Contract!Next]_(Contract!vars)

\* A step that the promise cannot see.
LEMMA Unseen ==
    ASSUME written' = written, consent' = consent, server' = server, serverRaw' = serverRaw,
           synced' = synced, rawSynced' = rawSynced
    PROVE  ContractStep
  BY DEF ContractStep, Contract!vars, Approved

\* Watermarks are forgotten, and nothing else happens that the promise can see.
LEMMA Forgets ==
    ASSUME TypeOK, NEW S \in SUBSET Session, Unmark(S), Approved' = Approved,
           written' = written, server' = server, serverRaw' = serverRaw
    PROVE  ContractStep
  <1>1. (synced \cup rawSynced)' = (synced \cup rawSynced) \ S
    BY DEF Unmark
  <1>2. Contract!Forget(S)
    BY <1>1 DEF Contract!Forget
  <1>3. QED
    BY <1>2 DEF ContractStep, Contract!Next

LEMMA LocalStep ==
    ASSUME TypeOK, World \/ Watch \/ UNCHANGED vars
    PROVE  ContractStep
  <1>1. CASE \E t \in Transcript, i \in 1 .. MaxSegs : Append(t, i)
    <2>1. PICK t \in Transcript, i \in 1 .. MaxSegs : Append(t, i)
      BY <1>1
    <2>2. <<t, i>> \in Session
      BY SessionFacts
    <2>3. /\ written' = [written EXCEPT ![<<t, i>>] = written[<<t, i>>] + 1]
          /\ Approved' = Approved /\ server' = server /\ serverRaw' = serverRaw
          /\ (synced \cup rawSynced)' = synced \cup rawSynced
      BY <2>1 DEF Append, Approved, org, marks
    <2>4. Contract!Write(<<t, i>>)
      BY <2>3 DEF Contract!Write
    <2>5. QED
      BY <2>2, <2>4 DEF ContractStep, Contract!Next
  <1>2. CASE ~ \E t \in Transcript, i \in 1 .. MaxSegs : Append(t, i)
    <2>1. /\ written' = written /\ consent' = consent /\ server' = server /\ serverRaw' = serverRaw
          /\ synced' = synced /\ rawSynced' = rawSynced
      BY <1>2 DEF World, Settle, Age, Watch, Scan, BeginSettle, SkipSettle, BeginRelease,
           ListReleasable, EndRelease, SkipSync, ReadFails, AutoRelease, ReadRow, ReleaseMisses,
           vars, files, org, marks
    <2>2. QED
      BY <2>1, Unseen
  <1>3. QED
    BY <1>1, <1>2

LEMMA CompactStep ==
    ASSUME TypeOK, NEW p \in Proc,
           \/ StoreFamily(p) \/ Stamp(p) \/ Carry(p) \/ WriteDigest(p) \/ WriteRow(p)
           \/ Crash(p)
           \/ \E t \in Transcript : ReadTranscript(p, t)
           \/ \E s \in Session : SkipSession(p, s) \/ Build(p, s)
    PROVE  ContractStep
  <1>1. CASE Carry(p)
    <2>1. PICK s \in job[p].cur : s \in Session /\ Unmark(IF digest[s].ver # 0 THEN {s} ELSE {})
      BY <1>1, CarryAt
    <2>2. /\ Approved' = Approved
          /\ written' = written /\ server' = server /\ serverRaw' = serverRaw
      BY <1>1 DEF Carry, Approved, files, org
    <2>3. (IF digest[s].ver # 0 THEN {s} ELSE {}) \in SUBSET Session
      BY <2>1
    <2>4. QED
      BY <2>1, <2>2, <2>3, Forgets
  <1>2. CASE WriteRow(p)
    <2>1. /\ written' = written /\ server' = server /\ serverRaw' = serverRaw
          /\ synced' = synced /\ rawSynced' = rawSynced
      BY <1>2 DEF WriteRow, files, org, marks
    <2>2. CASE consent' = consent
      BY <2>1, <2>2, Unseen
    <2>3. CASE \E s \in job[p].cur : consent' = [consent EXCEPT ![s] = Decided(p, s, job[p].row)]
      <3>1. PICK s \in job[p].cur : consent' = [consent EXCEPT ![s] = Decided(p, s, job[p].row)]
        BY <2>3
      <3>2. s \in Session
        BY DEF TypeOK, Job
      <3>3. "released" \in consent[s] => "released" \in Decided(p, s, job[p].row)
        BY DEF Decided
      <3>4. Approved' = Approved \/ Approved' = Approved \cup {s}
        BY <3>1, <3>2, <3>3 DEF Approved, TypeOK
      <3>5. CASE Approved' = Approved
        BY <2>1, <3>5 DEF ContractStep, Contract!vars
      <3>6. CASE Approved' = Approved \cup {s}
        <4>1. Contract!Approve(s)
          BY <2>1, <3>6 DEF Contract!Approve
        <4>2. QED
          BY <3>2, <4>1 DEF ContractStep, Contract!Next
      <3>7. QED
        BY <3>4, <3>5, <3>6
    <2>4. QED
      BY <1>2, <2>2, <2>3 DEF WriteRow
  <1>3. CASE ~Carry(p) /\ ~WriteRow(p)
    <2>1. /\ written' = written /\ consent' = consent /\ server' = server /\ serverRaw' = serverRaw
          /\ synced' = synced /\ rawSynced' = rawSynced
      BY <1>3 DEF StoreFamily, Stamp, WriteDigest, Crash, ReadTranscript, SkipSession, Build,
                  files, org, marks
    <2>2. QED
      BY <2>1, Unseen
  <1>4. QED
    BY <1>1, <1>2, <1>3

LEMMA SyncStep ==
    ASSUME AckInv, ReleaseInv, SourceInv, NEW p \in Proc,
           \/ Push(p) \/ PushFails(p) \/ BeginRaw(p) \/ MarkRaw(p)
           \/ MarkRawUnavailable(p) \/ EndSync(p)
           \/ BeginSync(p) \/ Gate(p) \/ \E raw \in BOOLEAN : Fresh(p, raw)
           \/ \E s \in Session : \/ MarkSynced(p, s) \/ PushRaw(p, s)
                                 \/ RawRetry(p, s) \/ RawRefused(p, s)
    PROVE  ContractStep
  <1>0. /\ TypeOK /\ MarksWhatWasPushed /\ ReleasedInFlight /\ Sourced(p) /\ Genuine
        /\ job[p].copy \in [Session -> Nat] /\ job[p].cur \subseteq Session
    BY DEF AckInv, ReleaseInv, SourceInv, TypeOK, Job
  <1>1. CASE Push(p) \/ PushFails(p)
    <2>1. PICK S \in SUBSET Batch(p) :
             server' = [s \in Session |-> IF s \in S THEN job[p].copy[s] ELSE server[s]]
      BY <1>1 DEF Push, PushFails, Upserted
    <2>2. /\ written' = written /\ consent' = consent /\ serverRaw' = serverRaw
          /\ synced' = synced /\ rawSynced' = rawSynced
      BY <1>1 DEF Push, PushFails, files, marks
    <2>3. At(p, "push")
      BY <1>1 DEF Push, PushFails
    <2>4. ASSUME NEW s \in Session, server'[s] # server[s]
          PROVE  s \in Approved /\ server'[s] \in 1 .. written[s]
      <3>1. s \in Batch(p) /\ server'[s] = job[p].copy[s]
        BY <2>1, <2>4
      <3>2. "released" \in consent[s]
        BY <1>0, <2>3, <3>1 DEF ReleasedInFlight
      <3>3. /\ job[p].copy[s] # 0 /\ job[p].copy[s] <= written[s]
            /\ job[p].copy[s] \in Nat /\ written[s] \in Nat
        BY <1>0, <2>3, <3>1 DEF Batch, Sourced, Copying, At, TypeOK
      <3>4. QED
        BY <3>1, <3>2, <3>3 DEF Approved
    <2>5. server' \in [Session -> Nat]
      BY <1>0, <2>1 DEF TypeOK
    <2>6. Contract!Deliver
      BY <2>2, <2>4, <2>5 DEF Contract!Deliver, Approved
    <2>7. QED
      BY <2>6 DEF ContractStep, Contract!Next
  <1>2. CASE \E s \in Session : PushRaw(p, s) \/ RawRetry(p, s)
    <2>1. PICK s \in Session : PushRaw(p, s) \/ RawRetry(p, s)
      BY <1>2
    <2>2. /\ written' = written /\ consent' = consent /\ server' = server
          /\ synced' = synced /\ rawSynced' = rawSynced
      BY <2>1 DEF PushRaw, RawRetry, files, marks
    <2>3. CASE serverRaw' = serverRaw
      BY <2>2, <2>3, Unseen
    <2>4. CASE server[s] # 0 /\ serverRaw' = [serverRaw EXCEPT ![s] = captured[s]]
      <3>1. captured[s] \in 0 .. written[s]
        BY <1>0 DEF Genuine, TypeOK
      <3>2. Contract!DeliverRaw(s)
        BY <2>2, <2>4, <3>1 DEF Contract!DeliverRaw, Approved
      <3>3. QED
        BY <3>2 DEF ContractStep, Contract!Next
    <2>5. QED
      BY <2>1, <2>3, <2>4 DEF PushRaw, RawRetry
  <1>3. CASE MarkRaw(p) \/ \E s \in Session : MarkSynced(p, s)
    <2>1. PICK S \in SUBSET Session :
             /\ \A s \in S : server[s] # 0
             /\ (synced \cup rawSynced)' = (synced \cup rawSynced) \cup S
      <3>1. CASE MarkRaw(p)
        <4>1. \A s \in job[p].cur : server[s] # 0
          BY <1>0, <3>1 DEF MarkRaw, MarksWhatWasPushed
        <4>2. (synced \cup rawSynced)' = (synced \cup rawSynced) \cup job[p].cur
          BY <3>1 DEF MarkRaw
        <4>3. QED
          BY <1>0, <4>1, <4>2
      <3>2. CASE \E s \in Session : MarkSynced(p, s)
        <4>1. PICK s \in Session : MarkSynced(p, s)
          BY <3>2
        <4>2. server[s] # 0
          BY <1>0, <4>1 DEF MarkSynced, MarksWhatWasPushed
        <4>3. (synced \cup rawSynced)' = (synced \cup rawSynced) \cup {s}
          BY <4>1 DEF MarkSynced
        <4>4. QED
          BY <4>2, <4>3
      <3>3. QED
        BY <1>3, <3>1, <3>2
    <2>2. written' = written /\ consent' = consent /\ server' = server /\ serverRaw' = serverRaw
      BY <1>3 DEF MarkRaw, MarkSynced, files, org
    <2>3. Contract!Acknowledge(S)
      BY <2>1, <2>2 DEF Contract!Acknowledge, Approved
    <2>4. QED
      BY <2>3 DEF ContractStep, Contract!Next
  <1>4. CASE \/ BeginRaw(p) \/ MarkRawUnavailable(p) \/ EndSync(p) \/ BeginSync(p) \/ Gate(p)
             \/ \E raw \in BOOLEAN : Fresh(p, raw)
             \/ \E s \in Session : RawRefused(p, s)
    <2>1. /\ written' = written /\ consent' = consent /\ server' = server /\ serverRaw' = serverRaw
          /\ synced' = synced /\ rawSynced' = rawSynced
      BY <1>4 DEF BeginRaw, MarkRawUnavailable, EndSync, BeginSync, Gate, Fresh, RawRefused,
                  files, org, marks
    <2>2. QED
      BY <2>1, Unseen
  <1>5. QED
    BY <1>1, <1>2, <1>3, <1>4

LEMMA EngineerStep ==
    ASSUME TypeOK, NEW p \in Proc, Engineer(p)
    PROVE  ContractStep
  <1>1. written' = written /\ server' = server /\ serverRaw' = serverRaw
    BY DEF Engineer, BeginCompact, EndCompact, SetMode, SetHold, SetReleased, ReadRow,
           Purge, Resync, files, org
  <1>2. Approved' = Approved
    <2>1. CASE \E s \in Session, b \in BOOLEAN : SetMode(p, s, b)
      <3>1. PICK s \in Session, d \in {"personal"} :
               \/ consent' = [consent EXCEPT ![s] = consent[s] \cup {d}]
               \/ consent' = [consent EXCEPT ![s] = consent[s] \ {d}]
        BY <2>1 DEF SetMode
      <3>2. QED
        BY <3>1 DEF Approved, TypeOK
    <2>2. CASE \E S \in SUBSET Session : Purge(p, S)
      BY <2>2 DEF Purge, Approved
    <2>3. CASE BeginCompact(p)
      BY <2>3 DEF BeginCompact, Approved
    <2>4. CASE consent' = consent
      BY <2>4 DEF Approved
    <2>5. QED
      BY <2>1, <2>2, <2>3, <2>4 DEF Engineer, EndCompact, SetHold, SetReleased, ReadRow, Resync
  <1>3. CASE \E S \in SUBSET Session : Purge(p, S) \/ Resync(p, S)
    <2>1. PICK S \in SUBSET Session : Unmark(S)
      BY <1>3 DEF Purge, Resync
    <2>2. QED
      BY <1>1, <1>2, <2>1, Forgets
  <1>4. CASE ~ \E S \in SUBSET Session : Purge(p, S) \/ Resync(p, S)
    <2>1. synced' = synced /\ rawSynced' = rawSynced
      BY <1>4 DEF Engineer, BeginCompact, EndCompact, SetMode, SetHold, SetReleased, ReadRow, marks
    <2>2. QED
      BY <1>1, <1>2, <2>1 DEF ContractStep, Contract!vars
  <1>5. QED
    BY <1>3, <1>4

LEMMA InitContract == Init => Contract!Init
  BY DEF Init, Contract!Init, Approved

LEMMA NextContract ==
    AckInv /\ ReleaseInv /\ SourceInv /\ [Next]_vars => [Contract!Next]_(Contract!vars)
  <1> SUFFICES ASSUME AckInv, ReleaseInv, SourceInv, [Next]_vars
               PROVE  ContractStep
    BY DEF ContractStep
  <1>0. TypeOK
    BY DEF AckInv
  <1>1. CASE World \/ Watch \/ UNCHANGED vars
    BY <1>0, <1>1, LocalStep
  <1>2. ASSUME NEW p \in Proc, Shared(p)
        PROVE  ContractStep
    BY <1>0, <1>2, CompactStep, SyncStep DEF Shared
  <1>3. ASSUME NEW p \in Foreground, Engineer(p)
        PROVE  ContractStep
    BY <1>0, <1>3, EngineerStep DEF Proc
  <1>4. QED
    BY <1>1, <1>2, <1>3 DEF Next

\* The laptop implements Delivery: capture, compaction, release and sync, in any number
\* of racing and crashing processes, amount to deliveries of approved, genuine turns and
\* acknowledgements of what was delivered.
THEOREM LaptopImplementsDelivery == Spec => ImplementsDelivery
  <1>1. QED
    BY InitAck, NextAck, InitRelease, NextRelease, InitSource, NextSource,
       InitContract, NextContract, PTL DEF Spec, ImplementsDelivery, Contract!Spec

-----------------------------------------------------------------------------
(***************************************************************************)
(* The pipeline when operations do not overlap, be it that each waits for  *)
(* the others or that the daemon has the store to itself: what an          *)
(* operation holds in memory then still agrees with the store, whatever is *)
(* killed, fails or lands in the files meanwhile.                          *)
(***************************************************************************)

HIDE ProcAssumption
HIDE SwitchAssumption
HIDE BoundsAssumption
HIDE DEF Holding

-----------------------------------------------------------------------------
\* What the operation of a process still agrees with, while no other is running

Sending == {"fresh", "push", "mark", "raw", "rawmark", "rawbad"}

\* What a sync has passed through the gate, and may still send or mark.
Passed(p) == job[p].due \cup Batch(p)

\* The sessions nobody keeps at home: work, released, and no hold asked for.
Leaving == {s \in Session : s \notin personal /\ digest[s].ver # 0 /\ digest[s].released}

\* A transcript read is no older than what the store has, and no newer than the file.
Capturing(p) ==
    At(p, "store") =>
        \A s \in job[p].cur : captured[s] <= job[p].copy[s] /\ job[p].copy[s] <= written[s]

\* A digest is built from turns in the store, and keeps the flags of the one before it.
Compacting(p) ==
    /\ At(p, "stamp") \/ At(p, "carry") \/ At(p, "write") =>
          \A s \in job[p].cur : job[p].row.ver <= captured[s] /\ captured[s] # 0 /\ job[p].row.ver # 0
    /\ At(p, "write") =>
          \A s \in job[p].cur : /\ s \notin rawSynced
                                /\ job[p].row.hold = digest[s].hold
                                /\ job[p].row.released = digest[s].released

\* The daemon releases nothing the engineer holds.
Releasing(p) ==
    p = Daemon =>
        /\ At(p, "release") \/ At(p, "flag") => \A s \in job[p].due : "hold" \notin consent[s]
        /\ At(p, "flag") => \A s \in job[p].cur : "hold" \notin consent[s]

Syncing(p) ==
    /\ At(p, "gate") => job[p].due \cap personal = {}
    /\ job[p].pc \in Sending => Passed(p) \subseteq Leaving
    /\ At(p, "rawmark") => \A s \in job[p].cur : s \in Leaving /\ serverRaw[s] >= digest[s].ver

HeldIsKept ==
    \A s \in Session : "hold" \in consent[s] => digest[s].ver # 0 /\ digest[s].hold /\ ~digest[s].released

LocalInv ==
    /\ \A s \in Session : digest[s].ver <= captured[s] /\ captured[s] <= written[s]
    /\ \A s \in rawSynced : digest[s].ver # 0 /\ serverRaw[s] >= digest[s].ver
    /\ HeldIsKept
    /\ \A p \in Proc : Capturing(p) /\ Compacting(p) /\ Releasing(p) /\ Syncing(p)
-----------------------------------------------------------------------------
\* Frames

Harmless == {"idle", "ingest", "settle", "pending", "releasable", "online"}

Parts(p) == Capturing(p) /\ Compacting(p) /\ Releasing(p) /\ Syncing(p)

LEMMA HarmlessParts ==
    ASSUME NEW p, At(p, "idle") \/ job[p].pc \in Harmless
    PROVE  Parts(p)
  BY DEF Parts, Capturing, Compacting, Releasing, Syncing, At, Harmless, Sending

LEMMA JobFields ==
    ASSUME TypeOK, NEW p \in Proc
    PROVE  /\ job[p] \in Job
           /\ job[p].due \in SUBSET Session /\ job[p].cur \in SUBSET Session
           /\ job[p].row \in Digest /\ job[p].copy \in [Session -> Nat]
  BY DEF TypeOK, Job

\* The tables grow on the file's side only, and every job is the same or harmless.
LEMMA LocalFrame ==
    ASSUME TypeOK, LocalInv,
           captured' = captured, personal' = personal, serverRaw' = serverRaw, consent' = consent,
           rawSynced' \subseteq rawSynced,
           \A s \in Session : written'[s] \in Nat /\ written[s] <= written'[s],
           \A s \in Session : /\ digest'[s].ver = digest[s].ver
                              /\ digest'[s].hold = digest[s].hold
                              /\ digest'[s].released = digest[s].released,
           \A q \in Proc : job'[q] = job[q] \/ job'[q].pc \in Harmless
    PROVE  LocalInv'
  <1>1. \A s \in Session : digest'[s].ver <= captured'[s] /\ captured'[s] <= written'[s]
    <2>1. \A s \in Session : captured[s] \in Nat /\ written[s] \in Nat
      BY DEF TypeOK
    <2>2. QED
      BY <2>1 DEF LocalInv
  <1>2. \A s \in rawSynced' : digest'[s].ver # 0 /\ serverRaw'[s] >= digest'[s].ver
    BY DEF LocalInv, TypeOK
  <1>3. HeldIsKept'
    BY DEF LocalInv, HeldIsKept
  <1>4. Leaving' = Leaving
    BY DEF Leaving
  <1>5. ASSUME NEW q \in Proc, job'[q] = job[q]
        PROVE  Parts(q)'
    <2>1. job[q].cur \subseteq Session /\ job[q].copy \in [Session -> Nat]
      BY JobFields
    <2>2. Parts(q)
      BY DEF LocalInv, Parts
    <2>3. Capturing(q)'
      <3>1. \A s \in job[q].cur : job[q].copy[s] \in Nat /\ written[s] \in Nat /\ written'[s] \in Nat
        BY <2>1 DEF TypeOK
      <3>2. QED
        BY <1>5, <2>1, <2>2, <3>1 DEF Parts, Capturing, At
    <2>4. Compacting(q)'
      BY <1>5, <2>1, <2>2 DEF Parts, Compacting, At
    <2>5. Releasing(q)'
      BY <1>5, <2>2 DEF Parts, Releasing, At
    <2>6. Syncing(q)'
      <3>1. Passed(q)' = Passed(q)
        BY <1>5 DEF Passed, Batch
      <3>2. QED
        BY <1>4, <1>5, <2>1, <2>2, <3>1 DEF Parts, Syncing, At
    <2>7. QED
      BY <2>3, <2>4, <2>5, <2>6 DEF Parts
  <1>6. ASSUME NEW q \in Proc, job'[q].pc \in Harmless
        PROVE  Parts(q)'
    BY <1>6 DEF Parts, Capturing, Compacting, Releasing, Syncing, At, Harmless, Sending
  <1>7. \A q \in Proc : Parts(q)'
    BY <1>5, <1>6
  <1>8. QED
    BY <1>1, <1>2, <1>3, <1>7 DEF LocalInv, Parts

\* What the invariant says of the tables.
LocalTables ==
    /\ \A s \in Session : digest[s].ver <= captured[s] /\ captured[s] <= written[s]
    /\ \A s \in rawSynced : digest[s].ver # 0 /\ serverRaw[s] >= digest[s].ver
    /\ HeldIsKept

\* The step of a process that runs alone.
LEMMA LocalAlone ==
    ASSUME NEW p \in Proc, \A q \in Proc : q # p => At(q, "idle") /\ job'[q] = job[q],
           LocalTables', Parts(p)'
    PROVE  LocalInv'
  <1>1. ASSUME NEW q \in Proc, q # p
        PROVE  Parts(q)'
    <2>1. job'[q].pc = "idle"
      BY <1>1 DEF At
    <2>2. QED
      BY <2>1 DEF Parts, Capturing, Compacting, Releasing, Syncing, At, Sending
  <1>2. \A q \in Proc : Parts(q)'
    BY <1>1
  <1>3. QED
    BY <1>2 DEF LocalInv, LocalTables, Parts

\* Tables whose rows, flags and marks did not change.
LEMMA TablesStill ==
    ASSUME LocalInv, UNCHANGED <<files, captured, digest, rawSynced, serverRaw, consent>>
    PROVE  LocalTables'
  BY DEF LocalInv, LocalTables, HeldIsKept, files

-----------------------------------------------------------------------------
\* Steps of the world, the watch loop and crashes

LEMMA LocalWorld ==
    ASSUME TypeOK, LocalInv, World \/ UNCHANGED vars \/ (\E t \in Transcript : ReadFails(t))
    PROVE  LocalInv'
  <1>1. /\ captured' = captured /\ personal' = personal /\ serverRaw' = serverRaw
        /\ consent' = consent /\ rawSynced' = rawSynced /\ job' = job
    BY DEF World, Settle, Append, Age, ReadFails, vars, sessions, marks, org
  <1>2. \A s \in Session : written'[s] \in Nat /\ written[s] <= written'[s]
    <2>1. CASE \E t \in Transcript : \E i \in 1 .. MaxSegs : Append(t, i)
      <3>1. PICK r : written' = [written EXCEPT ![r] = @ + 1]
        BY <2>1 DEF Append
      <3>2. QED
        BY <3>1 DEF TypeOK
    <2>2. CASE written' = written
      BY <2>2 DEF TypeOK
    <2>3. QED
      BY <2>1, <2>2 DEF World, Settle, Age, ReadFails, vars, files
  <1>3. \A s \in Session : /\ digest'[s].ver = digest[s].ver
                           /\ digest'[s].hold = digest[s].hold
                           /\ digest'[s].released = digest[s].released
    <2>1. CASE \E s \in Session : Age(s)
      <3>1. PICK s \in Session : digest' = [digest EXCEPT ![s].aged = TRUE]
        BY <2>1 DEF Age
      <3>2. QED
        BY <3>1 DEF TypeOK, Digest
    <2>2. CASE digest' = digest
      BY <2>2
    <2>3. QED
      BY <2>1, <2>2 DEF World, Settle, Append, ReadFails, vars
  <1>4. QED
    BY <1>1, <1>2, <1>3, LocalFrame

\* A step that only brings a process to a harmless point of its operation.
LEMMA LocalHarmless ==
    ASSUME TypeOK, LocalInv, NEW p \in Proc,
           UNCHANGED <<files, sessions, digest, rawSynced, serverRaw, consent>>,
           job'[p].pc \in Harmless, \A q \in Proc : q # p => job'[q] = job[q]
    PROVE  LocalInv'
  <1>1. \A s \in Session : written'[s] \in Nat /\ written[s] <= written'[s]
    BY DEF files, TypeOK
  <1>2. captured' = captured /\ personal' = personal
    BY DEF sessions
  <1>3. QED
    BY <1>1, <1>2, LocalFrame

LEMMA LocalCrash ==
    ASSUME TypeOK, LocalInv, NEW p \in Proc, Crash(p)
    PROVE  LocalInv'
  <1>1. UNCHANGED <<files, sessions, digest, rawSynced, serverRaw, consent>>
    BY DEF Crash, files, sessions, marks, org
  <1>2. job'[p] = Idle /\ \A q \in Proc : q # p => job'[q] = job[q]
    BY FinishAt DEF Crash
  <1>3. job'[p].pc \in Harmless
    BY <1>2 DEF Idle, Harmless
  <1>4. QED
    BY <1>1, <1>2, <1>3, LocalHarmless

-----------------------------------------------------------------------------
\* Capture and compaction

\* A step changes the job of one process, in the fields it names.
LEMMA StoreFamilyAt ==
    ASSUME TypeOK, NEW p \in Proc, StoreFamily(p)
    PROVE  /\ job'[p].pc \in {"ingest", "idle"}
           /\ \A q \in Proc : q # p => job'[q] = job[q]
  BY ReturnAt DEF StoreFamily

LEMMA LocalCapture ==
    ASSUME TypeOK, LocalInv, NEW p \in Proc, \A q \in Proc : q # p => At(q, "idle"),
           StoreFamily(p) \/ \E t \in Transcript : ReadTranscript(p, t)
    PROVE  LocalInv'
  <1>1. CASE StoreFamily(p)
    <2>1. job'[p].pc \in {"ingest", "idle"} /\ \A q \in Proc : q # p => job'[q] = job[q]
      BY <1>1, StoreFamilyAt
    <2>2. Parts(p)'
      BY <2>1 DEF Parts, Capturing, Compacting, Releasing, Syncing, At, Sending
    <2>3. PICK t \in Transcript :
            /\ job[p].cur = Family(t)
            /\ captured' = [s \in Session |-> IF s \in Family(t) THEN job[p].copy[s] ELSE captured[s]]
      BY <1>1 DEF StoreFamily
    <2>4. Capturing(p) /\ At(p, "store")
      BY <1>1 DEF LocalInv, StoreFamily
    <2>5. \A s \in Session : captured[s] <= captured'[s] /\ captured'[s] <= written[s]
      BY <2>3, <2>4 DEF Capturing, LocalInv, TypeOK
    <2>6. UNCHANGED <<files, digest, rawSynced, serverRaw, consent>> /\ captured' \in [Session -> Nat]
      BY <1>1, <2>3, JobFields DEF StoreFamily, marks, org, TypeOK
    <2>7. \A s \in Session : digest[s].ver <= captured'[s]
      <3>1. \A s \in Session : digest[s].ver \in Nat /\ captured[s] \in Nat /\ captured'[s] \in Nat
        BY <2>6 DEF TypeOK, Digest
      <3>2. \A s \in Session : digest[s].ver <= captured[s]
        BY DEF LocalInv
      <3>3. QED
        BY <2>5, <3>1, <3>2
    <2>8. LocalTables'
      BY <2>5, <2>6, <2>7 DEF LocalTables, LocalInv, HeldIsKept, files
    <2>9. QED
      BY <2>1, <2>2, <2>8, LocalAlone
  <1>2. ASSUME NEW t \in Transcript, ReadTranscript(p, t)
        PROVE  LocalInv'
    <2>1. PICK copy : copy = [s \in Session |-> IF s \in Family(t) THEN written[s] ELSE 0]
      OBVIOUS
    <2>2. /\ job'[p] = [job[p] EXCEPT !.pc = "store", !.cur = Family(t), !.copy = copy]
          /\ \A q \in Proc : q # p => job'[q] = job[q]
      BY <1>2, <2>1, BecomeAt DEF ReadTranscript
    <2>3. job'[p].pc = "store" /\ job'[p].cur = Family(t) /\ job'[p].copy = copy
      BY <2>2, JobFields DEF Job
    <2>4. UNCHANGED <<files, captured, digest, rawSynced, serverRaw, consent>>
      BY <1>2 DEF ReadTranscript, sessions, marks, org
    <2>5. Capturing(p)'
      <3>1. \A s \in Family(t) : s \in Session /\ copy[s] = written[s]
        BY <2>1, SessionFacts
      <3>2. \A s \in Family(t) : captured[s] <= written[s] /\ written[s] \in Nat
        BY <3>1 DEF LocalInv, TypeOK
      <3>3. QED
        BY <2>3, <2>4, <3>1, <3>2 DEF Capturing, At, files
    <2>6. Parts(p)'
      BY <2>3, <2>5 DEF Parts, Compacting, Releasing, Syncing, At, Sending
    <2>7. QED
      BY <2>2, <2>4, <2>6, TablesStill, LocalAlone
  <1>3. QED
    BY <1>1, <1>2

LEMMA LocalCompact ==
    ASSUME HonestInv, LocalInv, NEW p \in Proc, \A q \in Proc : q # p => At(q, "idle"),
           Stamp(p) \/ Carry(p) \/ WriteDigest(p) \/ (\E s \in Session : Build(p, s))
    PROVE  LocalInv'
  <1>0. TypeOK /\ Agrees(p) /\ Parts(p) /\ job[p] \in Job
    BY JobFields DEF HonestInv, Consistent, LocalInv, Parts
  <1>1. ASSUME NEW s \in Session, Build(p, s)
        PROVE  LocalInv'
    <2>1. PICK row : row = [NoDigest EXCEPT !.ver = captured[s]]
      OBVIOUS
    <2>2. row.ver = captured[s]
      BY <2>1 DEF NoDigest
    <2>3. /\ job'[p] = [job[p] EXCEPT !.pc = "stamp", !.due = @ \ {s}, !.cur = {s}, !.row = row]
          /\ \A q \in Proc : q # p => job'[q] = job[q]
      BY <1>0, <1>1, <2>1, BecomeAt DEF Build
    <2>4. job'[p].pc = "stamp" /\ job'[p].cur = {s} /\ job'[p].row = row
      BY <1>0, <2>3 DEF Job
    <2>5. UNCHANGED <<files, captured, digest, rawSynced, serverRaw, consent>>
      BY <1>1 DEF Build, sessions, marks, org
    <2>6. captured[s] \in Nat /\ captured[s] # 0
      BY <1>0, <1>1 DEF TypeOK, Build
    <2>7. Compacting(p)'
      BY <2>2, <2>4, <2>5, <2>6 DEF Compacting, At
    <2>8. Parts(p)'
      BY <2>4, <2>7 DEF Parts, Capturing, Releasing, Syncing, At, Sending
    <2>9. QED
      BY <2>3, <2>5, <2>8, TablesStill, LocalAlone
  <1>2. CASE Stamp(p)
    <2>1. PICK s \in job[p].cur :
            Become(p, [job[p] EXCEPT !.pc = "carry", !.row = [job[p].row EXCEPT !.built = mtime[File(s)]]])
      BY <1>2 DEF Stamp
    <2>2. PICK row : row = [job[p].row EXCEPT !.built = mtime[File(s)]]
      OBVIOUS
    <2>3. row.ver = job[p].row.ver
      BY <1>0, <2>2, JobFields DEF Digest
    <2>4. /\ job'[p] = [job[p] EXCEPT !.pc = "carry", !.row = row]
          /\ \A q \in Proc : q # p => job'[q] = job[q]
      BY <1>0, <2>1, <2>2, BecomeAt
    <2>5. job'[p].pc = "carry" /\ job'[p].cur = job[p].cur /\ job'[p].row = row
      BY <1>0, <2>4 DEF Job
    <2>6. UNCHANGED <<files, captured, digest, rawSynced, serverRaw, consent>> /\ At(p, "stamp")
      BY <1>2 DEF Stamp, sessions, marks, org
    <2>7. Compacting(p)'
      BY <1>0, <2>3, <2>5, <2>6 DEF Compacting, Parts, At
    <2>8. Parts(p)'
      BY <2>5, <2>7 DEF Parts, Capturing, Releasing, Syncing, At, Sending
    <2>9. QED
      BY <2>4, <2>6, <2>8, TablesStill, LocalAlone
  <1>3. CASE Carry(p)
    <2>1. PICK s \in job[p].cur :
            /\ Become(p, [job[p] EXCEPT
                        !.pc = "write",
                        !.row = [job[p].row EXCEPT !.hold = digest[s].hold,
                                                   !.released = digest[s].released]])
            /\ Unmark(IF digest[s].ver # 0 THEN {s} ELSE {})
      BY <1>3 DEF Carry
    <2>2. PICK row : row = [job[p].row EXCEPT !.hold = digest[s].hold, !.released = digest[s].released]
      OBVIOUS
    <2>3. row.ver = job[p].row.ver /\ row.hold = digest[s].hold /\ row.released = digest[s].released
      BY <1>0, <2>2, JobFields DEF Digest
    <2>4. /\ job'[p] = [job[p] EXCEPT !.pc = "write", !.row = row]
          /\ \A q \in Proc : q # p => job'[q] = job[q]
      BY <1>0, <2>1, <2>2, BecomeAt
    <2>5. job'[p].pc = "write" /\ job'[p].cur = job[p].cur /\ job'[p].row = row
      BY <1>0, <2>4 DEF Job
    <2>6. UNCHANGED <<files, captured, digest, serverRaw, consent>> /\ At(p, "carry")
      BY <1>3 DEF Carry, sessions, org
    <2>7. \A r \in job[p].cur : r = s
      BY <1>0, <2>6 DEF Agrees
    <2>8. rawSynced' \subseteq rawSynced /\ s \notin rawSynced'
      <3>1. CASE digest[s].ver # 0
        BY <2>1, <3>1 DEF Unmark
      <3>2. CASE digest[s].ver = 0
        BY <2>1, <3>2 DEF Unmark, LocalInv
      <3>3. QED
        BY <3>1, <3>2
    <2>9. Compacting(p)'
      BY <1>0, <2>3, <2>5, <2>6, <2>7, <2>8 DEF Compacting, Parts, At
    <2>10. Parts(p)'
      BY <2>5, <2>9 DEF Parts, Capturing, Releasing, Syncing, At, Sending
    <2>11. LocalTables'
      BY <2>6, <2>8 DEF LocalInv, LocalTables, HeldIsKept, files
    <2>12. QED
      BY <2>4, <2>10, <2>11, LocalAlone
  <1>4. CASE WriteDigest(p)
    <2>1. PICK s \in job[p].cur : digest' = [digest EXCEPT ![s] = job[p].row]
      BY <1>4 DEF WriteDigest
    <2>2. job'[p].pc \in {"settle", "pending"} /\ \A q \in Proc : q # p => job'[q] = job[q]
      BY <1>0, <1>4, ReturnAt DEF WriteDigest
    <2>3. UNCHANGED <<files, captured, rawSynced, serverRaw, consent>> /\ At(p, "write")
      BY <1>4 DEF WriteDigest, sessions, marks, org
    <2>4. /\ s \in Session /\ job[p].row.ver <= captured[s] /\ job[p].row.ver # 0 /\ s \notin rawSynced
          /\ job[p].row.hold = digest[s].hold /\ job[p].row.released = digest[s].released
      BY <1>0, <2>3, JobFields DEF Compacting, Parts
    <2>5. digest'[s] = job[p].row /\ \A r \in Session : r # s => digest'[r] = digest[r]
      BY <1>0, <2>1, <2>4 DEF TypeOK
    <2>6. LocalTables'
      <3>1. \A r \in Session : digest'[r].ver <= captured'[r] /\ captured'[r] <= written'[r]
        BY <2>3, <2>4, <2>5 DEF LocalInv, files
      <3>2. \A r \in rawSynced' : digest'[r].ver # 0 /\ serverRaw'[r] >= digest'[r].ver
        BY <1>0, <2>3, <2>4, <2>5 DEF LocalInv, TypeOK
      <3>3. HeldIsKept'
        BY <2>3, <2>4, <2>5 DEF LocalInv, HeldIsKept
      <3>4. QED
        BY <3>1, <3>2, <3>3 DEF LocalTables
    <2>7. Parts(p)'
      BY <2>2 DEF Parts, Capturing, Compacting, Releasing, Syncing, At, Sending
    <2>8. QED
      BY <2>2, <2>6, <2>7, LocalAlone
  <1>5. QED
    BY <1>1, <1>2, <1>3, <1>4

-----------------------------------------------------------------------------
\* Flags: the daemon's release, and what the engineer sets

\* The read half of a flag update.
LEMMA LocalReadRow ==
    ASSUME TypeOK, LocalInv, NEW p \in Proc, NEW s \in Session, NEW row, ReadRow(p, s, row),
           \A q \in Proc : q # p => At(q, "idle"),
           p = Daemon => At(p, "release") /\ s \in job[p].due
    PROVE  LocalInv'
  <1>1. /\ job'[p] = [job[p] EXCEPT !.pc = "flag", !.due = @ \ {s}, !.cur = {s}, !.row = row]
        /\ \A q \in Proc : q # p => job'[q] = job[q]
    BY BecomeAt DEF ReadRow
  <1>2. job'[p].pc = "flag" /\ job'[p].cur = {s} /\ job'[p].due = job[p].due \ {s}
    BY <1>1, JobFields DEF Job
  <1>3. UNCHANGED <<files, captured, digest, rawSynced, serverRaw, consent>>
    BY DEF ReadRow, sessions, marks, org
  <1>4. Releasing(p)'
    <2>1. Releasing(p)
      BY DEF LocalInv
    <2>2. QED
      BY <1>2, <1>3, <2>1 DEF Releasing, At
  <1>5. Parts(p)'
    BY <1>2, <1>4 DEF Parts, Capturing, Compacting, Syncing, At, Sending
  <1>6. QED
    BY <1>1, <1>3, <1>5, TablesStill, LocalAlone

LEMMA LocalRelease ==
    ASSUME TypeOK, LocalInv, \A q \in Proc : q # Daemon => At(q, "idle"),
           ListReleasable \/ \E s \in Session : AutoRelease(s) \/ ReleaseMisses(s)
    PROVE  LocalInv'
  <1>0. Daemon \in Proc /\ job[Daemon] \in Job /\ Releasing(Daemon)
    BY JobFields DEF Proc, LocalInv
  <1>1. CASE ListReleasable
    <2>1. PICK S : S = Releasable(job[Daemon].due)
      OBVIOUS
    <2>2. /\ job'[Daemon] = [job[Daemon] EXCEPT !.pc = "release", !.due = S]
          /\ \A q \in Proc : q # Daemon => job'[q] = job[q]
      BY <1>0, <1>1, <2>1, BecomeAt DEF ListReleasable
    <2>3. job'[Daemon].pc = "release" /\ job'[Daemon].due = S /\ job'[Daemon].cur = job[Daemon].cur
      BY <1>0, <2>2 DEF Job
    <2>4. UNCHANGED <<files, captured, digest, rawSynced, serverRaw, consent>>
      BY <1>1 DEF ListReleasable, sessions, marks, org
    <2>5. Releasing(Daemon)'
      <3>1. \A s \in S : s \in Session /\ ~digest[s].hold
        BY <1>0, <2>1, JobFields DEF Releasable
      <3>2. QED
        BY <2>3, <2>4, <3>1 DEF Releasing, LocalInv, HeldIsKept, At
    <2>6. Parts(Daemon)'
      BY <2>3, <2>5 DEF Parts, Capturing, Compacting, Syncing, At, Sending
    <2>7. QED
      BY <1>0, <2>2, <2>4, <2>6, TablesStill, LocalAlone
  <1>2. ASSUME NEW s \in Session, AutoRelease(s)
        PROVE  LocalInv'
    <2>1. PICK row : ReadRow(Daemon, s, row)
      BY <1>2 DEF AutoRelease
    <2>2. At(Daemon, "release") /\ s \in job[Daemon].due
      BY <1>2 DEF AutoRelease
    <2>3. QED
      BY <1>0, <2>1, <2>2, LocalReadRow
  <1>3. ASSUME NEW s \in Session, ReleaseMisses(s)
        PROVE  LocalInv'
    <2>1. /\ job'[Daemon] = [job[Daemon] EXCEPT !.due = @ \ {s}]
          /\ \A q \in Proc : q # Daemon => job'[q] = job[q]
      BY <1>0, <1>3, BecomeAt DEF ReleaseMisses
    <2>2. /\ job'[Daemon].pc = "release" /\ job'[Daemon].due = job[Daemon].due \ {s}
          /\ job'[Daemon].cur = job[Daemon].cur
      BY <1>0, <1>3, <2>1 DEF Job, ReleaseMisses, At
    <2>3. UNCHANGED <<files, captured, digest, rawSynced, serverRaw, consent>> /\ At(Daemon, "release")
      BY <1>3 DEF ReleaseMisses, sessions, marks, org
    <2>4. Releasing(Daemon)'
      BY <1>0, <2>2, <2>3 DEF Releasing, At
    <2>5. Parts(Daemon)'
      BY <2>2, <2>4 DEF Parts, Capturing, Compacting, Syncing, At, Sending
    <2>6. QED
      BY <1>0, <2>1, <2>3, <2>5, TablesStill, LocalAlone
  <1>4. QED
    BY <1>1, <1>2, <1>3

\* The write half: what the engineer sets is what they decided; the daemon's row has
\* no hold on it.
LEMMA LocalWriteRow ==
    ASSUME HonestInv, LocalInv, NEW p \in Proc, \A q \in Proc : q # p => At(q, "idle"), WriteRow(p)
    PROVE  LocalInv'
  <1>0. TypeOK /\ Agrees(p) /\ Parts(p) /\ job[p] \in Job
    BY JobFields DEF HonestInv, Consistent, LocalInv, Parts
  <1>1. At(p, "flag") /\ UNCHANGED <<files, captured, rawSynced, serverRaw>>
    BY DEF WriteRow, sessions, marks, org
  <1>2. PICK s \in job[p].cur :
           IF digest[s].ver # 0
           THEN /\ digest' = [digest EXCEPT ![s] = job[p].row]
                /\ consent' = [consent EXCEPT ![s] = Decided(p, s, job[p].row)]
                /\ Return(p, "release", "idle")
           ELSE /\ Become(p, [Idle EXCEPT !.pc = IF p = Daemon THEN "online" ELSE "idle"])
                /\ UNCHANGED <<digest, consent>>
    BY DEF WriteRow
  <1>3. CASE digest[s].ver = 0
    <2>1. PICK label : label = IF p = Daemon THEN "online" ELSE "idle"
      OBVIOUS
    <2>2. /\ job'[p] = [Idle EXCEPT !.pc = label]
          /\ \A q \in Proc : q # p => job'[q] = job[q]
      BY <1>0, <1>2, <1>3, <2>1, BecomeAt
    <2>3. job'[p].pc \in {"online", "idle"}
      BY <2>1, <2>2 DEF Idle
    <2>4. UNCHANGED <<digest, consent>>
      BY <1>2, <1>3
    <2>5. Parts(p)'
      BY <2>3 DEF Parts, Capturing, Compacting, Releasing, Syncing, At, Sending
    <2>6. QED
      BY <1>1, <2>2, <2>4, <2>5, TablesStill, LocalAlone
  <1>4. CASE digest[s].ver # 0
    <2>1. /\ digest' = [digest EXCEPT ![s] = job[p].row]
          /\ consent' = [consent EXCEPT ![s] = Decided(p, s, job[p].row)]
          /\ Return(p, "release", "idle")
      BY <1>2, <1>4
    <2>2. s \in Session /\ job[p].row \in Digest /\ job[p].row.ver = digest[s].ver
      BY <1>0, <1>1, JobFields DEF Agrees
    <2>3. /\ digest'[s] = job[p].row /\ \A r \in Session : r # s => digest'[r] = digest[r]
          /\ consent'[s] = Decided(p, s, job[p].row) /\ \A r \in Session : r # s => consent'[r] = consent[r]
      BY <1>0, <2>1, <2>2 DEF TypeOK
    <2>4. \A r \in Session : digest'[r].ver = digest[r].ver
      BY <2>2, <2>3
    <2>5. "hold" \in consent'[s] => p # Daemon /\ ~job[p].row.released /\ job[p].row.hold
      BY <1>0, <1>1, <2>3 DEF Decided, Parts, Releasing
    <2>6. LocalTables'
      <3>1. \A r \in Session : digest'[r].ver <= captured'[r] /\ captured'[r] <= written'[r]
        BY <1>1, <2>4 DEF LocalInv, files
      <3>2. \A r \in rawSynced' : digest'[r].ver # 0 /\ serverRaw'[r] >= digest'[r].ver
        BY <1>0, <1>1, <2>4 DEF LocalInv, TypeOK
      <3>3. HeldIsKept'
        BY <1>4, <2>2, <2>3, <2>5 DEF LocalInv, HeldIsKept
      <3>4. QED
        BY <3>1, <3>2, <3>3 DEF LocalTables
    <2>7. /\ job'[p].pc = IF p = Daemon THEN "release" ELSE "idle"
          /\ job'[p].due = job[p].due
          /\ \A q \in Proc : q # p => job'[q] = job[q]
      <3>1. PICK label : label = IF p = Daemon THEN "release" ELSE "idle"
        OBVIOUS
      <3>2. /\ job'[p] = [job[p] EXCEPT !.pc = label, !.cur = {}, !.row = NoDigest, !.copy = NoCopy]
            /\ \A q \in Proc : q # p => job'[q] = job[q]
        BY <1>0, <2>1, <3>1, BecomeAt DEF Return
      <3>3. QED
        BY <1>0, <3>1, <3>2 DEF Job
    <2>8. Releasing(p)'
      <3>1. \A r \in Session : "hold" \in consent'[r] /\ p = Daemon => r # s /\ "hold" \in consent[r]
        BY <2>3, <2>5
      <3>2. job[p].due \subseteq Session
        BY <1>0, JobFields
      <3>3. CASE p = Daemon
        BY <1>0, <1>1, <2>7, <3>1, <3>2, <3>3 DEF Releasing, Parts, At
      <3>4. QED
        BY <3>3 DEF Releasing
    <2>9. Parts(p)'
      BY <2>7, <2>8 DEF Parts, Capturing, Compacting, Syncing, At, Sending
    <2>10. QED
      BY <2>6, <2>7, <2>9, LocalAlone
  <1>5. QED
    BY <1>3, <1>4

\* What the engineer's other commands write.
LEMMA LocalEngineer ==
    ASSUME TypeOK, LocalInv, NEW p \in Proc, p # Daemon, \A q \in Proc : q # p => At(q, "idle"), Engineer(p)
    PROVE  LocalInv'
  <1>1. CASE EndCompact(p)
    <2>1. UNCHANGED <<files, sessions, digest, rawSynced, serverRaw, consent>>
      BY <1>1 DEF EndCompact, files, sessions, marks, org
    <2>2. job'[p] = Idle /\ \A q \in Proc : q # p => job'[q] = job[q]
      BY <1>1, FinishAt DEF EndCompact
    <2>3. job'[p].pc \in Harmless
      BY <2>2 DEF Idle, Harmless
    <2>4. QED
      BY <2>1, <2>2, <2>3, LocalHarmless
  <1>2. CASE BeginCompact(p)
    <2>1. /\ job'[p].pc = "pending" /\ \A q \in Proc : q # p => job'[q] = job[q]
      BY <1>2, BeginCompactAt
    <2>2. UNCHANGED <<files, captured, digest, rawSynced, serverRaw>>
      BY <1>2 DEF BeginCompact, sessions, marks, org
    <2>3. \A s \in Session : "hold" \in consent'[s] => "hold" \in consent[s]
      BY <1>2 DEF BeginCompact
    <2>4. LocalTables'
      BY <2>2, <2>3 DEF LocalInv, LocalTables, HeldIsKept, files
    <2>5. Parts(p)'
      BY <2>1 DEF Parts, Capturing, Compacting, Releasing, Syncing, At, Sending
    <2>6. QED
      BY <2>1, <2>4, <2>5, LocalAlone
  <1>3. ASSUME NEW s \in Session, NEW b \in BOOLEAN, SetHold(p, s, b) \/ SetReleased(p, s, b)
        PROVE  LocalInv'
    <2>1. PICK row : ReadRow(p, s, row)
      BY <1>3 DEF SetHold, SetReleased
    <2>2. QED
      BY <2>1, LocalReadRow
  <1>4. CASE \/ \E s \in Session, b \in BOOLEAN : SetMode(p, s, b)
             \/ \E S \in SUBSET Session : Purge(p, S) \/ Resync(p, S)
    <2>1. job' = job /\ At(p, "idle")
      BY <1>4 DEF SetMode, Purge, Resync, Command, Free
    <2>2. job'[p].pc = "idle" /\ \A q \in Proc : q # p => job'[q] = job[q]
      BY <2>1 DEF At
    <2>3. Parts(p)'
      BY <2>2 DEF Parts, Capturing, Compacting, Releasing, Syncing, At, Sending
    <2>4. LocalTables'
      <3>1. ASSUME NEW s \in Session, NEW b \in BOOLEAN, SetMode(p, s, b)
            PROVE  LocalTables'
        <4>1. UNCHANGED <<files, captured, digest, rawSynced, serverRaw>>
          BY <3>1 DEF SetMode, marks, org
        <4>2. \A r \in Session : "hold" \in consent'[r] => "hold" \in consent[r]
          BY <3>1 DEF SetMode, TypeOK
        <4>3. QED
          BY <4>1, <4>2 DEF LocalInv, LocalTables, HeldIsKept, files
      <3>2. ASSUME NEW S \in SUBSET Session, Purge(p, S)
            PROVE  LocalTables'
        <4>1. UNCHANGED <<files, captured, serverRaw>> /\ rawSynced' = rawSynced \ S
          BY <3>2 DEF Purge, Unmark, sessions, org
        <4>2. \A r \in Session : digest'[r] = IF r \in S THEN NoDigest ELSE digest[r]
          BY <3>2 DEF Purge
        <4>3. \A r \in Session : "hold" \in consent'[r] => r \notin S /\ "hold" \in consent[r]
          BY <3>2 DEF Purge
        <4>4. \A r \in Session : digest'[r].ver <= captured'[r] /\ captured'[r] <= written'[r]
          BY <4>1, <4>2 DEF LocalInv, files, NoDigest, TypeOK
        <4>5. \A r \in rawSynced' : digest'[r].ver # 0 /\ serverRaw'[r] >= digest'[r].ver
          BY <4>1, <4>2 DEF LocalInv, TypeOK
        <4>6. HeldIsKept'
          BY <4>2, <4>3 DEF LocalInv, HeldIsKept
        <4>7. QED
          BY <4>4, <4>5, <4>6 DEF LocalTables
      <3>3. ASSUME NEW S \in SUBSET Session, Resync(p, S)
            PROVE  LocalTables'
        BY <3>3 DEF Resync, Unmark, files, sessions, org, LocalInv, LocalTables, HeldIsKept
      <3>4. QED
        BY <1>4, <3>1, <3>2, <3>3
    <2>5. QED
      BY <2>2, <2>3, <2>4, LocalAlone
  <1>5. QED
    BY <1>1, <1>2, <1>3, <1>4 DEF Engineer

-----------------------------------------------------------------------------
\* Sync

\* A step of a sync that changes no table of the invariant.
LEMMA LocalSending ==
    ASSUME LocalInv, NEW p \in Proc, \A q \in Proc : q # p => At(q, "idle") /\ job'[q] = job[q],
           UNCHANGED <<files, captured, digest, rawSynced, serverRaw, consent>>,
           job'[p].pc \in Sending \cup {"gate"}, Syncing(p)'
    PROVE  LocalInv'
  <1>1. Parts(p)'
    BY DEF Parts, Capturing, Compacting, Releasing, At, Sending
  <1>2. QED
    BY <1>1, TablesStill, LocalAlone

LEMMA LocalGate ==
    ASSUME TypeOK, LocalInv, NEW p \in Proc, \A q \in Proc : q # p => At(q, "idle"),
           BeginSync(p) \/ Gate(p) \/ \E raw \in BOOLEAN : Fresh(p, raw)
    PROVE  LocalInv'
  <1>0. job[p] \in Job /\ Parts(p)
    BY JobFields DEF LocalInv, Parts
  <1>1. UNCHANGED <<files, captured, personal, digest, rawSynced, serverRaw, consent>>
    BY DEF BeginSync, Gate, Fresh, sessions, marks, org
  <1>2. CASE BeginSync(p)
    <2>1. PICK S : S = WorkSessions
      OBVIOUS
    <2>2. /\ job'[p] = [job[p] EXCEPT !.pc = "gate", !.due = S]
          /\ \A q \in Proc : q # p => job'[q] = job[q]
      BY <1>2, <2>1, BecomeAt DEF BeginSync
    <2>3. job'[p].pc = "gate" /\ job'[p].due = S
      BY <1>0, <2>2 DEF Job
    <2>4. Syncing(p)'
      BY <1>1, <2>1, <2>3 DEF Syncing, WorkSessions, At, Sending
    <2>5. QED
      BY <1>1, <2>2, <2>3, <2>4, LocalSending
  <1>3. CASE Gate(p)
    <2>1. PICK S, copy : /\ S = Eligible(job[p].due)
                         /\ copy = [s \in Session |-> IF s \in S THEN digest[s].ver ELSE 0]
      OBVIOUS
    <2>2. /\ job'[p] = [job[p] EXCEPT !.pc = "fresh", !.due = S, !.copy = copy]
          /\ \A q \in Proc : q # p => job'[q] = job[q]
      BY <1>3, <2>1, BecomeAt DEF Gate
    <2>3. job'[p].pc = "fresh" /\ job'[p].due = S /\ job'[p].copy = copy
      BY <1>0, <2>2 DEF Job
    <2>4. At(p, "gate")
      BY <1>3 DEF Gate
    <2>5. S \subseteq Leaving
      BY <1>0, <2>1, <2>4, JobFields DEF Parts, Syncing, Eligible, Leaving
    <2>6. Passed(p)' \subseteq Leaving
      BY <2>1, <2>3, <2>5 DEF Passed, Batch
    <2>7. Leaving' = Leaving
      BY <1>1 DEF Leaving
    <2>8. Syncing(p)'
      BY <2>3, <2>6, <2>7 DEF Syncing, At, Sending
    <2>9. QED
      BY <1>1, <2>2, <2>3, <2>8, LocalSending DEF Sending
  <1>4. ASSUME NEW raw \in BOOLEAN, Fresh(p, raw)
        PROVE  LocalInv'
    <2>1. PICK batch, label, S :
            /\ batch = [s \in Session |-> IF s \in synced THEN 0 ELSE job[p].copy[s]]
            /\ label = (IF batch = NoCopy THEN "mark" ELSE "push")
            /\ S = IF raw THEN job[p].due ELSE {}
      OBVIOUS
    <2>2. /\ job'[p] = [job[p] EXCEPT !.pc = label, !.due = S, !.copy = batch]
          /\ \A q \in Proc : q # p => job'[q] = job[q]
      BY <1>4, <2>1, BecomeAt DEF Fresh
    <2>3. job'[p].pc = label /\ job'[p].due = S /\ job'[p].copy = batch
      BY <1>0, <2>2 DEF Job
    <2>4. At(p, "fresh") /\ label \in {"mark", "push"}
      BY <1>4, <2>1 DEF Fresh
    <2>5. Passed(p)' \subseteq Passed(p)
      BY <2>1, <2>3 DEF Passed, Batch
    <2>6. Leaving' = Leaving /\ Passed(p) \subseteq Leaving
      BY <1>0, <1>1, <2>4 DEF Leaving, Parts, Syncing, Sending, At
    <2>7. Syncing(p)'
      BY <2>3, <2>4, <2>5, <2>6 DEF Syncing, At
    <2>8. QED
      BY <1>1, <2>2, <2>3, <2>4, <2>7, LocalSending DEF Sending
  <1>5. QED
    BY <1>2, <1>3, <1>4

LEMMA LocalPush ==
    ASSUME TypeOK, LocalInv, NEW p \in Proc, \A q \in Proc : q # p => At(q, "idle"),
           Push(p) \/ PushFails(p) \/ BeginRaw(p) \/ (\E s \in Session : MarkSynced(p, s))
    PROVE  LocalInv'
  <1>0. job[p] \in Job /\ Parts(p)
    BY JobFields DEF LocalInv, Parts
  <1>1. UNCHANGED <<files, sessions, digest, rawSynced, serverRaw, consent>>
    BY DEF Push, PushFails, BeginRaw, MarkSynced, marks, org
  <1>2. Leaving' = Leaving /\ UNCHANGED <<captured, personal>>
    BY <1>1 DEF Leaving, sessions
  <1>3. CASE PushFails(p)
    <2>1. job'[p] = Idle /\ \A q \in Proc : q # p => job'[q] = job[q]
      BY <1>3, FinishAt DEF PushFails
    <2>2. job'[p].pc \in Harmless
      BY <2>1 DEF Idle, Harmless
    <2>3. QED
      BY <1>1, <2>1, <2>2, LocalHarmless
  <1>4. CASE Push(p) \/ BeginRaw(p) \/ \E s \in Session : MarkSynced(p, s)
    <2>1. /\ job'[p].pc \in {"mark", "raw"}
          /\ job'[p].due \subseteq job[p].due
          /\ \A s \in Session : job'[p].copy[s] # 0 => job[p].copy[s] # 0
          /\ \A q \in Proc : q # p => job'[q] = job[q]
      <3>1. CASE Push(p)
        <4>1. job'[p] = [job[p] EXCEPT !.pc = "mark"] /\ \A q \in Proc : q # p => job'[q] = job[q]
          BY <3>1, GotoAt DEF Push
        <4>2. QED
          BY <1>0, <4>1 DEF Job
      <3>2. CASE BeginRaw(p)
        <4>1. PICK S : S = job[p].due \ (rawSynced \cup rawUnavail)
          OBVIOUS
        <4>2. job'[p] = [job[p] EXCEPT !.pc = "raw", !.due = S] /\ \A q \in Proc : q # p => job'[q] = job[q]
          BY <3>2, <4>1, BecomeAt DEF BeginRaw
        <4>3. QED
          BY <1>0, <4>1, <4>2 DEF Job
      <3>3. ASSUME NEW s \in Session, MarkSynced(p, s)
            PROVE  /\ job'[p].pc = "mark" /\ job'[p].due = job[p].due
                   /\ \A r \in Session : job'[p].copy[r] # 0 => job[p].copy[r] # 0
                   /\ \A q \in Proc : q # p => job'[q] = job[q]
        <4>1. PICK copy : copy = [job[p].copy EXCEPT ![s] = 0]
          OBVIOUS
        <4>2. job'[p] = [job[p] EXCEPT !.copy = copy] /\ \A q \in Proc : q # p => job'[q] = job[q]
          BY <3>3, <4>1, BecomeAt DEF MarkSynced
        <4>3. job'[p].pc = "mark" /\ job'[p].due = job[p].due /\ job'[p].copy = copy
          BY <1>0, <3>3, <4>2 DEF Job, MarkSynced, At
        <4>4. \A r \in Session : copy[r] # 0 => job[p].copy[r] # 0
          BY <4>1, JobFields
        <4>5. QED
          BY <4>2, <4>3, <4>4
      <3>4. QED
        BY <1>4, <3>1, <3>2, <3>3
    <2>2. Passed(p)' \subseteq Passed(p)
      BY <2>1 DEF Passed, Batch
    <2>3. job[p].pc \in Sending
      BY <1>4 DEF Push, BeginRaw, MarkSynced, At, Sending
    <2>4. Syncing(p)'
      BY <1>0, <1>2, <2>1, <2>2, <2>3 DEF Syncing, Parts, At
    <2>5. QED
      BY <1>1, <1>2, <2>1, <2>4, LocalSending DEF Sending
  <1>5. QED
    BY <1>3, <1>4

LEMMA LocalRaw ==
    ASSUME TypeOK, LocalInv, NEW p \in Proc, \A q \in Proc : q # p => At(q, "idle"),
           \E s \in Session : PushRaw(p, s) \/ RawRetry(p, s) \/ RawRefused(p, s)
    PROVE  LocalInv'
  <1>0. job[p] \in Job /\ Parts(p)
    BY JobFields DEF LocalInv, Parts
  <1>1. UNCHANGED <<files, captured, personal, digest, rawSynced, consent>> /\ At(p, "raw")
    BY DEF PushRaw, RawRetry, RawRefused, sessions, marks, org
  <1>2. PICK s \in job[p].due : PushRaw(p, s) \/ RawRetry(p, s) \/ RawRefused(p, s)
    BY DEF PushRaw, RawRetry, RawRefused
  <1>3. s \in Session /\ s \in Leaving /\ Passed(p) \subseteq Leaving
    BY <1>0, <1>1, <1>2, JobFields DEF Parts, Syncing, Passed, Sending, At
  <1>4. Leaving' = Leaving
    BY <1>1 DEF Leaving
  <1>5. /\ \A r \in Session : r # s => serverRaw'[r] = serverRaw[r]
        /\ serverRaw'[s] \in {serverRaw[s], captured[s]}
        /\ PushRaw(p, s) => serverRaw'[s] = captured[s]
    BY <1>2, <1>3 DEF PushRaw, RawRetry, RawRefused, org, TypeOK
  <1>6. digest[s].ver <= captured[s] /\ digest[s].ver \in Nat /\ captured[s] \in Nat
    BY <1>3 DEF LocalInv, TypeOK, Digest
  <1>7. LocalTables'
    <2>1. \A r \in rawSynced' : digest'[r].ver # 0 /\ serverRaw'[r] >= digest'[r].ver
      BY <1>1, <1>5, <1>6 DEF LocalInv, TypeOK
    <2>2. QED
      BY <1>1, <2>1 DEF LocalInv, LocalTables, HeldIsKept, files
  <1>8. PICK label : /\ label \in {"raw", "rawmark", "rawbad"}
                     /\ RawDone(p, s, label)
                     /\ label = "rawmark" => PushRaw(p, s)
    BY <1>2 DEF PushRaw, RawRetry, RawRefused
  <1>9. PICK c : c = IF label = "raw" THEN {} ELSE {s}
    OBVIOUS
  <1>10. /\ job'[p] = [job[p] EXCEPT !.pc = label, !.due = @ \ {s}, !.cur = c]
         /\ \A q \in Proc : q # p => job'[q] = job[q]
    BY <1>8, <1>9, BecomeAt DEF RawDone
  <1>11. job'[p].pc = label /\ job'[p].due = job[p].due \ {s} /\ job'[p].cur = c /\ job'[p].copy = job[p].copy
    BY <1>0, <1>10 DEF Job
  <1>12. Passed(p)' \subseteq Passed(p)
    BY <1>11 DEF Passed, Batch
  <1>13. Syncing(p)'
    <2>1. At(p, "rawmark")' => \A r \in job'[p].cur : r = s /\ serverRaw'[r] >= digest'[r].ver
      BY <1>1, <1>5, <1>6, <1>8, <1>9, <1>11 DEF At
    <2>2. QED
      BY <1>3, <1>4, <1>8, <1>11, <1>12, <2>1 DEF Syncing, At, Sending
  <1>14. Parts(p)'
    BY <1>8, <1>11, <1>13 DEF Parts, Capturing, Compacting, Releasing, At, Sending
  <1>15. QED
    BY <1>7, <1>10, <1>14, LocalAlone

LEMMA LocalMark ==
    ASSUME TypeOK, LocalInv, NEW p \in Proc, \A q \in Proc : q # p => At(q, "idle"),
           MarkRaw(p) \/ MarkRawUnavailable(p) \/ EndSync(p)
    PROVE  LocalInv'
  <1>0. job[p] \in Job /\ Parts(p)
    BY JobFields DEF LocalInv, Parts
  <1>1. UNCHANGED <<files, captured, personal, digest, serverRaw, consent>>
    BY DEF MarkRaw, MarkRawUnavailable, EndSync, sessions, marks, org
  <1>2. CASE EndSync(p)
    <2>1. job'[p] = Idle /\ \A q \in Proc : q # p => job'[q] = job[q]
      BY <1>2, FinishAt DEF EndSync
    <2>2. job'[p].pc \in Harmless /\ UNCHANGED <<sessions, rawSynced>>
      BY <1>2, <2>1 DEF Idle, Harmless, EndSync, marks
    <2>3. QED
      BY <1>1, <2>1, <2>2, LocalHarmless
  <1>3. CASE MarkRaw(p) \/ MarkRawUnavailable(p)
    <2>1. Return(p, "raw", "raw") /\ job[p].pc \in {"rawmark", "rawbad"}
      BY <1>3 DEF MarkRaw, MarkRawUnavailable, At
    <2>2. PICK label : label = IF p = Daemon THEN "raw" ELSE "raw"
      OBVIOUS
    <2>3. /\ job'[p] = [job[p] EXCEPT !.pc = label, !.cur = {}, !.row = NoDigest, !.copy = NoCopy]
          /\ \A q \in Proc : q # p => job'[q] = job[q]
      BY <2>1, <2>2, BecomeAt DEF Return
    <2>4. job'[p].pc = "raw" /\ job'[p].due = job[p].due /\ job'[p].copy = NoCopy
      BY <1>0, <2>2, <2>3 DEF Job
    <2>5. Passed(p)' \subseteq Passed(p)
      BY <2>4 DEF Passed, Batch, NoCopy
    <2>6. Leaving' = Leaving /\ Passed(p) \subseteq Leaving
      BY <1>0, <1>1, <2>1 DEF Leaving, Parts, Syncing, Sending
    <2>7. Parts(p)'
      BY <2>4, <2>5, <2>6 DEF Parts, Capturing, Compacting, Releasing, Syncing, At, Sending
    <2>8. LocalTables'
      <3>1. \A r \in rawSynced' : digest[r].ver # 0 /\ serverRaw[r] >= digest[r].ver
        <4>1. CASE MarkRaw(p)
          BY <1>0, <4>1 DEF MarkRaw, Parts, Syncing, Leaving, LocalInv
        <4>2. CASE MarkRawUnavailable(p)
          BY <4>2 DEF MarkRawUnavailable, LocalInv
        <4>3. QED
          BY <1>3, <4>1, <4>2
      <3>2. QED
        BY <1>1, <3>1 DEF LocalInv, LocalTables, HeldIsKept, files
    <2>9. QED
      BY <2>3, <2>7, <2>8, LocalAlone
  <1>4. QED
    BY <1>2, <1>3

-----------------------------------------------------------------------------
\* Every step

\* Whoever takes a step of an operation is the only one in an operation.
LEMMA SharedAlone ==
    ASSUME Solo, HonestInv, NEW p \in Proc, Shared(p), ~Crash(p)
    PROVE  \A q \in Proc : q # p => At(q, "idle")
  <1>1. ~At(p, "idle") \/ Free(p)
    BY DEF Shared, StoreFamily, Stamp, Carry, WriteDigest, WriteRow, BeginSync, Gate, Push,
           PushFails, BeginRaw, MarkRaw, MarkRawUnavailable, EndSync, ReadTranscript, Fresh, SkipSession,
           Build, MarkSynced, PushRaw, RawRetry, RawRefused, Command, At
  <1>2. QED
    BY <1>1, BusyAlone, CommandAlone

LEMMA EngineerAlone ==
    ASSUME Solo, HonestInv, NEW p \in Proc, Engineer(p)
    PROVE  \A q \in Proc : q # p => At(q, "idle")
  <1>1. ~At(p, "idle") \/ Free(p)
    BY DEF Engineer, BeginCompact, EndCompact, SetMode, SetHold, SetReleased, Purge, Resync, Command, At
  <1>2. QED
    BY <1>1, BusyAlone, CommandAlone

LEMMA WatcherAlone ==
    ASSUME Solo, HonestInv, Watch, \A t \in Transcript : ~ReadFails(t)
    PROVE  \A q \in Proc : q # Daemon => At(q, "idle")
  <1>1. ~At(Daemon, "idle") \/ Free(Daemon)
    BY DEF Watch, Scan, BeginSettle, SkipSettle, BeginRelease, ListReleasable, EndRelease, SkipSync,
           AutoRelease, ReleaseMisses, At
  <1>2. Daemon \in Proc
    BY DEF Proc
  <1>3. QED
    BY <1>1, <1>2, BusyAlone, CommandAlone

LEMMA LocalWatch ==
    ASSUME Solo, HonestInv, LocalInv, Watch
    PROVE  LocalInv'
  <1>0. TypeOK /\ Daemon \in Proc
    BY DEF HonestInv, Consistent, Proc
  <1>1. CASE \E t \in Transcript : ReadFails(t)
    BY <1>0, <1>1, LocalWorld
  <1>2. CASE ListReleasable \/ \E s \in Session : AutoRelease(s) \/ ReleaseMisses(s)
    <2>1. \A t \in Transcript : ~ReadFails(t)
      BY <1>2 DEF ReadFails, ListReleasable, AutoRelease, ReleaseMisses, At
    <2>2. QED
      BY <1>0, <1>2, <2>1, WatcherAlone, LocalRelease
  <1>3. CASE Scan \/ BeginSettle \/ SkipSettle \/ BeginRelease \/ EndRelease \/ SkipSync
    <2>1. UNCHANGED <<files, sessions, digest, rawSynced, serverRaw, consent>>
      BY <1>3 DEF Scan, BeginSettle, SkipSettle, BeginRelease, EndRelease, SkipSync, files, sessions, marks, org
    <2>2. job'[Daemon].pc \in Harmless /\ \A q \in Proc : q # Daemon => job'[q] = job[q]
      <3>1. CASE Scan \/ SkipSettle \/ EndRelease
        BY <1>0, <3>1, GotoAt DEF Scan, SkipSettle, EndRelease, Harmless
      <3>2. CASE SkipSync
        BY <1>0, <3>2, FinishAt DEF SkipSync, Idle, Harmless
      <3>3. CASE BeginSettle \/ BeginRelease
        BY <1>0, <3>3, BeginSettleAt, BeginReleaseAt DEF Harmless
      <3>4. QED
        BY <1>3, <3>1, <3>2, <3>3
    <2>3. QED
      BY <1>0, <2>1, <2>2, LocalHarmless
  <1>4. QED
    BY <1>1, <1>2, <1>3 DEF Watch

LEMMA LocalShared ==
    ASSUME Solo, HonestInv, LocalInv, NEW p \in Proc, Shared(p)
    PROVE  LocalInv'
  <1>0. TypeOK
    BY DEF HonestInv
  <1>1. CASE Crash(p)
    BY <1>0, <1>1, LocalCrash
  <1>2. CASE ~Crash(p)
    <2>1. \A q \in Proc : q # p => At(q, "idle")
      BY <1>2, SharedAlone
    <2>2. CASE StoreFamily(p) \/ \E t \in Transcript : ReadTranscript(p, t)
      BY <1>0, <2>1, <2>2, LocalCapture
    <2>3. CASE Stamp(p) \/ Carry(p) \/ WriteDigest(p) \/ \E s \in Session : Build(p, s)
      BY <2>1, <2>3, LocalCompact
    <2>4. CASE WriteRow(p)
      BY <2>1, <2>4, LocalWriteRow
    <2>5. CASE BeginSync(p) \/ Gate(p) \/ \E raw \in BOOLEAN : Fresh(p, raw)
      BY <1>0, <2>1, <2>5, LocalGate
    <2>6. CASE Push(p) \/ PushFails(p) \/ BeginRaw(p) \/ \E s \in Session : MarkSynced(p, s)
      BY <1>0, <2>1, <2>6, LocalPush
    <2>7. CASE \E s \in Session : PushRaw(p, s) \/ RawRetry(p, s) \/ RawRefused(p, s)
      BY <1>0, <2>1, <2>7, LocalRaw
    <2>8. CASE MarkRaw(p) \/ MarkRawUnavailable(p) \/ EndSync(p)
      BY <1>0, <2>1, <2>8, LocalMark
    <2>9. ASSUME NEW s \in Session, SkipSession(p, s)
          PROVE  LocalInv'
      <3>1. job'[p].pc \in Harmless /\ \A q \in Proc : q # p => job'[q] = job[q]
        BY <1>0, <2>9, SkipSessionAt DEF Harmless
      <3>2. UNCHANGED <<files, sessions, digest, rawSynced, serverRaw, consent>>
        BY <2>9 DEF SkipSession, files, sessions, marks, org
      <3>3. QED
        BY <1>0, <3>1, <3>2, LocalHarmless
    <2>10. QED
      BY <1>2, <2>2, <2>3, <2>4, <2>5, <2>6, <2>7, <2>8, <2>9 DEF Shared
  <1>3. QED
    BY <1>1, <1>2

LEMMA InitLocal == Init => LocalInv
  <1> SUFFICES ASSUME Init
               PROVE  LocalInv
    OBVIOUS
  <1>1. \A q \in Proc : At(q, "idle")
    BY DEF Init, At, Idle
  <1>2. \A q \in Proc : Parts(q)
    BY <1>1, HarmlessParts
  <1>3. \A s \in Session : digest[s].ver = 0 /\ captured[s] = 0 /\ written[s] = 0 /\ consent[s] = {}
    BY DEF Init, NoDigest
  <1>4. rawSynced = {}
    BY DEF Init
  <1>5. QED
    BY <1>2, <1>3, <1>4 DEF LocalInv, HeldIsKept, Parts

LEMMA NextLocal == Solo /\ HonestInv /\ LocalInv /\ [Next]_vars => LocalInv'
  <1> SUFFICES ASSUME Solo, HonestInv, LocalInv, [Next]_vars
               PROVE  LocalInv'
    OBVIOUS
  <1>0. TypeOK
    BY DEF HonestInv
  <1>1. CASE World \/ UNCHANGED vars
    BY <1>0, <1>1, LocalWorld
  <1>2. ASSUME NEW p \in Foreground, Engineer(p)
        PROVE  LocalInv'
    <2>1. p \in Proc /\ p # Daemon
      BY ProcAssumption DEF Proc
    <2>2. \A q \in Proc : q # p => At(q, "idle")
      BY <1>2, <2>1, EngineerAlone
    <2>3. QED
      BY <1>0, <1>2, <2>1, <2>2, LocalEngineer
  <1>3. QED
    BY <1>1, <1>2, LocalWatch, LocalShared DEF Next

-----------------------------------------------------------------------------
\* What the daemon remembers of the files

\* A transcript being stored is what the file has, or the file's time has moved on and
\* storing it will not make it look ingested.
StoresFile(p) ==
    At(p, "store") =>
        \E t \in Transcript :
            /\ job[p].cur = Family(t)
            /\ \/ \A s \in Family(t) : job[p].copy[s] = written[s]
               \/ p = Daemon /\ scan[t] < mtime[t]
               \/ p # Daemon /\ seen[t] < mtime[t]

SeenInv ==
    /\ \A t \in Transcript : seen[t] <= mtime[t] /\ scan[t] <= mtime[t]
    /\ \A p \in Proc : StoresFile(p)
    /\ SeenIsCaptured

LEMMA SeenFrame ==
    ASSUME TypeOK, SeenInv, UNCHANGED <<files, captured, loop>>,
           \A q \in Proc : job'[q] = job[q] \/ job'[q].pc # "store"
    PROVE  SeenInv'
  <1>1. ASSUME NEW q \in Proc
        PROVE  StoresFile(q)'
    <2>1. CASE job'[q] = job[q]
      BY <2>1 DEF SeenInv, StoresFile, At, files, loop
    <2>2. CASE job'[q].pc # "store"
      BY <2>2 DEF StoresFile, At
    <2>3. QED
      BY <2>1, <2>2
  <1>2. SeenIsCaptured'
    BY DEF SeenInv, SeenIsCaptured, files, loop
  <1>3. QED
    BY <1>1, <1>2 DEF SeenInv, files, loop

\* A family's sessions are in its transcript's file.
LEMMA FamilyFile == \A t \in Transcript : \A s \in Session : s \in Family(t) <=> File(s) = t
  BY DEF Family, Session, File

LEMMA SeenAppend ==
    ASSUME TypeOK, SeenInv, NEW t \in Transcript, NEW i \in 1 .. MaxSegs, Append(t, i)
    PROVE  SeenInv'
  <1>1. /\ written' = [written EXCEPT ![<<t, i>>] = @ + 1]
        /\ mtime' = [mtime EXCEPT ![t] = @ + 1]
        /\ UNCHANGED <<captured, loop, job>>
    BY DEF Append, sessions
  <1>2. <<t, i>> \in Session /\ File(<<t, i>>) = t
    BY DEF Session, File
  <1>3. /\ \A s \in Session : File(s) # t => written'[s] = written[s]
        /\ \A u \in Transcript : u # t => mtime'[u] = mtime[u]
        /\ mtime[t] \in Nat /\ mtime'[t] = mtime[t] + 1
    BY <1>1, <1>2 DEF TypeOK
  <1>4. /\ seen' = seen /\ scan' = scan
        /\ \A u \in Transcript : seen[u] \in Nat /\ scan[u] \in Nat /\ mtime[u] \in Nat
        /\ \A u \in Transcript : seen[u] <= mtime[u] /\ scan[u] <= mtime[u]
    BY <1>1 DEF TypeOK, SeenInv, loop
  <1>5. \A u \in Transcript : mtime[u] <= mtime'[u] /\ mtime'[u] \in Nat
    BY <1>3, <1>4
  <1>6. \A u \in Transcript : seen'[u] <= mtime'[u] /\ scan'[u] <= mtime'[u]
    BY <1>3, <1>4
  <1>7. seen[t] < mtime'[t] /\ scan[t] < mtime'[t]
    BY <1>3, <1>4
  <1>8. SeenIsCaptured'
    <2>1. \A s \in Session : File(s) \in Transcript
      BY SessionFacts
    <2>2. \A s \in Session : seen'[File(s)] = mtime'[File(s)] => File(s) # t
      BY <1>4, <1>7
    <2>3. QED
      BY <1>1, <1>3, <1>4, <2>1, <2>2 DEF SeenInv, SeenIsCaptured
  <1>9. ASSUME NEW p \in Proc
        PROVE  StoresFile(p)'
    <2>1. SUFFICES ASSUME At(p, "store")
                   PROVE  StoresFile(p)'
      BY <1>1 DEF StoresFile, At
    <2>2. PICK u \in Transcript :
            /\ job[p].cur = Family(u)
            /\ \/ \A s \in Family(u) : job[p].copy[s] = written[s]
               \/ p = Daemon /\ scan[u] < mtime[u]
               \/ p # Daemon /\ seen[u] < mtime[u]
      BY <2>1 DEF SeenInv, StoresFile
    <2>3. CASE u = t
      BY <1>1, <1>4, <1>7, <2>2, <2>3 DEF StoresFile, At
    <2>4. CASE u # t
      <3>1. \A s \in Family(u) : written'[s] = written[s]
        BY <1>3, <2>4, FamilyFile, SessionFacts
      <3>2. mtime'[u] = mtime[u]
        BY <1>3, <2>4
      <3>3. QED
        BY <1>1, <1>4, <2>2, <3>1, <3>2 DEF StoresFile, At
    <2>5. QED
      BY <2>3, <2>4
  <1>10. QED
    BY <1>6, <1>8, <1>9 DEF SeenInv

\* Files forgotten: by a scan that does not find them, a read that fails, a restart.
LEMMA SeenForgets ==
    ASSUME TypeOK, SeenInv, UNCHANGED <<files, captured>>,
           \A t \in Transcript : seen'[t] \in {seen[t], 0} /\ scan'[t] \in {scan[t], mtime[t], 0},
           \A q \in Proc : \/ job'[q].pc # "store"
                           \/ job'[q] = job[q] /\ (q = Daemon => scan' = scan)
    PROVE  SeenInv'
  <1>1. \A t \in Transcript : /\ seen[t] \in Nat /\ scan[t] \in Nat /\ mtime[t] \in Nat
                              /\ seen[t] <= mtime[t] /\ scan[t] <= mtime[t]
    BY DEF TypeOK, SeenInv
  <1>2. \A t \in Transcript : seen'[t] <= mtime'[t] /\ scan'[t] <= mtime'[t] /\ seen'[t] <= seen[t]
    BY <1>1 DEF files
  <1>3. SeenIsCaptured'
    <2>1. \A t \in Transcript : seen'[t] = mtime'[t] => seen[t] = mtime[t]
      BY <1>1 DEF files
    <2>2. QED
      BY <2>1, SessionFacts DEF SeenInv, SeenIsCaptured, files
  <1>4. ASSUME NEW p \in Proc
        PROVE  StoresFile(p)'
    <2>1. CASE job'[p].pc # "store"
      BY <2>1 DEF StoresFile, At
    <2>2. CASE At(p, "store") /\ job'[p] = job[p] /\ (p = Daemon => scan' = scan)
      <3>1. PICK u \in Transcript :
              /\ job[p].cur = Family(u)
              /\ \/ \A s \in Family(u) : job[p].copy[s] = written[s]
                 \/ p = Daemon /\ scan[u] < mtime[u]
                 \/ p # Daemon /\ seen[u] < mtime[u]
        BY <2>2 DEF SeenInv, StoresFile
      <3>2. seen[u] < mtime[u] => seen'[u] < mtime[u]
        BY <1>1
      <3>3. QED
        BY <2>2, <3>1, <3>2 DEF StoresFile, At, files
    <2>3. QED
      BY <2>1, <2>2 DEF At
  <1>5. QED
    BY <1>2, <1>3, <1>4 DEF SeenInv

LEMMA SeenCapture ==
    ASSUME TypeOK, SeenInv, NEW p \in Proc, \A q \in Proc : q # p => At(q, "idle"),
           StoreFamily(p) \/ \E t \in Transcript : ReadTranscript(p, t)
    PROVE  SeenInv'
  <1>1. ASSUME NEW t \in Transcript, ReadTranscript(p, t)
        PROVE  SeenInv'
    <2>1. PICK copy : copy = [s \in Session |-> IF s \in Family(t) THEN written[s] ELSE 0]
      OBVIOUS
    <2>2. /\ job'[p] = [job[p] EXCEPT !.pc = "store", !.cur = Family(t), !.copy = copy]
          /\ \A q \in Proc : q # p => job'[q] = job[q]
      BY <1>1, <2>1, BecomeAt DEF ReadTranscript
    <2>3. job'[p].pc = "store" /\ job'[p].cur = Family(t) /\ job'[p].copy = copy
      BY <2>2, JobFields DEF Job
    <2>4. UNCHANGED <<files, captured, loop>>
      BY <1>1 DEF ReadTranscript, sessions
    <2>5. StoresFile(p)'
      <3>1. \A s \in Family(t) : s \in Session /\ copy[s] = written[s]
        BY <2>1, SessionFacts
      <3>2. QED
        BY <2>3, <2>4, <3>1 DEF StoresFile, files
    <2>6. ASSUME NEW q \in Proc, q # p
          PROVE  StoresFile(q)'
      BY <2>2, <2>6 DEF StoresFile, At
    <2>7. SeenIsCaptured' /\ \A u \in Transcript : seen'[u] <= mtime'[u] /\ scan'[u] <= mtime'[u]
      BY <2>4 DEF SeenInv, SeenIsCaptured, files, loop
    <2>8. QED
      BY <2>5, <2>6, <2>7 DEF SeenInv
  <1>2. CASE StoreFamily(p)
    <2>1. PICK t \in Transcript :
            /\ job[p].cur = Family(t)
            /\ captured' = [s \in Session |-> IF s \in Family(t) THEN job[p].copy[s] ELSE captured[s]]
            /\ IF p = Daemon
               THEN seen' = [seen EXCEPT ![t] = scan[t]] /\ scan' = [scan EXCEPT ![t] = 0]
               ELSE UNCHANGED loop
      BY <1>2 DEF StoreFamily
    <2>2. UNCHANGED files /\ job'[p].pc # "store" /\ \A q \in Proc : q # p => job'[q] = job[q]
      BY <1>2, StoreFamilyAt DEF StoreFamily
    <2>3. PICK u \in Transcript :
            /\ job[p].cur = Family(u)
            /\ \/ \A s \in Family(u) : job[p].copy[s] = written[s]
               \/ p = Daemon /\ scan[u] < mtime[u]
               \/ p # Daemon /\ seen[u] < mtime[u]
      BY <1>2 DEF SeenInv, StoresFile, StoreFamily
    <2>4. u = t
      <3>1. <<t, 1>> \in Family(t) /\ <<t, 1>> \in Session
        BY SessionFacts, BoundsAssumption DEF Family
      <3>2. File(<<t, 1>>) = t
        BY DEF File
      <3>3. QED
        BY <2>1, <2>3, <3>1, <3>2, FamilyFile
    <2>5. \A v \in Transcript : /\ seen[v] \in Nat /\ scan[v] \in Nat /\ mtime[v] \in Nat
                                /\ seen[v] <= mtime[v] /\ scan[v] <= mtime[v]
      BY DEF TypeOK, SeenInv
    <2>6. /\ \A v \in Transcript : v # t => seen'[v] = seen[v] /\ scan'[v] = scan[v]
          /\ p = Daemon => seen'[t] = scan[t] /\ scan'[t] = 0
          /\ p # Daemon => seen'[t] = seen[t] /\ scan'[t] = scan[t]
      BY <2>1 DEF TypeOK, loop
    <2>7. \A v \in Transcript : seen'[v] <= mtime'[v] /\ scan'[v] <= mtime'[v]
      BY <2>2, <2>5, <2>6 DEF files
    <2>8. SeenIsCaptured'
      <3>1. SUFFICES ASSUME NEW s \in Session, seen'[File(s)] = mtime[File(s)]
                     PROVE  captured'[s] = written[s]
        BY <2>2 DEF SeenIsCaptured, files
      <3>2. File(s) \in Transcript
        BY SessionFacts
      <3>3. CASE File(s) # t
        <4>1. captured'[s] = captured[s] /\ seen[File(s)] = mtime[File(s)]
          BY <2>1, <2>6, <3>1, <3>2, <3>3, FamilyFile
        <4>2. QED
          BY <4>1 DEF SeenInv, SeenIsCaptured
      <3>4. CASE File(s) = t
        <4>1. s \in Family(t) /\ captured'[s] = job[p].copy[s]
          BY <2>1, <3>4, FamilyFile
        <4>2. ~(p = Daemon /\ scan[t] < mtime[t]) /\ ~(p # Daemon /\ seen[t] < mtime[t])
          BY <2>5, <2>6, <3>1, <3>4
        <4>3. QED
          BY <2>3, <2>4, <4>1, <4>2
      <3>5. QED
        BY <3>3, <3>4
    <2>9. ASSUME NEW q \in Proc
          PROVE  StoresFile(q)'
      BY <2>2, <2>9 DEF StoresFile, At
    <2>10. QED
      BY <2>7, <2>8, <2>9 DEF SeenInv
  <1>3. QED
    BY <1>1, <1>2

LEMMA SeenWatch ==
    ASSUME Solo, HonestInv, SeenInv, Watch
    PROVE  SeenInv'
  <1>0. TypeOK /\ Daemon \in Proc
    BY DEF HonestInv, Proc
  <1>1. CASE Scan
    <2>1. job'[Daemon].pc = "ingest" /\ \A q \in Proc : q # Daemon => job'[q] = job[q]
      BY <1>0, <1>1, GotoAt DEF Scan
    <2>2. \A t \in Transcript : seen'[t] \in {seen[t], 0} /\ scan'[t] \in {scan[t], mtime[t], 0}
      BY <1>1 DEF Scan
    <2>3. UNCHANGED <<files, captured>>
      BY <1>1 DEF Scan, sessions
    <2>4. QED
      BY <1>0, <2>1, <2>2, <2>3, SeenForgets
  <1>2. ASSUME NEW t \in Transcript, ReadFails(t)
        PROVE  SeenInv'
    <2>1. job' = job /\ job[Daemon].pc # "store" /\ UNCHANGED <<files, captured>>
      BY <1>2 DEF ReadFails, At, sessions
    <2>2. \A u \in Transcript : seen'[u] \in {seen[u], 0} /\ scan'[u] \in {scan[u], mtime[u], 0}
      BY <1>0, <1>2 DEF ReadFails, TypeOK
    <2>3. QED
      BY <1>0, <2>1, <2>2, SeenForgets
  <1>3. CASE \/ BeginSettle \/ SkipSettle \/ BeginRelease \/ ListReleasable \/ EndRelease \/ SkipSync
             \/ \E s \in Session : AutoRelease(s) \/ ReleaseMisses(s)
    <2>1. UNCHANGED <<files, captured, loop>>
      BY <1>3 DEF BeginSettle, SkipSettle, BeginRelease, ListReleasable, EndRelease, SkipSync, AutoRelease,
                  ReleaseMisses, ReadRow, sessions
    <2>2. job'[Daemon].pc # "store" /\ \A q \in Proc : q # Daemon => job'[q] = job[q]
      <3>1. CASE SkipSettle \/ EndRelease
        BY <1>0, <3>1, GotoAt DEF SkipSettle, EndRelease
      <3>2. CASE SkipSync
        BY <1>0, <3>2, FinishAt DEF SkipSync, Idle
      <3>3. CASE BeginSettle \/ BeginRelease \/ ListReleasable
        BY <1>0, <3>3, BeginSettleAt, BeginReleaseAt, ListReleasableAt
      <3>4. ASSUME NEW s \in Session, AutoRelease(s) \/ ReleaseMisses(s)
            PROVE  job'[Daemon].pc # "store" /\ \A q \in Proc : q # Daemon => job'[q] = job[q]
        BY <1>0, <3>4, ReadRowAt, ReleaseMissesAt DEF AutoRelease
      <3>5. QED
        BY <1>3, <3>1, <3>2, <3>3, <3>4
    <2>3. QED
      BY <1>0, <2>1, <2>2, SeenFrame
  <1>4. QED
    BY <1>1, <1>2, <1>3 DEF Watch

LEMMA SeenShared ==
    ASSUME Solo, HonestInv, SeenInv, NEW p \in Proc, Shared(p)
    PROVE  SeenInv'
  <1>0. TypeOK
    BY DEF HonestInv
  <1>1. CASE Crash(p)
    <2>1. job'[p].pc = "idle" /\ \A q \in Proc : q # p => job'[q] = job[q]
      BY <1>0, <1>1, FinishAt DEF Crash, Idle
    <2>2. UNCHANGED <<files, captured>>
      BY <1>1 DEF Crash, sessions
    <2>3. \/ p = Daemon /\ \A t \in Transcript : seen'[t] = 0 /\ scan'[t] = 0
          \/ p # Daemon /\ UNCHANGED <<seen, scan>>
      BY <1>1 DEF Crash, loop
    <2>4. QED
      BY <1>0, <2>1, <2>2, <2>3, SeenForgets
  <1>2. CASE ~Crash(p) /\ (StoreFamily(p) \/ \E t \in Transcript : ReadTranscript(p, t))
    <2>1. \A q \in Proc : q # p => At(q, "idle")
      BY <1>2, SharedAlone
    <2>2. QED
      BY <1>0, <1>2, <2>1, SeenCapture
  <1>3. CASE \/ Stamp(p) \/ Carry(p) \/ WriteDigest(p) \/ WriteRow(p)
             \/ \E s \in Session : SkipSession(p, s) \/ Build(p, s)
    <2>1. UNCHANGED <<files, captured, loop>>
      BY <1>3 DEF Stamp, Carry, WriteDigest, WriteRow, SkipSession, Build, sessions
    <2>2. job'[p].pc # "store" /\ \A q \in Proc : q # p => job'[q] = job[q]
      <3>1. CASE Stamp(p) \/ Carry(p)
        BY <1>0, <3>1, StampAt, CarryAt
      <3>2. CASE WriteDigest(p) \/ WriteRow(p)
        BY <1>0, <3>2, ReturnAt, WriteRowAt DEF WriteDigest
      <3>3. CASE \E s \in Session : SkipSession(p, s) \/ Build(p, s)
        BY <1>0, <3>3, SkipSessionAt, BuildAt
      <3>4. QED
        BY <1>3, <3>1, <3>2, <3>3
    <2>3. QED
      BY <1>0, <2>1, <2>2, SeenFrame
  <1>4. CASE \/ BeginSync(p) \/ Gate(p) \/ Push(p) \/ PushFails(p) \/ BeginRaw(p) \/ MarkRaw(p)
             \/ MarkRawUnavailable(p) \/ EndSync(p)
             \/ \E raw \in BOOLEAN : Fresh(p, raw)
             \/ \E s \in Session : MarkSynced(p, s) \/ PushRaw(p, s) \/ RawRetry(p, s) \/ RawRefused(p, s)
    <2>1. UNCHANGED <<files, captured, loop>>
      BY <1>4 DEF BeginSync, Gate, Push, PushFails, BeginRaw, MarkRaw, MarkRawUnavailable, EndSync, Fresh,
                  MarkSynced, PushRaw, RawRetry, RawRefused, sessions
    <2>2. job'[p].pc # "store" /\ \A q \in Proc : q # p => job'[q] = job[q]
      <3>1. CASE BeginSync(p) \/ Gate(p) \/ BeginRaw(p) \/ \E raw \in BOOLEAN : Fresh(p, raw)
        BY <1>0, <3>1, BeginSyncAt, GateAt, BeginRawAt, FreshAt
      <3>2. CASE Push(p)
        <4>1. job'[p].pc = "mark" /\ \A q \in Proc : q # p => job'[q] = job[q]
          BY <1>0, <3>2, GotoAt DEF Push
        <4>2. QED
          BY <4>1
      <3>3. CASE PushFails(p) \/ EndSync(p)
        BY <1>0, <3>3, FinishAt DEF PushFails, EndSync, Idle
      <3>4. CASE MarkRaw(p) \/ MarkRawUnavailable(p)
        BY <1>0, <3>4, ReturnAt DEF MarkRaw, MarkRawUnavailable
      <3>5. ASSUME NEW s \in Session, MarkSynced(p, s) \/ PushRaw(p, s) \/ RawRetry(p, s) \/ RawRefused(p, s)
            PROVE  job'[p].pc # "store" /\ \A q \in Proc : q # p => job'[q] = job[q]
        <4>1. CASE MarkSynced(p, s)
          BY <1>0, <4>1, MarkSyncedAt
        <4>2. CASE PushRaw(p, s) \/ RawRetry(p, s) \/ RawRefused(p, s)
          <5>1. RawDone(p, s, "rawmark") \/ RawDone(p, s, "raw") \/ RawDone(p, s, "rawbad")
            BY <4>2 DEF PushRaw, RawRetry, RawRefused
          <5>2. job'[p].pc \in {"rawmark", "raw", "rawbad"} /\ \A q \in Proc : q # p => job'[q] = job[q]
            BY <1>0, <5>1, RawDoneAt
          <5>3. QED
            BY <5>2
        <4>3. QED
          BY <3>5, <4>1, <4>2
      <3>6. QED
        BY <1>4, <3>1, <3>2, <3>3, <3>4, <3>5
    <2>3. QED
      BY <1>0, <2>1, <2>2, SeenFrame
  <1>5. QED
    BY <1>1, <1>2, <1>3, <1>4 DEF Shared

LEMMA SeenEngineer ==
    ASSUME TypeOK, SeenInv, NEW p \in Proc, Engineer(p)
    PROVE  SeenInv'
  <1>1. UNCHANGED <<files, captured, loop>>
    BY DEF Engineer, BeginCompact, EndCompact, SetMode, SetHold, SetReleased, ReadRow, Purge, Resync, sessions
  <1>2. \A q \in Proc : job'[q] = job[q] \/ job'[q].pc # "store"
    <2>1. CASE EndCompact(p)
      BY <2>1, FinishAt DEF EndCompact, Idle
    <2>2. CASE BeginCompact(p)
      BY <2>2, BeginCompactAt
    <2>3. ASSUME NEW s \in Session, NEW b \in BOOLEAN, SetHold(p, s, b) \/ SetReleased(p, s, b)
          PROVE  \A q \in Proc : job'[q] = job[q] \/ job'[q].pc # "store"
      <3>1. PICK row : ReadRow(p, s, row)
        BY <2>3 DEF SetHold, SetReleased
      <3>2. QED
        BY <3>1, ReadRowAt
    <2>4. CASE \/ \E s \in Session, b \in BOOLEAN : SetMode(p, s, b)
               \/ \E S \in SUBSET Session : Purge(p, S) \/ Resync(p, S)
      BY <2>4 DEF SetMode, Purge, Resync
    <2>5. QED
      BY <2>1, <2>2, <2>3, <2>4 DEF Engineer
  <1>3. QED
    BY <1>1, <1>2, SeenFrame

LEMMA InitSeen == Init => SeenInv
  <1> SUFFICES ASSUME Init
               PROVE  SeenInv
    OBVIOUS
  <1>1. \A q \in Proc : StoresFile(q)
    BY DEF Init, StoresFile, At, Idle
  <1>2. \A t \in Transcript : seen[t] = 0 /\ scan[t] = 0 /\ mtime[t] = 0
    BY DEF Init
  <1>3. SeenIsCaptured
    BY DEF Init, SeenIsCaptured
  <1>4. QED
    BY <1>1, <1>2, <1>3 DEF SeenInv

LEMMA NextSeen == Solo /\ HonestInv /\ SeenInv /\ [Next]_vars => SeenInv'
  <1> SUFFICES ASSUME Solo, HonestInv, SeenInv, [Next]_vars
               PROVE  SeenInv'
    OBVIOUS
  <1>0. TypeOK
    BY DEF HonestInv
  <1>1. CASE World \/ UNCHANGED vars
    <2>1. CASE \E t \in Transcript : \E i \in 1 .. MaxSegs : Append(t, i)
      BY <1>0, <2>1, SeenAppend
    <2>2. CASE \E t \in Transcript : Settle(t)
      <3>1. UNCHANGED <<written, mtime, captured, loop, job>>
        BY <2>2 DEF Settle, sessions
      <3>2. \A q \in Proc : StoresFile(q)'
        BY <3>1 DEF SeenInv, StoresFile, At, loop
      <3>3. QED
        BY <3>1, <3>2 DEF SeenInv, SeenIsCaptured, loop
    <2>3. CASE UNCHANGED vars \/ \E s \in Session : Age(s)
      <3>1. UNCHANGED <<files, captured, loop, job>>
        BY <2>3 DEF Age, vars, sessions
      <3>2. QED
        BY <1>0, <3>1, SeenFrame
    <2>4. QED
      BY <1>1, <2>1, <2>2, <2>3 DEF World
  <1>2. ASSUME NEW p \in Foreground, Engineer(p)
        PROVE  SeenInv'
    BY <1>0, <1>2, SeenEngineer DEF Proc
  <1>3. QED
    BY <1>1, <1>2, SeenWatch, SeenShared DEF Next

-----------------------------------------------------------------------------
\* The daemon's staleness test

\* A digest that is not older than its file has all the turns of its session.
UpToDate(row, s) ==
    /\ row.built <= mtime[File(s)]
    /\ row.ver # 0 /\ mtime[File(s)] <= row.built => row.ver = written[s]

\* While the daemon has the store to itself: a quiet file is ingested, or still to be,
\* before digests are built; a digest is built from all its session's turns.
BuildJob ==
    /\ At(Daemon, "ingest") \/ At(Daemon, "store") =>
          \A t \in Transcript : quiet[t] => scan[t] = mtime[t] \/ (scan[t] = 0 /\ seen[t] = mtime[t])
    /\ At(Daemon, "store") =>
          \A t \in Transcript : job[Daemon].cur = Family(t) => scan[t] # 0
    /\ job[Daemon].pc \in {"settle", "stamp", "carry", "write"} =>
          \A t \in Transcript : quiet[t] => seen[t] = mtime[t]
    /\ At(Daemon, "stamp") => \A s \in job[Daemon].cur : job[Daemon].row.ver = written[s]
    /\ job[Daemon].pc \in {"carry", "write", "flag"} =>
          \A s \in job[Daemon].cur : UpToDate(job[Daemon].row, s)
    /\ ~At(Daemon, "pending")

BuildInv == (\A s \in Session : UpToDate(digest[s], s)) /\ BuildJob

\* Digests whose content stays, while their files do.
LEMMA UpToDateStill ==
    ASSUME BuildInv, UNCHANGED <<written, mtime>>,
           \A s \in Session : digest'[s].ver = digest[s].ver /\ digest'[s].built = digest[s].built
    PROVE  (\A s \in Session : UpToDate(digest[s], s))'
  BY DEF BuildInv, BuildJob, UpToDate

Building == {"ingest", "store", "settle", "stamp", "carry", "write", "flag", "pending"}

\* The daemon is at none of these points, or goes on at the one it was.
LEMMA BuildElsewhere ==
    ASSUME BuildInv, UNCHANGED <<files, digest>>,
           \/ job'[Daemon].pc \notin Building
           \/ /\ UNCHANGED loop
              /\ job'[Daemon].pc = job[Daemon].pc /\ job'[Daemon].cur = job[Daemon].cur
              /\ job'[Daemon].row = job[Daemon].row
    PROVE  BuildInv'
  <1>1. (\A s \in Session : UpToDate(digest[s], s))'
    BY UpToDateStill DEF files
  <1>2. BuildJob'
    <2>1. CASE job'[Daemon].pc \notin Building
      BY <2>1 DEF BuildJob, Building, At
    <2>2. CASE job'[Daemon].pc \in Building
      BY <2>2 DEF BuildInv, BuildJob, UpToDate, At, files, loop
    <2>3. QED
      BY <2>1, <2>2
  <1>3. QED
    BY <1>1, <1>2 DEF BuildInv, BuildJob

LEMMA BuildAppend ==
    ASSUME TypeOK, SeenInv, BuildInv, CalmBuild, NEW t \in Transcript, NEW i \in 1 .. MaxSegs, Append(t, i)
    PROVE  BuildInv'
  <1>1. /\ written' = [written EXCEPT ![<<t, i>>] = @ + 1]
        /\ mtime' = [mtime EXCEPT ![t] = @ + 1] /\ quiet' = [quiet EXCEPT ![t] = FALSE]
        /\ UNCHANGED <<digest, loop, job>>
    BY DEF Append
  <1>2. <<t, i>> \in Session /\ File(<<t, i>>) = t
    BY DEF Session, File
  <1>3. /\ \A s \in Session : File(s) # t => written'[s] = written[s]
        /\ \A u \in Transcript : u # t => mtime'[u] = mtime[u] /\ quiet'[u] = quiet[u]
        /\ mtime[t] \in Nat /\ mtime'[t] = mtime[t] + 1 /\ ~quiet'[t]
    BY <1>1, <1>2 DEF TypeOK
  <1>4. ASSUME NEW row \in Digest, NEW s \in Session, UpToDate(row, s)
        PROVE  UpToDate(row, s)'
    <2>1. row.built \in Nat /\ File(s) \in Transcript
      BY SessionFacts DEF Digest
    <2>2. CASE File(s) = t
      BY <1>3, <1>4, <2>1, <2>2 DEF UpToDate
    <2>3. CASE File(s) # t
      BY <1>3, <1>4, <2>1, <2>3 DEF UpToDate
    <2>4. QED
      BY <2>2, <2>3
  <1>5. Daemon \in Proc /\ job[Daemon].row \in Digest /\ job[Daemon].cur \in SUBSET Session
    BY JobFields DEF Proc
  <1>6. ASSUME At(Daemon, "stamp"), NEW s \in job[Daemon].cur
        PROVE  job[Daemon].row.ver = written'[s]
    <2>1. File(s) # t
      BY <1>5, <1>6 DEF Append
    <2>2. QED
      BY <1>3, <1>5, <1>6, <2>1 DEF BuildInv, BuildJob
  <1>7. (\A s \in Session : UpToDate(digest[s], s))'
    <2>1. \A s \in Session : digest[s] \in Digest /\ UpToDate(digest[s], s)
      BY DEF TypeOK, BuildInv, BuildJob
    <2>2. \A s \in Session : UpToDate(digest[s], s)'
      BY <1>1, <1>4, <2>1 DEF UpToDate
    <2>3. QED
      BY <2>2
  <1>8. job[Daemon].pc \in {"carry", "write", "flag"} =>
          \A s \in job[Daemon].cur : UpToDate(job[Daemon].row, s)'
    BY <1>1, <1>4, <1>5 DEF BuildInv, BuildJob, UpToDate
  <1>9. BuildJob'
    BY <1>1, <1>3, <1>6, <1>8 DEF BuildInv, BuildJob, At, loop
  <1>10. QED
    BY <1>7, <1>9 DEF BuildInv, BuildJob

\* Files settle, and digests age, without changing what is in them.
LEMMA BuildWorld ==
    ASSUME TypeOK, SeenInv, BuildInv, CalmBuild, World \/ UNCHANGED vars
    PROVE  BuildInv'
  <1>1. CASE \E t \in Transcript : \E i \in 1 .. MaxSegs : Append(t, i)
    BY <1>1, BuildAppend
  <1>2. CASE UNCHANGED vars
    <2>1. UNCHANGED <<files, digest, loop, job>>
      BY <1>2 DEF vars
    <2>2. QED
      BY <2>1, BuildElsewhere
  <1>3. ASSUME NEW t \in Transcript, Settle(t)
        PROVE  BuildInv'
    <2>1. At(Daemon, "idle") /\ UNCHANGED <<written, mtime, digest, loop, job>>
      BY <1>3 DEF Settle
    <2>2. BuildJob'
      BY <2>1 DEF BuildJob, At
    <2>3. (\A s \in Session : UpToDate(digest[s], s))'
      BY <2>1, UpToDateStill
    <2>4. QED
      BY <2>2, <2>3 DEF BuildInv, BuildJob
  <1>4. ASSUME NEW s \in Session, Age(s)
        PROVE  BuildInv'
    <2>1. UNCHANGED <<files, loop, job>> /\ digest' = [digest EXCEPT ![s].aged = TRUE]
      BY <1>4 DEF Age
    <2>2. \A r \in Session : digest'[r].ver = digest[r].ver /\ digest'[r].built = digest[r].built
      BY <2>1 DEF TypeOK, Digest
    <2>3. (\A r \in Session : UpToDate(digest[r], r))'
      BY <2>1, <2>2, UpToDateStill DEF files
    <2>4. BuildJob'
      BY <2>1 DEF BuildInv, BuildJob, UpToDate, At, files, loop
    <2>5. QED
      BY <2>3, <2>4 DEF BuildInv, BuildJob
  <1>5. QED
    BY <1>1, <1>2, <1>3, <1>4 DEF World

LEMMA BuildWatch ==
    ASSUME TypeOK, SeenInv, BuildInv, ~FaultyReads, Watch
    PROVE  BuildInv'
  <1>0. Daemon \in Proc /\ job[Daemon] \in Job
    BY JobFields DEF Proc
  <1>1. CASE Scan
    <2>1. UNCHANGED <<files, digest>> /\ At(Daemon, "idle")
      BY <1>1 DEF Scan, Free
    <2>2. job'[Daemon].pc = "ingest"
      BY <1>0, <1>1, GotoAt DEF Scan
    <2>3. \A t \in Transcript : scan'[t] = (IF seen[t] # mtime[t] THEN mtime[t] ELSE 0) /\ seen'[t] = seen[t]
      BY <1>1 DEF Scan
    <2>4. BuildJob'
      BY <2>1, <2>2, <2>3 DEF BuildJob, At, files
    <2>5. QED
      BY <2>1, <2>4, UpToDateStill DEF BuildInv, BuildJob, files
  <1>2. CASE BeginSettle
    <2>1. UNCHANGED <<files, digest, loop>> /\ At(Daemon, "ingest") /\ \A t \in Transcript : scan[t] = 0
      BY <1>2 DEF BeginSettle
    <2>2. job'[Daemon].pc = "settle"
      BY <1>0, <1>2, BeginSettleAt
    <2>3. \A t \in Transcript : quiet[t] => seen[t] = mtime[t]
      <3>1. ASSUME NEW t \in Transcript, quiet[t]
            PROVE  seen[t] = mtime[t]
        <4>1. scan[t] = 0 /\ seen[t] \in Nat /\ seen[t] <= mtime[t] /\ mtime[t] \in Nat
          BY <2>1 DEF TypeOK, SeenInv
        <4>2. scan[t] = mtime[t] \/ seen[t] = mtime[t]
          BY <2>1, <3>1 DEF BuildInv, BuildJob
        <4>3. QED
          BY <4>1, <4>2
      <3>2. QED
        BY <3>1
    <2>4. BuildJob'
      BY <2>1, <2>2, <2>3 DEF BuildJob, At, files, loop
    <2>5. QED
      BY <2>1, <2>4, UpToDateStill DEF BuildInv, BuildJob, files
  <1>3. CASE \/ SkipSettle \/ BeginRelease \/ ListReleasable \/ EndRelease \/ SkipSync
             \/ \E s \in Session : ReleaseMisses(s)
    <2>1. UNCHANGED <<files, digest, loop>>
      BY <1>3 DEF SkipSettle, BeginRelease, ListReleasable, EndRelease, SkipSync, ReleaseMisses
    <2>2. job'[Daemon].pc \in {"online", "releasable", "release", "idle"}
      <3>1. CASE SkipSettle \/ EndRelease
        BY <1>0, <3>1, GotoAt DEF SkipSettle, EndRelease
      <3>2. CASE SkipSync
        BY <1>0, <3>2, FinishAt DEF SkipSync, Idle
      <3>3. CASE BeginRelease \/ ListReleasable \/ \E s \in Session : ReleaseMisses(s)
        BY <1>0, <3>3, BeginReleaseAt, ListReleasableAt, ReleaseMissesAt
      <3>4. QED
        BY <1>3, <3>1, <3>2, <3>3
    <2>3. job'[Daemon].pc \notin Building
      BY <2>2 DEF Building
    <2>4. QED
      BY <2>1, <2>3, BuildElsewhere
  <1>4. ASSUME NEW s \in Session, AutoRelease(s)
        PROVE  BuildInv'
    <2>1. PICK row : row = [digest[s] EXCEPT !.released = TRUE]
      OBVIOUS
    <2>2. row.ver = digest[s].ver /\ row.built = digest[s].built
      BY <2>1 DEF TypeOK, Digest
    <2>3. UNCHANGED <<files, digest, loop>> /\ ReadRow(Daemon, s, row)
      BY <1>4, <2>1 DEF AutoRelease, ReadRow
    <2>4. job'[Daemon].pc = "flag" /\ job'[Daemon].cur = {s} /\ job'[Daemon].row = row
      BY <1>0, <2>3, ReadRowAt
    <2>5. UpToDate(digest[s], s)
      BY DEF BuildInv, BuildJob
    <2>6. BuildJob'
      BY <2>2, <2>3, <2>4, <2>5 DEF BuildJob, UpToDate, At, files
    <2>7. QED
      BY <2>3, <2>6, UpToDateStill DEF BuildInv, BuildJob, files
  <1>5. CASE \E t \in Transcript : ReadFails(t)
    BY <1>5 DEF ReadFails
  <1>6. QED
    BY <1>1, <1>2, <1>3, <1>4, <1>5 DEF Watch

\* The daemon captures and digests.
LEMMA BuildCapture ==
    ASSUME TypeOK, SeenInv, BuildInv, StoreFamily(Daemon) \/ \E t \in Transcript : ReadTranscript(Daemon, t)
    PROVE  BuildInv'
  <1>0. Daemon \in Proc /\ job[Daemon] \in Job
    BY JobFields DEF Proc
  <1>1. UNCHANGED <<files, digest>>
    BY DEF StoreFamily, ReadTranscript
  <1>2. ASSUME NEW t \in Transcript, ReadTranscript(Daemon, t)
        PROVE  BuildInv'
    <2>1. PICK copy : copy = [s \in Session |-> IF s \in Family(t) THEN written[s] ELSE 0]
      OBVIOUS
    <2>2. job'[Daemon] = [job[Daemon] EXCEPT !.pc = "store", !.cur = Family(t), !.copy = copy]
      BY <1>0, <1>2, <2>1, BecomeAt DEF ReadTranscript
    <2>3. job'[Daemon].pc = "store" /\ job'[Daemon].cur = Family(t)
      BY <1>0, <2>2 DEF Job
    <2>4. At(Daemon, "ingest") /\ scan[t] # 0 /\ UNCHANGED loop
      BY <1>2 DEF ReadTranscript
    <2>5. \A u \in Transcript : Family(t) = Family(u) => u = t
      <3>1. <<t, 1>> \in Family(t)
        BY BoundsAssumption DEF Family
      <3>2. QED
        BY <3>1 DEF Family
    <2>6. BuildJob'
      BY <1>1, <2>3, <2>4, <2>5 DEF BuildInv, BuildJob, At, files, loop
    <2>7. QED
      BY <1>1, <2>6, UpToDateStill DEF BuildInv, BuildJob, files
  <1>3. CASE StoreFamily(Daemon)
    <2>1. PICK t \in Transcript :
            /\ job[Daemon].cur = Family(t)
            /\ seen' = [seen EXCEPT ![t] = scan[t]] /\ scan' = [scan EXCEPT ![t] = 0]
      BY <1>3 DEF StoreFamily
    <2>2. job'[Daemon].pc = "ingest" /\ At(Daemon, "store")
      BY <1>0, <1>3, ReturnAt DEF StoreFamily
    <2>3. /\ seen'[t] = scan[t] /\ scan'[t] = 0 /\ scan[t] # 0
          /\ \A u \in Transcript : u # t => seen'[u] = seen[u] /\ scan'[u] = scan[u]
      BY <2>1, <2>2 DEF TypeOK, BuildInv, BuildJob
    <2>4. \A u \in Transcript : quiet[u] => scan[u] = mtime[u] \/ (scan[u] = 0 /\ seen[u] = mtime[u])
      BY <2>2 DEF BuildInv, BuildJob
    <2>5. \A u \in Transcript : quiet'[u] => scan'[u] = mtime'[u] \/ (scan'[u] = 0 /\ seen'[u] = mtime'[u])
      BY <1>1, <2>3, <2>4 DEF files
    <2>6. BuildJob'
      BY <2>2, <2>5 DEF BuildJob, At
    <2>7. QED
      BY <1>1, <2>6, UpToDateStill DEF BuildInv, BuildJob, files
  <1>4. QED
    BY <1>2, <1>3

LEMMA BuildCompact ==
    ASSUME HonestInv, SeenInv, BuildInv,
           \/ Stamp(Daemon) \/ Carry(Daemon) \/ WriteDigest(Daemon) \/ WriteRow(Daemon)
           \/ \E s \in Session : SkipSession(Daemon, s) \/ Build(Daemon, s)
    PROVE  BuildInv'
  <1>0. /\ TypeOK /\ Daemon \in Proc /\ job[Daemon] \in Job /\ Agrees(Daemon)
        /\ job[Daemon].row \in Digest /\ job[Daemon].cur \in SUBSET Session
    BY JobFields DEF Proc, HonestInv, Consistent
  <1>1. UNCHANGED <<files, loop>>
    BY DEF Stamp, Carry, WriteDigest, WriteRow, SkipSession, Build
  <1>2. ASSUME NEW s \in Session, SkipSession(Daemon, s)
        PROVE  BuildInv'
    <2>1. PICK S : S = job[Daemon].due \ {s}
      OBVIOUS
    <2>2. job'[Daemon] = [job[Daemon] EXCEPT !.due = S]
      BY <1>0, <1>2, <2>1, BecomeAt DEF SkipSession
    <2>3. /\ job'[Daemon].pc = job[Daemon].pc /\ job'[Daemon].cur = job[Daemon].cur
          /\ job'[Daemon].row = job[Daemon].row /\ digest' = digest
      BY <1>0, <1>2, <2>2 DEF Job, SkipSession
    <2>4. QED
      BY <1>1, <2>3, BuildElsewhere
  <1>3. ASSUME NEW s \in Session, Build(Daemon, s)
        PROVE  BuildInv'
    <2>1. PICK row : row = [NoDigest EXCEPT !.ver = captured[s]]
      OBVIOUS
    <2>2. row.ver = captured[s]
      BY <2>1 DEF NoDigest
    <2>3. job'[Daemon] = [job[Daemon] EXCEPT !.pc = "stamp", !.due = @ \ {s}, !.cur = {s}, !.row = row]
      BY <1>0, <1>3, <2>1, BecomeAt DEF Build
    <2>4. job'[Daemon].pc = "stamp" /\ job'[Daemon].cur = {s} /\ job'[Daemon].row = row
      BY <1>0, <2>3 DEF Job
    <2>5. CASE At(Daemon, "settle") /\ quiet[File(s)]
      <3>1. \A t \in Transcript : quiet[t] => seen[t] = mtime[t]
        BY <2>5 DEF BuildInv, BuildJob, At
      <3>2. captured[s] = written[s]
        BY <2>5, <3>1, SessionFacts DEF SeenInv, SeenIsCaptured
      <3>3. digest' = digest
        BY <1>3 DEF Build
      <3>4. BuildJob'
        BY <1>1, <2>2, <2>4, <3>1, <3>2 DEF BuildJob, At, files, loop
      <3>5. QED
        BY <1>1, <3>3, <3>4, UpToDateStill DEF BuildInv, BuildJob, files
    <2>6. At(Daemon, "settle") /\ quiet[File(s)]
      BY <1>3 DEF Build, BuildInv, BuildJob
    <2>7. QED
      BY <2>5, <2>6
  <1>4. CASE Stamp(Daemon)
    <2>1. PICK s \in job[Daemon].cur :
            Become(Daemon, [job[Daemon] EXCEPT !.pc = "carry",
                                     !.row = [job[Daemon].row EXCEPT !.built = mtime[File(s)]]])
      BY <1>4 DEF Stamp
    <2>2. PICK row : row = [job[Daemon].row EXCEPT !.built = mtime[File(s)]]
      OBVIOUS
    <2>3. row.ver = job[Daemon].row.ver /\ row.built = mtime[File(s)]
      BY <1>0, <2>2 DEF Digest
    <2>4. job'[Daemon] = [job[Daemon] EXCEPT !.pc = "carry", !.row = row]
      BY <1>0, <2>1, <2>2, BecomeAt
    <2>5. job'[Daemon].pc = "carry" /\ job'[Daemon].cur = job[Daemon].cur /\ job'[Daemon].row = row
      BY <1>0, <2>4 DEF Job
    <2>6. At(Daemon, "stamp") /\ digest' = digest
      BY <1>4 DEF Stamp
    <2>7. \A r \in job[Daemon].cur : r = s
      BY <1>0, <2>6 DEF Agrees
    <2>8. UpToDate(row, s)
      <3>1. mtime[File(s)] \in Nat
        BY <1>0, SessionFacts DEF TypeOK
      <3>2. row.ver = written[s]
        BY <2>3, <2>6 DEF BuildInv, BuildJob
      <3>3. QED
        BY <2>3, <3>1, <3>2 DEF UpToDate
    <2>9. BuildJob'
      BY <1>1, <2>5, <2>6, <2>7, <2>8 DEF BuildInv, BuildJob, UpToDate, At, files, loop
    <2>10. QED
      BY <1>1, <2>6, <2>9, UpToDateStill DEF BuildInv, BuildJob, files
  <1>5. CASE Carry(Daemon)
    <2>1. PICK s \in job[Daemon].cur :
            Become(Daemon, [job[Daemon] EXCEPT
                        !.pc = "write",
                        !.row = [job[Daemon].row EXCEPT !.hold = digest[s].hold,
                                                   !.released = digest[s].released]])
      BY <1>5 DEF Carry
    <2>2. PICK row : row = [job[Daemon].row EXCEPT !.hold = digest[s].hold, !.released = digest[s].released]
      OBVIOUS
    <2>3. row.ver = job[Daemon].row.ver /\ row.built = job[Daemon].row.built
      BY <1>0, <2>2 DEF Digest
    <2>4. job'[Daemon] = [job[Daemon] EXCEPT !.pc = "write", !.row = row]
      BY <1>0, <2>1, <2>2, BecomeAt
    <2>5. job'[Daemon].pc = "write" /\ job'[Daemon].cur = job[Daemon].cur /\ job'[Daemon].row = row
      BY <1>0, <2>4 DEF Job
    <2>6. At(Daemon, "carry") /\ digest' = digest
      BY <1>5 DEF Carry
    <2>7. BuildJob'
      BY <1>1, <2>3, <2>5, <2>6 DEF BuildInv, BuildJob, UpToDate, At, files, loop
    <2>8. QED
      BY <1>1, <2>6, <2>7, UpToDateStill DEF BuildInv, BuildJob, files
  <1>6. CASE WriteDigest(Daemon) \/ WriteRow(Daemon)
    <2>1. PICK s \in job[Daemon].cur :
            digest' = [digest EXCEPT ![s] = job[Daemon].row] \/ digest' = digest
      BY <1>6 DEF WriteDigest, WriteRow
    <2>2. job[Daemon].pc \in {"write", "flag"}
      BY <1>6 DEF WriteDigest, WriteRow, At
    <2>3. s \in Session /\ UpToDate(job[Daemon].row, s)
      BY <1>0, <2>2 DEF BuildInv, BuildJob
    <2>4. \A r \in Session : digest'[r] = digest[r] \/ (r = s /\ digest'[r] = job[Daemon].row)
      BY <1>0, <2>1, <2>3 DEF TypeOK
    <2>5. (\A r \in Session : UpToDate(digest[r], r))'
      <3>1. \A r \in Session : UpToDate(digest[r], r)
        BY DEF BuildInv, BuildJob
      <3>2. QED
        BY <1>1, <2>3, <2>4, <3>1 DEF UpToDate, files
    <2>6. /\ job'[Daemon].pc \in {"settle", "release", "online", "idle"}
          /\ job'[Daemon].pc = "settle" => job[Daemon].pc = "write"
      <3>1. CASE WriteDigest(Daemon)
        <4>1. job'[Daemon].pc = "settle"
          BY <1>0, <3>1, ReturnAt DEF WriteDigest
        <4>2. QED
          BY <3>1, <4>1 DEF WriteDigest, At
      <3>2. CASE WriteRow(Daemon)
        BY <1>0, <3>2, WriteRowAt
      <3>3. QED
        BY <1>6, <3>1, <3>2
    <2>7. BuildJob'
      BY <1>1, <2>6 DEF BuildInv, BuildJob, At, files, loop
    <2>8. QED
      BY <2>5, <2>7 DEF BuildInv, BuildJob
  <1>7. QED
    BY <1>2, <1>3, <1>4, <1>5, <1>6

LEMMA BuildSync ==
    ASSUME TypeOK, BuildInv,
           \/ BeginSync(Daemon) \/ Gate(Daemon) \/ Push(Daemon) \/ PushFails(Daemon) \/ BeginRaw(Daemon)
           \/ MarkRaw(Daemon) \/ MarkRawUnavailable(Daemon) \/ EndSync(Daemon) \/ Crash(Daemon)
           \/ \E raw \in BOOLEAN : Fresh(Daemon, raw)
           \/ \E s \in Session : \/ MarkSynced(Daemon, s) \/ PushRaw(Daemon, s)
                                 \/ RawRetry(Daemon, s) \/ RawRefused(Daemon, s)
    PROVE  BuildInv'
  <1>0. Daemon \in Proc
    BY DEF Proc
  <1>1. UNCHANGED <<files, digest>>
    BY DEF BeginSync, Gate, Push, PushFails, BeginRaw, MarkRaw, MarkRawUnavailable, EndSync, Crash, Fresh,
           MarkSynced, PushRaw, RawRetry, RawRefused
  <1>2. job'[Daemon].pc \in {"gate", "fresh", "push", "mark", "raw", "rawmark", "rawbad", "idle"}
    <2>1. CASE BeginSync(Daemon) \/ Gate(Daemon) \/ BeginRaw(Daemon) \/ \E raw \in BOOLEAN : Fresh(Daemon, raw)
      BY <1>0, <2>1, BeginSyncAt, GateAt, BeginRawAt, FreshAt
    <2>2. CASE Push(Daemon)
      <3>1. job'[Daemon].pc = "mark"
        BY <1>0, <2>2, GotoAt DEF Push
      <3>2. QED
        BY <3>1
    <2>3. CASE PushFails(Daemon) \/ EndSync(Daemon) \/ Crash(Daemon)
      BY <1>0, <2>3, FinishAt DEF PushFails, EndSync, Crash, Idle
    <2>4. CASE MarkRaw(Daemon) \/ MarkRawUnavailable(Daemon)
      BY <1>0, <2>4, ReturnAt DEF MarkRaw, MarkRawUnavailable
    <2>5. ASSUME NEW s \in Session, MarkSynced(Daemon, s)
          PROVE  job'[Daemon].pc = "mark"
      BY <1>0, <2>5, MarkSyncedAt
    <2>6. ASSUME NEW s \in Session, PushRaw(Daemon, s) \/ RawRetry(Daemon, s) \/ RawRefused(Daemon, s)
          PROVE  job'[Daemon].pc \in {"rawmark", "raw", "rawbad"}
      <3>1. RawDone(Daemon, s, "rawmark") \/ RawDone(Daemon, s, "raw") \/ RawDone(Daemon, s, "rawbad")
        BY <2>6 DEF PushRaw, RawRetry, RawRefused
      <3>2. QED
        BY <1>0, <3>1, RawDoneAt
    <2>7. QED
      BY <2>1, <2>2, <2>3, <2>4, <2>5, <2>6
  <1>3. job'[Daemon].pc \notin Building
    BY <1>2 DEF Building
  <1>4. QED
    BY <1>1, <1>3, BuildElsewhere

DaemonOnly == Foreground = {} /\ CalmBuild /\ ~FaultyReads

LEMMA InitBuild == Init => BuildInv
  <1> SUFFICES ASSUME Init
               PROVE  BuildInv
    OBVIOUS
  <1>1. job[Daemon].pc = "idle"
    BY DEF Init, Idle, Proc
  <1>2. \A s \in Session : UpToDate(digest[s], s)
    BY SessionFacts DEF Init, UpToDate, NoDigest
  <1>3. QED
    BY <1>1, <1>2 DEF BuildInv, BuildJob, At

LEMMA NextBuild == DaemonOnly /\ HonestInv /\ SeenInv /\ BuildInv /\ [Next]_vars => BuildInv'
  <1> SUFFICES ASSUME DaemonOnly, HonestInv, SeenInv, BuildInv, [Next]_vars
               PROVE  BuildInv'
    OBVIOUS
  <1>0. TypeOK /\ Foreground = {} /\ Proc = {Daemon} /\ CalmBuild /\ ~FaultyReads
    BY DEF HonestInv, DaemonOnly, Proc
  <1>1. CASE World \/ UNCHANGED vars
    BY <1>0, <1>1, BuildWorld
  <1>2. CASE Watch
    BY <1>0, <1>2, BuildWatch
  <1>3. CASE Shared(Daemon)
    BY <1>0, <1>3, BuildCapture, BuildCompact, BuildSync DEF Shared
  <1>4. QED
    BY <1>0, <1>1, <1>2, <1>3 DEF Next

-----------------------------------------------------------------------------
\* What sends something

\* Every step that changes what the server holds of a session is a push of it, alone,
\* past the gate.
LEMMA SentWasPassed ==
    ASSUME Solo, HonestInv, LocalInv, [Next]_vars, NEW s \in Session, ~StaysLocal(s)
    PROVE  s \in Leaving
  <1>0. TypeOK
    BY DEF HonestInv
  <1>1. PICK p \in Proc : \/ Push(p) \/ PushFails(p)
                          \/ \E r \in Session : PushRaw(p, r) \/ RawRetry(p, r)
    <2>1. ASSUME World \/ Watch \/ (\E p \in Foreground : Engineer(p)) \/ UNCHANGED vars
          PROVE  UNCHANGED org
      BY ZenonT(60), <2>1 DEF World, Settle, Append, Age, Watch, Scan, BeginSettle, SkipSettle, BeginRelease,
                  ListReleasable, EndRelease, SkipSync, ReadFails, AutoRelease, ReadRow, ReleaseMisses, vars,
                  Engineer, BeginCompact, EndCompact, SetMode, SetHold, SetReleased, Purge, Resync
    <2>2. ASSUME NEW p \in Proc, Shared(p), ~Push(p), ~PushFails(p),
                 \A r \in Session : ~PushRaw(p, r) /\ ~RawRetry(p, r)
          PROVE  UNCHANGED org
      BY <2>2 DEF Shared, StoreFamily, Stamp, Carry, WriteDigest, WriteRow, BeginSync, Gate, BeginRaw, MarkRaw,
                  MarkRawUnavailable, EndSync, Crash, ReadTranscript, Fresh, SkipSession, Build, MarkSynced,
                  RawRefused
    <2>3. ~UNCHANGED org
      BY DEF StaysLocal, org
    <2>4. QED
      BY <2>1, <2>2, <2>3 DEF Next
  <1>2. Syncing(p) /\ job[p].pc \in Sending
    BY <1>1 DEF LocalInv, Push, PushFails, PushRaw, RawRetry, At, Sending
  <1>3. Passed(p) \subseteq Leaving
    BY <1>2 DEF Syncing
  <1>4. CASE Push(p) \/ PushFails(p)
    <2>1. PICK S \in SUBSET Batch(p) : server' = Upserted(p, S) /\ serverRaw' = serverRaw
      BY <1>4 DEF Push, PushFails
    <2>2. s \in S
      BY <2>1 DEF StaysLocal, Upserted
    <2>3. QED
      BY <1>3, <2>1, <2>2 DEF Passed
  <1>5. ASSUME NEW r \in Session, PushRaw(p, r) \/ RawRetry(p, r)
        PROVE  s \in Leaving
    <2>1. r \in job[p].due /\ server' = server
      BY <1>5 DEF PushRaw, RawRetry
    <2>2. s = r
      BY <1>0, <1>5, <2>1 DEF StaysLocal, PushRaw, RawRetry, TypeOK
    <2>3. QED
      BY <1>3, <2>1, <2>2 DEF Passed
  <1>6. QED
    BY <1>1, <1>4, <1>5

-----------------------------------------------------------------------------
\* The theorems

SerialInv == HonestInv /\ LocalInv /\ SeenInv

LEMMA SerialStep == Exclusive /\ Spec => []SerialInv
  <1> SUFFICES ASSUME Exclusive
               PROVE  Spec => []SerialInv
    OBVIOUS
  <1>1. Init => SerialInv
    BY InitHonest, InitLocal, InitSeen DEF SerialInv
  <1>2. SerialInv /\ [Next]_vars => SerialInv'
    BY NextHonest, NextLocal, NextSeen DEF SerialInv, Solo
  <1>3. QED
    BY <1>1, <1>2, PTL DEF Spec

\* As long as operations do not overlap, the raw transcript marked as uploaded covers the
\* turns its digest was built from: compact_session forgets the mark before it replaces
\* the digest, and what sync uploads is read after the digest was.
THEOREM RawCovers == Exclusive /\ Spec => []RawCoversDigest
  <1>1. SerialInv => RawCoversDigest
    BY DEF SerialInv, LocalInv, RawCoversDigest
  <1>2. QED
    BY <1>1, SerialStep, PTL

\* As long as operations do not overlap, a file that watch_loop takes for ingested has all its turns in the store: it
\* remembers the time it saw before it read the file, and forgets it when reading fails.
THEOREM SeenCaptured == Exclusive /\ Spec => []SeenIsCaptured
  <1>1. SerialInv => SeenIsCaptured
    BY DEF SerialInv, SeenInv
  <1>2. QED
    BY <1>1, SerialStep, PTL

\* As long as operations do not overlap, nothing of a session on hold (set_hold) leaves
\* the laptop: the flag survives re-compaction, auto_release passes it by and the gate of
\* sync lets released digests through only.
THEOREM HeldKeptLocal == Exclusive /\ Spec => HeldStaysLocal
  <1> SUFFICES ASSUME Exclusive
               PROVE  Spec => HeldStaysLocal
    OBVIOUS
  <1>1. SerialInv /\ [Next]_vars => [\A s \in Session : "hold" \in consent[s] => StaysLocal(s)]_vars
    <2> SUFFICES ASSUME SerialInv, [Next]_vars, NEW s \in Session, "hold" \in consent[s]
                 PROVE  StaysLocal(s)
      OBVIOUS
    <2>1. ~digest[s].released
      BY DEF SerialInv, LocalInv, HeldIsKept
    <2>2. s \notin Leaving
      BY <2>1 DEF Leaving
    <2>3. QED
      BY <2>2, SentWasPassed DEF SerialInv, Solo
  <1>2. QED
    BY <1>1, SerialStep, PTL DEF Spec, HeldStaysLocal

\* As long as operations do not overlap, nothing leaves the laptop of a session whose row
\* says personal (set_mode): sync lists work sessions only, and sends what it listed.
THEOREM PersonalKeptLocal == Exclusive /\ Spec => PersonalRowStaysLocal
  <1> SUFFICES ASSUME Exclusive
               PROVE  Spec => PersonalRowStaysLocal
    OBVIOUS
  <1>1. SerialInv /\ [Next]_vars => [\A s \in personal : StaysLocal(s)]_vars
    <2> SUFFICES ASSUME SerialInv, [Next]_vars, NEW s \in personal
                 PROVE  StaysLocal(s)
      OBVIOUS
    <2>1. s \in Session /\ s \notin Leaving
      BY DEF Leaving, SerialInv, HonestInv, TypeOK
    <2>2. QED
      BY <2>1, SentWasPassed DEF SerialInv, Solo
  <1>2. QED
    BY <1>1, SerialStep, PTL DEF Spec, PersonalRowStaysLocal

\* Left to the daemon, with no transcript written while its digest is being built and
\* none unreadable, the staleness test of compact_settled (mtime <= created_at) is
\* sound: a digest it leaves alone has every turn of its session.
THEOREM StalenessSound ==
    Foreground = {} /\ CalmBuild /\ ~FaultyReads /\ Spec => []UpToDateTestSound
  <1> SUFFICES ASSUME DaemonOnly
               PROVE  Spec => []UpToDateTestSound
    BY DEF DaemonOnly
  <1> DEFINE Inv == HonestInv /\ SeenInv /\ BuildInv
  <1>1. Init => Inv
    BY InitHonest, InitSeen, InitBuild
  <1>2. Inv /\ [Next]_vars => Inv'
    BY NextHonest, NextSeen, NextBuild DEF Solo, DaemonOnly
  <1>3. Inv => UpToDateTestSound
    BY DEF BuildInv, BuildJob, UpToDate, UpToDateTestSound
  <1>4. QED
    BY <1>1, <1>2, <1>3, PTL DEF Spec
=============================================================================
