------------------------------ MODULE Transcripts ------------------------------
(***************************************************************************)
(* From a growing transcript file to digests: how the two collectors read  *)
(* its lines into turns, how the turns are cut into session slices, what a *)
(* slice costs, the digest made of it and what redaction leaves of it.     *)
(* Lines, blocks and texts are abstract: a text is "plain" or "secret".    *)
(***************************************************************************)
EXTENDS Common, Integers, FiniteSets, Sequences, FiniteSetsExt, TLC

CONSTANTS
    ClaudeLines, CodexLines,  \* the lines a file may get: see Line
    MaxLines,
    GAP, CAP,                 \* sessionize.GAP, sessionize.CAP
    Stem,                     \* the session id in the file's name
    GitRoot,                  \* [directory -> root of the repository it is in, or None]
    Configs                  \* the configurations an engineer may save

VARIABLES
    file,      \* sequence of lines, each with its time
    format,    \* "claude" or "codex"
    torn,      \* the last line is not all there yet
    last,      \* the time the last dated line was written
    now, prior \* what the second and the first read made of the file
tvars == <<file, format, torn, last, now, prior>>

\* What a line has unless it says otherwise; dt is the time since the line before,
\* which says at what time it is written.
Line == [kind |-> "other", dt |-> 0, at |-> None, blocks |-> <<>>, cwd |-> None, model |-> None, usage |-> 0,
         text |-> "", id |-> None, role |-> None, roots |-> <<>>]
Block == [type |-> "text", text |-> "", tid |-> None, tool |-> None, path |-> None, bad |-> FALSE]
EmptyTurn == [role |-> "user", content |-> "", tool |-> None, path |-> None, output |-> "", error |-> FALSE,
              tid |-> None, model |-> None, usage |-> 0, at |-> None, id |-> None]

ASSUME TranscriptsAssumption ==
    /\ MaxLines \in Nat /\ GAP \in Nat /\ CAP \in Nat /\ None \notin Nat
    /\ \A line \in ClaudeLines \cup CodexLines :
         /\ DOMAIN line = DOMAIN Line /\ line.usage \in Nat
         /\ Len(line.blocks) \in Nat /\ DOMAIN line.blocks = 1 .. Len(line.blocks)
    /\ \A c \in Configs :
         /\ c = [secrets |-> c.secrets, url |-> c.url, notifier |-> c.notifier, solo |-> c.solo]
         /\ {c.secrets, c.notifier, c.solo} \subseteq BOOLEAN

\* The blocks at the places in S, in their order.
Picked(blocks, S) ==
    [i \in 1 .. Cardinality(S) |-> blocks[CHOOSE k \in S : Cardinality({l \in S : l <= k}) = i]]
ToolName(names, tid) == IF tid \in DOMAIN names THEN names[tid] ELSE None
Empty == [k \in {} |-> None]

(***************************************************************************)
(* The Claude Code collector.                                              *)
(***************************************************************************)
ReadNothing == [turns |-> <<>>, names |-> Empty, cwd |-> None, rank |-> -1, model |-> None, id |-> None,
                summary |-> "", summary_at |-> None, boundary |-> 0]

_user_turns(line, names) ==
    LET kept == Picked(line.blocks, {k \in DOMAIN line.blocks : line.blocks[k].type \in {"text", "tool_result"}})
        Said(b) == [EmptyTurn EXCEPT !.content = b.text, !.at = line.at]
        Returned(b) == [EmptyTurn EXCEPT !.role = "tool", !.output = b.text, !.error = b.bad, !.tid = b.tid,
                                         !.tool = ToolName(names, b.tid), !.at = line.at]
    IN  [k \in DOMAIN kept |-> IF kept[k].type = "text" THEN Said(kept[k]) ELSE Returned(kept[k])]
\* The usage of a line goes to its first turn, made up if it has none.
_assistant_turns(line) ==
    LET kept == Picked(line.blocks, {k \in DOMAIN line.blocks :
                         \/ line.blocks[k].type = "tool_use"
                         \/ line.blocks[k].type = "text" /\ line.blocks[k].text # ""})
        blank == [EmptyTurn EXCEPT !.role = "assistant", !.model = line.model, !.at = line.at]
        made == IF kept = <<>> /\ line.usage # 0 THEN <<blank>>
                ELSE [k \in DOMAIN kept |-> [blank EXCEPT !.content = kept[k].text, !.tool = kept[k].tool,
                                                          !.path = kept[k].path, !.tid = kept[k].tid]]
    IN  [k \in DOMAIN made |-> IF k = 1 THEN [made[k] EXCEPT !.usage = line.usage] ELSE made[k]]
ToolNames(line) ==
    LET uses == {k \in DOMAIN line.blocks : line.blocks[k].type = "tool_use"}
    IN  [t \in {line.blocks[k].tid : k \in uses} |-> line.blocks[CHOOSE k \in uses : line.blocks[k].tid = t].tool]

ClaudeLine(acc, line) ==
    LET a == [acc EXCEPT !.cwd = IF @ = None THEN line.cwd ELSE @] IN
    CASE line.kind = "summary" ->
           IF line.text = "" THEN a ELSE [a EXCEPT !.summary = line.text, !.summary_at = Len(a.turns)]
      [] line.kind = "user" -> [a EXCEPT !.turns = @ \o _user_turns(line, a.names)]
      [] line.kind = "assistant" ->
           [a EXCEPT !.turns = @ \o _assistant_turns(line), !.names = ToolNames(line) @@ @]
      [] OTHER -> a
Numbered(turns, id) == [k \in DOMAIN turns |-> [turns[k] EXCEPT !.id = <<id, k - 1>>]]
claude_read(acc) == [acc EXCEPT !.turns = Numbered(@, Stem), !.id = Stem]

(***************************************************************************)
(* The Codex collector.                                                    *)
(***************************************************************************)
_is_desktop_sandbox(dir) == dir = "sandbox"
_prefer_cwd(acc, dir, rank) ==
    LET sandboxed(x) == IF x = None \/ _is_desktop_sandbox(x) THEN 0 ELSE 1 IN
    IF dir = None THEN acc
    ELSE IF \/ acc.cwd = None
            \/ sandboxed(dir) > sandboxed(acc.cwd)
            \/ (sandboxed(dir) = sandboxed(acc.cwd) /\ rank > acc.rank)
         THEN [acc EXCEPT !.cwd = dir, !.rank = rank] ELSE acc
_make_turn(line, role, model) == [EmptyTurn EXCEPT !.role = role, !.model = model, !.at = line.at]

\* The last session_meta names the session.
SessionMeta(acc, line) ==
    _prefer_cwd([acc EXCEPT !.id = IF line.id = None THEN @ ELSE line.id], line.cwd, 1)
\* Of a turn's workspace roots, the first outside the sandbox counts, or the first.
WorkspaceRoot(roots) ==
    LET outside == {k \in DOMAIN roots : ~_is_desktop_sandbox(roots[k])}
    IN  IF roots = <<>> THEN None ELSE IF outside = {} THEN roots[1] ELSE roots[Min(outside)]
TurnContext(acc, line) ==
    LET placed == _prefer_cwd([acc EXCEPT !.model = IF line.model = None THEN @ ELSE line.model], line.cwd, 4)
    IN  _prefer_cwd(placed, WorkspaceRoot(line.roots), 5)
WorldState(acc, line) == _prefer_cwd(acc, line.cwd, 2)
ThreadSettings(acc, line) ==
    _prefer_cwd([acc EXCEPT !.model = IF line.model = None THEN @ ELSE line.model], line.cwd, 3)
_summary_from_entry(line) == IF line.kind = "compacted" THEN line.text ELSE ""
Compacted(acc, line) ==
    IF _summary_from_entry(line) = "" THEN acc
    ELSE [acc EXCEPT !.summary = _summary_from_entry(line), !.summary_at = Len(acc.turns)]
\* One turn for each file of a patch, failed or not.
PatchApplyEnd(acc, line) ==
    LET Patched(b) == [_make_turn(line, "assistant", acc.model) EXCEPT !.tool = "apply_patch", !.path = b.path,
                                                                       !.error = b.bad]
    IN  [acc EXCEPT !.turns = @ \o [k \in DOMAIN line.blocks |-> Patched(line.blocks[k])]]

\* The usage belongs to the last assistant turn since the last usage, or to one of its own.
Anchors(acc) == {k \in acc.boundary + 1 .. Len(acc.turns) : acc.turns[k].role = "assistant"}
\* Mutant of TokenCount: the boundary of the last usage is not moved.
TokenCount_Overwrites(acc, line) ==
    LET turns == IF Anchors(acc) # {} THEN acc.turns
                 ELSE Append(acc.turns, _make_turn(line, "assistant", acc.model))
        anchor == IF Anchors(acc) # {} THEN Max(Anchors(acc)) ELSE Len(turns)
    IN  IF line.usage = 0 THEN acc
        ELSE [acc EXCEPT !.turns = [turns EXCEPT ![anchor].usage = line.usage]]
TokenCount(acc, line) ==
    LET turns == IF Anchors(acc) # {} THEN acc.turns
                 ELSE Append(acc.turns, _make_turn(line, "assistant", acc.model))
        anchor == IF Anchors(acc) # {} THEN Max(Anchors(acc)) ELSE Len(turns)
    IN  IF line.usage = 0 THEN acc
        ELSE [acc EXCEPT !.turns = [turns EXCEPT ![anchor].usage = line.usage], !.boundary = Len(turns)]

_text_blocks(blocks) == Picked(blocks, {k \in DOMAIN blocks : blocks[k].type = "text" /\ blocks[k].text # ""})
Message(acc, line) ==
    LET model == IF line.model # None THEN line.model ELSE acc.model
        texts == _text_blocks(line.blocks)
        Said(b) == [_make_turn(line, line.role, IF line.role = "assistant" THEN model ELSE None)
                      EXCEPT !.content = b.text]
    IN  IF line.role \notin {"user", "assistant"} THEN acc
        ELSE [acc EXCEPT !.turns = @ \o [k \in DOMAIN texts |-> Said(texts[k])]]
ToolCall(acc, line) ==
    LET b == line.blocks[1] IN
    [acc EXCEPT !.names = IF b.tid = None THEN @ ELSE [t \in {b.tid} |-> b.tool] @@ @,
                !.turns = Append(@, [_make_turn(line, "assistant", acc.model)
                                       EXCEPT !.tool = b.tool, !.path = b.path, !.tid = b.tid])]
ToolOutput(acc, line) ==
    LET b == line.blocks[1] IN
    [acc EXCEPT !.turns = Append(@, [_make_turn(line, "tool", None)
        EXCEPT !.tool = ToolName(acc.names, b.tid), !.output = b.text, !.tid = b.tid, !.error = b.bad])]

CodexLine(acc, line) ==
    CASE line.kind = "session_meta" -> SessionMeta(acc, line)
      [] line.kind = "turn_context" -> TurnContext(acc, line)
      [] line.kind = "world_state" -> WorldState(acc, line)
      [] line.kind = "compacted" -> Compacted(acc, line)
      [] line.kind = "thread_settings" -> ThreadSettings(acc, line)
      [] line.kind = "patch_apply_end" -> PatchApplyEnd(acc, line)
      [] line.kind = "token_count" -> TokenCount(acc, line)
      [] line.kind = "message" -> Message(acc, line)
      [] line.kind = "tool_call" -> ToolCall(acc, line)
      [] line.kind = "tool_output" -> ToolOutput(acc, line)
      [] OTHER -> acc
\* An assistant turn without a model gets the one the file ends with.
codex_read(acc) ==
    LET id == IF acc.id = None THEN Stem ELSE acc.id
        named == Numbered(acc.turns, id)
    IN  [acc EXCEPT !.id = id,
           !.turns = [k \in DOMAIN named |-> IF named[k].role = "assistant" /\ named[k].model = None
                                             THEN [named[k] EXCEPT !.model = acc.model] ELSE named[k]]]

(***************************************************************************)
(* Reading, line by line.                                                  *)
(***************************************************************************)
\* Neither reader sees a line that does not parse.
Whole == IF torn THEN SubSeq(file, 1, Len(file) - 1) ELSE file
ReadLine(f, acc, line) == IF f = "claude" THEN ClaudeLine(acc, line) ELSE CodexLine(acc, line)
Reads(f, lines) ==
    LET after[n \in 0 .. Len(lines)] == IF n = 0 THEN ReadNothing ELSE ReadLine(f, after[n - 1], lines[n])
    IN  after
reader(f, lines) ==
    LET acc == Reads(f, lines)[Len(lines)] IN IF f = "claude" THEN claude_read(acc) ELSE codex_read(acc)
\* The summary is read again, from the raw file, when its slice is compacted.
SummaryOf(f, line) ==
    IF f = "codex" THEN _summary_from_entry(line) ELSE IF line.kind = "summary" THEN line.text ELSE ""
read_summary(f, lines) ==
    LET found == {k \in DOMAIN lines : SummaryOf(f, lines[k]) # ""}
    IN  IF found = {} THEN "" ELSE SummaryOf(f, lines[Max(found)])

(***************************************************************************)
(* Slices.                                                                 *)
(***************************************************************************)
\* A new slice where the silence is longer than GAP or the slice than CAP; an
\* undated turn counts as simultaneous with the one before. Of the slices met so
\* far: where they start, why all but the last ended, when the last started.
NoSlice == [starts |-> <<>>, reasons |-> <<>>, start |-> None, last |-> None]
Cut(acc, ts) ==
    IF acc.starts = <<>> \/ ts = None \/ acc.start = None \/ acc.last = None THEN None
    ELSE IF ts - acc.last > GAP THEN "gap" ELSE IF ts - acc.start > CAP THEN "cap" ELSE None
Placed(acc, k, turn) ==
    LET ts == IF turn.at # None THEN turn.at ELSE acc.last
        cut == Cut(acc, ts)
        fresh == cut # None \/ acc.starts = <<>>
    IN  [starts |-> IF fresh THEN Append(acc.starts, k) ELSE acc.starts,
         reasons |-> IF cut = None THEN acc.reasons ELSE Append(acc.reasons, cut),
         start |-> IF fresh \/ acc.start = None THEN ts ELSE acc.start, last |-> ts]
Segments(turns) ==
    LET after[n \in 0 .. Len(turns)] == IF n = 0 THEN NoSlice ELSE Placed(after[n - 1], n, turns[n]) IN after
\* Slice i of what cuts are known after n turns ends before the next one starts.
Ends(seg, i, n) == IF i < Len(seg.starts) THEN seg.starts[i + 1] - 1 ELSE n
_segment(turns) ==
    LET seg == Segments(turns)[Len(turns)]
    IN  [i \in 1 .. Len(seg.starts) |->
          [from |-> seg.starts[i], to |-> Ends(seg, i, Len(turns)),
           reason |-> IF i < Len(seg.starts) THEN seg.reasons[i] ELSE "open"]]

\* The repository's name, or the directory's, or "unknown".
infer_project(cwd) == IF cwd = None THEN "unknown" ELSE IF GitRoot[cwd] # None THEN GitRoot[cwd] ELSE cwd

sessionize(meta) ==
    LET parts == _segment(meta.turns)
        target == IF meta.summary_at = None \/ meta.turns = <<>> THEN None
                  ELSE 1 + Min({meta.summary_at, Len(meta.turns) - 1})
    IN  [i \in DOMAIN parts |->
          [id |-> <<meta.id, i>>, turns |-> SubSeq(meta.turns, parts[i].from, parts[i].to), reason |-> parts[i].reason,
           project |-> infer_project(meta.cwd),
           resumed_from |-> IF i = 1 THEN None ELSE <<meta.id, i - 1>>,
           has_compact_summary |-> target # None /\ target \in parts[i].from .. parts[i].to]]

(***************************************************************************)
(* Cost, digest, redaction.                                                *)
(***************************************************************************)
tier_of(model) == IF model \in {"haiku", "opus", "sonnet"} THEN model ELSE None
resolve_tier(model) == IF model = None THEN None ELSE IF tier_of(model) = None THEN "sonnet" ELSE tier_of(model)
get_rates(model) == CASE tier_of(model) = "haiku" -> 1 [] tier_of(model) = "opus" -> 19 [] OTHER -> 4
Sums(v) == LET sum[n \in 0 .. Len(v)] == IF n = 0 THEN 0 ELSE sum[n - 1] + v[n] IN sum
Total(v) == Sums(v)[Len(v)]
Tokens(turns) == [k \in DOMAIN turns |-> turns[k].usage]
Prices(turns) == [k \in DOMAIN turns |-> turns[k].usage * get_rates(turns[k].model)]
\* The primary model is the one with the most tokens.
estimate_cost(turns) ==
    LET models == {turns[k].model : k \in DOMAIN turns} \ {None}
        on(m) == Total([k \in DOMAIN turns |-> IF turns[k].model = m THEN turns[k].usage ELSE 0])
        primary == IF models = {} THEN None ELSE CHOOSE m \in models : \A n \in models : on(m) >= on(n)
    IN  [total_tokens |-> Total(Tokens(turns)), usd |-> Total(Prices(turns)), tier |-> resolve_tier(primary)]

_FILE_TOOLS == {"Edit", "apply_patch"}
files_from_turns(turns) == {turns[k].path : k \in {j \in DOMAIN turns : turns[j].tool \in _FILE_TOOLS}} \ {None}
_fallback_intent(turns) ==
    LET said == {k \in DOMAIN turns : turns[k].role = "user" /\ turns[k].content # ""}
    IN  IF said = {} THEN "unknown" ELSE turns[Min(said)].content
_native_summary_for(slice) == IF slice.has_compact_summary THEN read_summary(format, Whole) ELSE ""
compact(slice) ==
    [id |-> slice.id, project |-> slice.project, task_intent |-> _fallback_intent(slice.turns),
     native_summary |-> _native_summary_for(slice), files_touched |-> files_from_turns(slice.turns),
     cost |-> estimate_cost(slice.turns)]

\* save_config leaves out what has its default; load_config puts it back.
save_config(c) ==
    {<<"redaction.secrets", c.secrets>>}
    \cup (IF c.url = None THEN {} ELSE {<<"server.url", c.url>>})
    \cup (IF c.notifier THEN {} ELSE {<<"update.notifier", FALSE>>})
    \cup (IF c.solo THEN {<<"mode.solo", TRUE>>} ELSE {})
load_config(saved) ==
    LET get(key, default) == IF \E e \in saved : e[1] = key THEN (CHOOSE e \in saved : e[1] = key)[2] ELSE default
    IN  [secrets |-> get("redaction.secrets", TRUE), url |-> get("server.url", None),
         notifier |-> get("update.notifier", TRUE), solo |-> get("mode.solo", FALSE)]
_active_patterns(c) == IF c.secrets THEN {"secret"} ELSE {}
build_redactor(c) == _active_patterns(load_config(save_config(c)))
redact_text(patterns, text) == IF text \in patterns THEN "[REDACTED]" ELSE text
redact_turn(patterns, turn) ==
    [turn EXCEPT !.content = redact_text(patterns, @), !.output = redact_text(patterns, @),
                 !.path = redact_text(patterns, @)]
\* Ids, the project and the other fields of _COMPACTION_KEEP stay as they are.
redact_compaction(patterns, c) ==
    [c EXCEPT !.task_intent = redact_text(patterns, @), !.native_summary = redact_text(patterns, @),
              !.files_touched = {redact_text(patterns, f) : f \in @}]

(***************************************************************************)
(* The file grows; a read may meet its last line half written.             *)
(***************************************************************************)
TranscriptsInit ==
    /\ file = <<>> /\ format \in {"claude", "codex"} /\ torn = FALSE /\ last = 0
    /\ now = <<>> /\ prior = <<>>
Grow ==
    /\ Len(file) < MaxLines /\ ~torn
    /\ \E line \in IF format = "claude" THEN ClaudeLines ELSE CodexLines :
         LET at == IF line.dt = None THEN None ELSE last + line.dt IN
         /\ file' = Append(file, [line EXCEPT !.at = at])
         /\ last' = IF at = None THEN last ELSE at
    /\ torn' \in BOOLEAN /\ UNCHANGED <<format, now, prior>>
Complete == torn /\ torn' = FALSE /\ UNCHANGED <<file, format, last, now, prior>>
ingest_file ==
    /\ prior = <<>>  \* the second read is the last this model looks at
    /\ now' = sessionize(reader(format, Whole)) /\ prior' = now /\ now' # now
    /\ UNCHANGED <<file, format, torn, last>>
TranscriptsNext == Grow \/ Complete \/ ingest_file

TranscriptsSpec == TranscriptsInit /\ [][TranscriptsNext]_tvars

(***************************************************************************)
(* Properties.                                                             *)
(***************************************************************************)
Outline(turn) == <<turn.id, turn.role, turn.content, turn.tool, turn.output, turn.at>>
\* However a file grows between two reads, torn lines included, and as long as
\* it names the same session: a closed slice keeps its id, its reason and its
\* turns, and the open one only gets more (sessionize.py _segment).
SlicesStable ==
    prior # <<>> => \A i \in DOMAIN prior :
      now[1].id = prior[1].id =>
      /\ i \in DOMAIN now /\ now[i].id = prior[i].id /\ Len(now[i].turns) >= Len(prior[i].turns)
      /\ \A k \in DOMAIN prior[i].turns : Outline(now[i].turns[k]) = Outline(prior[i].turns[k])
      /\ i < Len(prior) => Len(now[i].turns) = Len(prior[i].turns) /\ now[i].reason = prior[i].reason

\* A summary is credited to exactly one slice, and what the digest of that slice
\* quotes is what the read of the turns met (sessionize.py, compact.py
\* _native_summary_for).
OneSummary ==
    now # <<>> /\ prior = <<>> =>
    LET meta == reader(format, Whole) slices == sessionize(meta) IN
    /\ Cardinality({i \in DOMAIN slices : slices[i].has_compact_summary}) =
         IF meta.summary # "" /\ meta.turns # <<>> THEN 1 ELSE 0
    /\ read_summary(format, Whole) = meta.summary

\* Every usage the file reports is paid once, by one slice (codex.py
\* token_count, cost.py estimate_cost).
UsageOf(f, line) == IF line.kind = (IF f = "claude" THEN "assistant" ELSE "token_count") THEN line.usage ELSE 0
Usages(f, lines) == [k \in DOMAIN lines |-> UsageOf(f, lines[k])]
TokensConserved ==
    now # <<>> /\ prior = <<>> =>
    LET meta == reader(format, Whole)
        slices == sessionize(meta)
    IN  /\ Total([i \in DOMAIN slices |-> compact(slices[i]).cost.total_tokens]) = Total(Usages(format, Whole))
        /\ Total([i \in DOMAIN slices |-> compact(slices[i]).cost.usd]) = estimate_cost(meta.turns).usd

\* What leaves the machine of a slice, digest or turns, holds no secret unless
\* the engineer turned redaction off; and saving and loading a configuration
\* changes nothing of it (redactor.py, config.py).
Redactors == {build_redactor(c) : c \in {d \in Configs : d.secrets}}
NothingLeaks ==
    /\ \A c \in Configs : load_config(save_config(c)) = c
    /\ \A patterns \in Redactors, i \in DOMAIN now :
         LET c == redact_compaction(patterns, compact(now[i])) IN
         /\ "secret" \notin {c.task_intent, c.native_summary} \cup c.files_touched
         /\ \A k \in DOMAIN now[i].turns :
              LET t == redact_turn(patterns, now[i].turns[k]) IN "secret" \notin {t.content, t.output, t.path}

\* What becomes of a transcript is stable, complete, paid once and redacted.
TranscriptsHonest == SlicesStable /\ OneSummary /\ TokensConserved /\ NothingLeaks
=============================================================================
