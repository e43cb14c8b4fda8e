-------------------------------- MODULE MCDesk -------------------------------
(***************************************************************************)
(* What runs beside the release pipeline and shares no state with it: a    *)
(* behaviour chooses an area and only that area steps.                     *)
(***************************************************************************)
EXTENDS Desk, Transcripts, Mining

CONSTANT Areas
VARIABLE area

C(tools, errors, refs, digest, near) == [tools |-> tools, errors |-> errors, refs |-> refs, digest |-> digest, near |-> near]
MCContent == [s \in Sessions |-> C({"Bash"}, [t \in {"Bash"} |-> 3], 0, "success", {s, "s2"})]
MCRegistered == [d \in {"w","c"} |-> IF d = "w" THEN <<"auto_tag_sessions","loop_warning">> ELSE <<"loop_warning","prior_work">>]
MCCooldown == [a \in {"auto_tag_sessions", "loop_warning", "prior_work"} |-> IF a = "loop_warning" THEN 1 ELSE None]
G(id, project, outcome, source, at, files, marker, shaped, names) ==
  [id |-> id, project |-> project, outcome |-> outcome, source |-> source, at |-> at, files |-> files, marker |-> marker, shaped |-> shaped, names |-> names]
MCLocal == {G("c1","p","success","full",3,{"f"},FALSE,TRUE,{"c","c1"}), G("c2","p","abandoned","full",2,{},FALSE,TRUE,{"c","c2"}),
  G("c3","","abandoned","pending",1,{},FALSE,TRUE,{"c","c3"}), G("c4","","success","full",1,{},TRUE,FALSE,{"c","c4"}), G("c5","unknown","abandoned","full",4,{},FALSE,FALSE,{"c","c5"})}
Q(p,o,s) == [project |-> p, outcome |-> o, since |-> s]
MCAsked == {Q(None,None,None), Q("p",None,None), Q(None,"abandoned",2)}

T(text) == [Block EXCEPT !.text = text]
Use(tid, path) == [Block EXCEPT !.type = "tool_use", !.tid = tid, !.tool = "Edit", !.path = path]
Res(tid, text) == [Block EXCEPT !.type = "tool_result", !.tid = tid, !.text = text, !.bad = TRUE]
L(kind, dt) == [Line EXCEPT !.kind = kind, !.dt = dt]
MCClaudeLines == {
  [L("user", 2) EXCEPT !.blocks = <<T("secret")>>, !.cwd = "dir"],
  [L("user", 1) EXCEPT !.blocks = <<Res("x", "plain"), T("plain")>>],
  [L("user", 3) EXCEPT !.blocks = <<T("plain")>>],
  [L("user", None) EXCEPT !.blocks = <<T("plain")>>],
  [L("assistant", 1) EXCEPT !.blocks = <<T("plain"), Use("x", "secret")>>, !.usage = 1, !.model = "opus"],
  [L("assistant", 2) EXCEPT !.usage = 2, !.model = "other"],
  [L("summary", 1) EXCEPT !.text = "secret"], L("other", 3)}
MCCodexLines == {
  [L("session_meta", 0) EXCEPT !.id = "fork", !.cwd = "sandbox"],
  [L("turn_context", 0) EXCEPT !.model = "opus", !.cwd = "sandbox", !.roots = <<"sandbox", "dir">>],
  [L("world_state", 0) EXCEPT !.cwd = "dir"], [L("thread_settings", 0) EXCEPT !.model = "haiku", !.cwd = "sandbox"],
  [L("compacted", 1) EXCEPT !.text = "plain"],
  [L("patch_apply_end", 1) EXCEPT !.blocks = <<[Block EXCEPT !.path = "secret"], [Block EXCEPT !.path = "f", !.bad = TRUE]>>],
  [L("token_count", 1) EXCEPT !.usage = 1],
  [L("message", 3) EXCEPT !.role = "user", !.blocks = <<T("secret")>>], [L("message", 2) EXCEPT !.role = "assistant", !.blocks = <<T("plain"), T("")>>],
  [L("tool_call", 1) EXCEPT !.blocks = <<Use("x", "f")>>],
  [L("tool_output", 1) EXCEPT !.blocks = <<Res("x", "secret")>>]}
MCGit == [d \in {"dir", "sandbox"} |-> IF d = "dir" THEN "repo" ELSE None]
MCConfigs == [secrets : BOOLEAN, url : {None, "u"}, notifier : BOOLEAN, solo : BOOLEAN]

M(id, actor, at, tier, tokens, hard) ==
    [id |-> id, actor |-> actor, session |-> id, at |-> at, tier |-> tier, tokens |-> tokens, hard |-> hard]
MCMined == {
    M("a", 1, 9, "opus", 2, FALSE), M("b", 2, 8, "sonnet", 1, TRUE), M("c", 1, 7, "haiku", 1, FALSE),
    M("d", 2, 6, "opus", None, FALSE), M("e", 3, 5, "sonnet", 1, FALSE)}
MCPairs == {<<"a", "b">>, <<"c", "d">>, <<"d", "e">>}
MCAlike == MCPairs \cup {<<p[2], p[1]>> : p \in MCPairs}

Init ==
    /\ area \in Areas
    /\ DeskInit /\ UpdateInit /\ InsightInit /\ TranscriptsInit /\ MiningInit
    /\ area # "update" => installed = 1
    /\ area # "transcripts" => format = "claude"
Next ==
    /\ UNCHANGED area
    /\ \/ area = "desk" /\ DeskNext /\ UNCHANGED <<uvars, ivars, tvars, mvars>>
       \/ area = "update" /\ UpdateNext /\ UNCHANGED <<dvars, ivars, tvars, mvars>>
       \/ area = "insights" /\ InsightNext /\ UNCHANGED <<dvars, uvars, tvars, mvars>>
       \/ area = "transcripts" /\ TranscriptsNext /\ UNCHANGED <<dvars, uvars, ivars, mvars>>
       \/ area = "mining" /\ MiningNext /\ UNCHANGED <<dvars, uvars, ivars, tvars>>
vars == <<area, dvars, uvars, ivars, tvars, mvars>>
Spec == Init /\ [][Next]_vars
Symmetry == Permutations(Clickers)
=============================================================================
