------------------------------- MODULE MCServer ------------------------------
(***************************************************************************)
(* The parts of the server that share no state with each other, explored   *)
(* side by side: a behaviour chooses an area and only that area steps.     *)
(***************************************************************************)
EXTENDS Accounts, Access, Ledger

CONSTANT Public, Areas
VARIABLE area

\* One person has a public mail address, all the others one company's.
MCDomainOf == [p \in Person |-> IF p = Public THEN None ELSE CHOOSE d \in Domain : TRUE]

D(id, org, actor, project, outcome, at) ==
    [id |-> id, org |-> org, actor |-> actor, project |-> project, outcome |-> outcome, at |-> at,
     source |-> IF id = "d2" THEN "pending" ELSE "full", thread |-> IF id = "d3" THEN "d2" ELSE id,
     files |-> IF project = "" THEN {} ELSE {"f", "readme.md"}, itself |-> project = ""]
MCDigests == {
    D("d1", "o", 1, "p", "success", 99), D("d2", "o", 2, "p", "success", 98),
    D("d3", "o", 2, "", "abandoned", 97), D("d4", "o", 3, "p", "abandoned", 85),
    D("d6", "x", 1, "q", "success", 95)}

N(id, org, kind, human) ==
    [id |-> id, org |-> org, kind |-> kind, project |-> "p", status |-> "candidate", at |-> 99,
     value |-> 1, prev |-> "none", actors |-> {1, 2}, evidence |-> {"d1", "d6"}, disputed |-> {"d3"},
     entities |-> {"e"}, human |-> human]
MCNoteRows == {N("n1", "o", "decision", FALSE), N("n2", "o", "project_overview", TRUE)}

F(actor, project, outcome) == [Anything EXCEPT !.actor = actor, !.project = project, !.outcome = outcome]
MCSpecs == {Anything, F(3, None, None), F(None, "p", None), F(None, None, "abandoned")}
MCMentions == {{}, {2, 3}}

MCTokens == {[id |-> "t1", scope |-> "founder", org |-> "o", actor |-> None],
             [id |-> "t2", scope |-> "engineer", org |-> "x", actor |-> 1],
             [id |-> "t3", scope |-> "agent", org |-> "o", actor |-> 2]}
MCMemberOf == [m \in {"m"} |-> "o"]

\* The doors are tried on organisations that have everything.
Populated ==
    /\ stored = Digests /\ noted = NoteRows /\ roster = {<<d.org, d.actor>> : d \in Digests}
    /\ edges = {<<"n1", "e">>} /\ purged = 0
    /\ question = Silent /\ answer = None /\ reading = None /\ asked = 0

Init ==
    /\ area \in Areas
    /\ AccountsInit /\ LedgerInit /\ AccessInit
    /\ IF area = "access" THEN Populated ELSE QuestionsInit
    /\ area = "ledger" => provider["founder"] = "openai"
    /\ area # "access" => minted = {}
    /\ area # "ledger" => provider = [p \in Purposes |-> "mock"]
Next ==
    /\ UNCHANGED area
    /\ \/ area = "accounts" /\ AccountsNext /\ UNCHANGED <<pagevars, qvars, lvars, accessvars>>
       \/ area = "pages" /\ QuestionsNext /\ UNCHANGED <<avars, lvars, accessvars>>
       \/ area = "ledger" /\ LedgerNext /\ UNCHANGED <<avars, pagevars, qvars, accessvars>>
       \/ area = "access" /\ AccessNext /\ UNCHANGED <<avars, qvars, lvars>>
       \/ area = "rate" /\ RateNext /\ UNCHANGED <<avars, pagevars, qvars, accessvars>>
vars == <<area, avars, pagevars, qvars, lvars, accessvars>>
Spec == Init /\ [][Next]_vars
Symmetry == Permutations(Callers)
=============================================================================
