---------------------------- MODULE AgentContext ----------------------------
(***************************************************************************)
(* agent/context.py: the frozen context that the maintainer agent loads    *)
(* from its checkout, the view of it that the agent's prompts are made     *)
(* from, and the budget of a prompt.                                       *)
(*                                                                         *)
(* A day is a number, Unknown where a date is missing or malformed.  A     *)
(* list that is absent or no list is <<>>, as every reader takes it.       *)
(* open_issues, milestones and labels are treated like open_prs and        *)
(* releases, are read by no one but the prompt, and are left out.          *)
(***************************************************************************)
EXTENDS Integers, SequencesExt

CONSTANTS
    PromptLimit,     \* PROMPT_RENDER_LIMIT
    MemoryLimit,     \* PROMPT_MEMORY_RENDER_LIMIT
    HeaderSize,      \* the length of _MEMORY_EVIDENCE_HEADER
    FrameSize,       \* the length of a rendered view without its evidence
    MaxMemoryItems,  \* _MEMORY_VIEW_ITEMS_LIMIT
    EvidenceLimit,   \* _MEMORY_EVIDENCE_LIMIT
    LayoutLimit      \* REPO_LAYOUT_LIMIT

ASSUME PromptAssumption ==
    /\ PromptLimit \in Nat /\ MemoryLimit \in Nat /\ HeaderSize \in Nat
    /\ HeaderSize + MemoryLimit < PromptLimit
    /\ FrameSize \in Nat /\ MaxMemoryItems \in Nat /\ EvidenceLimit \in Nat

Unknown == -1
NoMemory == [mode |-> "none", boundary |-> FALSE, items |-> <<>>]

MemoryModes == {"disabled", "live", "benchmark"}

Lesser(a, b) == IF a <= b THEN a ELSE b

-----------------------------------------------------------------------------
(* Loading.                                                                *)

\* The top-level entries of the checkout, sorted, but for .git and the context file.
RepoLayout(checkout) ==
    LET kept == SelectSeq(checkout.listing, LAMBDA e : ~e.excluded)
    IN  SubSeq(kept, 1, Lesser(Len(kept), LayoutLimit))

\* _mask_forward_refs, on a text that mentions a later change or does not.
Masked(text) == [text EXCEPT !.forward = FALSE]

\* The ten newest tags that were created no later than HEAD; a tag without a date stays.
ReleasesOfGit(checkout) ==
    LET known == SelectSeq(checkout.tags, LAMBDA t : t.day <= checkout.day)
        last  == SubSeq(known, Len(known) - Lesser(Len(known), 10) + 1, Len(known))
    IN  [i \in DOMAIN last |-> Masked(last[i].release)]

\* The first README that has any content, of those that are probed.
ReadmeOfGit(checkout) == SelectInSeq(checkout.readmes, LAMBDA r : r = "text")

\* _context_from_git, for a HEAD that resolves.
ContextFromGit(checkout) ==
    [object |-> TRUE, source |-> "git",
     frozenAt |-> IF checkout.commits = <<>> THEN Unknown ELSE checkout.commits[1].day,
     commits |-> [i \in DOMAIN checkout.commits |-> Masked(checkout.commits[i])],
     prs |-> <<>>, releases |-> ReleasesOfGit(checkout),
     issuesTruncated |-> FALSE, releasesTruncated |-> FALSE,
     memory |-> NoMemory, readme |-> ReadmeOfGit(checkout),
     size |-> checkout.size, layout |-> <<>>]

\* load_context: a file that cannot be read or parsed counts as absent.  The layout is
\* that of the checkout, whatever the file says of it.
Readable(checkout) == checkout.file \notin {"absent", "unreadable"}

\* Without it, HEAD has to resolve, git to run and its output to decode, and the READMEs
\* that are there to open.
LoadFails(checkout) == ~Readable(checkout) /\ ~(checkout.head /\ checkout.legible)

LoadContext(checkout) ==
    LET ctx == IF Readable(checkout) THEN checkout.frozen ELSE ContextFromGit(checkout)
    IN  IF ctx.object THEN [ctx EXCEPT !.layout = RepoLayout(checkout)] ELSE ctx

-----------------------------------------------------------------------------
(* What the prompts see.                                                   *)

\* _memory_view_for_agent: of a malformed view nothing, of another one the bounded
\* evidence of its first items.  The other fields of an item are coerced one by one.
ValidMemory(view) == view.mode \in MemoryModes /\ view.boundary

UsableEvidence(items) ==
    FoldLeft(LAMBDA kept, size :
                 IF size = Unknown THEN kept ELSE Append(kept, Lesser(size, EvidenceLimit)),
             <<>>, items)

MemoryViewForAgent(view) ==
    IF ~ValidMemory(view) THEN NoMemory
    ELSE [view EXCEPT !.items =
             UsableEvidence(SubSeq(@, 1, Lesser(Len(@), MaxMemoryItems)))]

\* The labels of an entry stay where they are those of T.
WithLabelsOfT(prs) ==
    [i \in DOMAIN prs |->
        IF prs[i].labelsAsOfT THEN prs[i] ELSE [prs[i] EXCEPT !.labels = "omitted"]]

\* context_for_agent: no list that is a part of a longer one.
ContextForAgent(ctx) ==
    [ctx EXCEPT
        !.prs = IF ctx.issuesTruncated THEN <<>> ELSE WithLabelsOfT(@),
        !.releases = IF ctx.releasesTruncated THEN <<>> ELSE @,
        !.memory = MemoryViewForAgent(@)]

MemorySize(view) == FrameSize + SumFunction(view.items)

\* Mutant: the repository state has the whole budget, the evidence what it leaves.
PromptBudgetStateFirst(stateSize, evidenceSize) ==
    LET state == Lesser(stateSize, PromptLimit - HeaderSize)
    IN  [evidence |-> Lesser(PromptLimit - HeaderSize - state, evidenceSize), state |-> state]

\* render_prompt_context: how much of the repository state and of the evidence is left.
PromptBudget(stateSize, evidenceSize) ==
    LET evidence == Lesser(MemoryLimit, evidenceSize)
    IN  [evidence |-> evidence,
         state |-> Lesser(stateSize, PromptLimit - HeaderSize - evidence)]

RenderPromptContext(ctx) ==
    LET memory == IF ctx.object THEN MemoryViewForAgent(ctx.memory) ELSE NoMemory
    IN  IF memory = NoMemory THEN [evidence |-> 0, state |-> Lesser(ctx.size, PromptLimit)]
        ELSE PromptBudget(ctx.size, MemorySize(memory))
=============================================================================
