----------------------------- MODULE Repository -----------------------------
(***************************************************************************)
(* The write paths of a Repository: several clients (threads or processes  *)
(* sharing one store) that read a ref's head, build a commit on it and     *)
(* land it by compare-and-swap, with the epoch seals that guard main.      *)
(*                                                                         *)
(* Each action is one storage call and the local work around it, so two    *)
(* clients interleave where the code lets them.  Commits are numbered in   *)
(* the order they are stored; a commit's tree (root), its ancestors and    *)
(* its generation are fixed when it is stored.  One namespace is modelled: *)
(* refs are per namespace and a seal binds only the namespace that owns it.*)
(***************************************************************************)
EXTENDS Naturals, FiniteSets, StateMerge

CONSTANTS
    Client,       \* threads and processes using the store
    Branch,       \* branch names
    Main,         \* the branch "main"
    HashSpec,     \* ref-specs that are a commit's hash rather than a branch
    SpecTarget,   \* the commit each of them names
    Epoch,        \* epoch ids
    SealRef,      \* the ref an epoch's scope seals, NoRef for a Plan scope
    Ops,          \* the operations each client calls
    MaxCommit,    \* bound: commits the store can hold
    MaxAttempts,  \* bound: MAX_REF_CAS_ATTEMPTS
    Strict,       \* epoch_seal_strict
    BranchRefsOnly, \* branch_refs_only: a commit hash is not a ref-spec
    Initialised,  \* whether init has run, or is yet to be called
    NoCommit, NoRef, NoPath, NoEpoch, NoState

RefName == Branch \cup HashSpec
Commit == 1 .. MaxCommit

WriteOps == {"set", "delete", "intent", "spec"}  \* retried read-modify-writes
CasOps == {"cas", "spec_cas"}                    \* one attempt at a given head
MergeOps == {"merge", "merge_checked"}           \* allow_deletions or not
OtherOps == {"init", "branch", "delete_branch", "delete_branch_if", "set_ref",
             "create_epoch", "seal", "archive", "speculate", "crash"}
AllOps == WriteOps \cup CasOps \cup MergeOps \cup OtherOps

ASSUME ConstantsAssumption ==
    /\ Main \in Branch
    /\ Branch \cap HashSpec = {}
    /\ NoRef \notin RefName
    /\ NoPath \notin Path
    /\ NoCommit \notin Nat
    /\ NoEpoch \notin Epoch
    /\ NoState \notin State
    /\ MaxCommit \in Nat \ {0}
    /\ MaxAttempts \in Nat \ {0}
    /\ SpecTarget \in [HashSpec -> Commit]
    /\ SealRef \in [Epoch -> Branch \cup {NoRef}]
    /\ Ops \in [Client -> SUBSET AllOps]
    /\ Strict \in BOOLEAN /\ BranchRefsOnly \in BOOLEAN /\ Initialised \in BOOLEAN

VARIABLES
    last,      \* commits 1..last are stored
    root,      \* each stored commit's state_root
    anc,       \* what reachable_commits_from walks to from each commit
    gen,       \* each commit's generation
    refs,      \* the refs table
    status,    \* each epoch's status, "absent" before create_epoch
    member,    \* commits tagged to each epoch (commits.epoch_id)
    sealed,    \* each epoch's sealed_commits
    pc,        \* what each client does next
    job,       \* the call each client is executing, with its arguments
    work,      \* what the current attempt at it has read and built
    attempt,   \* compare-and-swaps the call has lost
    draft,     \* the client's open speculation
    landed     \* history: <<ref, commit>> acknowledged and not since given up

store == <<last, root, anc, gen>>
epochs == <<status, member, sealed>>
vars == <<store, refs, epochs, pc, job, work, attempt, draft, landed>>

Stored == 1 .. last

NoJob == [op |-> "none", ref |-> NoRef, src |-> NoRef, path |-> NoPath,
          value |-> NoValue, from |-> NoState, to |-> NoState, epoch |-> NoEpoch]
NoWork == [exp |-> NoCommit, isBranch |-> FALSE, src |-> NoCommit, tree |-> NoState,
           new |-> NoCommit, commits |-> {}]
NoDraft == [ref |-> NoRef, from |-> NoState, to |-> NoState]

(* The calls that read a ref, build on it and land the result. *)
Call(op, ref) == [NoJob EXCEPT !.op = op, !.ref = ref]

Used == UNION {Ops[c] : c \in Client}

PathCall(op, r, p, v) == [Call(op, r) EXCEPT !.path = p, !.value = v]
SourceCall(op, r, s) == [Call(op, r) EXCEPT !.src = s]

SetCalls == {PathCall(op, r, p, v) :
                op \in Used \cap {"set", "cas"}, r \in RefName, p \in Path, v \in Value}
DeleteCalls == {PathCall(op, r, p, NoValue) :
                   op \in Used \cap {"delete"}, r \in RefName, p \in Path}
IntentCalls == {Call(op, r) : op \in Used \cap {"intent"}, r \in RefName}
SourceCalls == {SourceCall(op, r, s) :
                   op \in Used \cap ({"branch"} \cup MergeOps), r \in RefName, s \in RefName}
Calls == SetCalls \cup DeleteCalls \cup IntentCalls \cup SourceCalls

(* Client c makes call j of one of the kinds ops, or is back at its first  *)
(* step to try it again.                                                   *)
Enters(c, j, ops, first) ==
    \/ pc[c] = "idle" /\ j \in Calls /\ j.op \in Ops[c] \cap ops
    \/ pc[c] = first /\ j = job[c]

(* The call is over, with Ok or with an error. *)
Return(c) ==
    /\ pc' = [pc EXCEPT ![c] = "idle"]
    /\ job' = [job EXCEPT ![c] = NoJob]
    /\ work' = [work EXCEPT ![c] = NoWork]
    /\ attempt' = [attempt EXCEPT ![c] = 0]

(* Call j goes on at step p with w read and built so far. *)
Enter(c, j, p, w) ==
    /\ pc' = [pc EXCEPT ![c] = p]
    /\ job' = [job EXCEPT ![c] = j]
    /\ work' = [work EXCEPT ![c] = w]
    /\ UNCHANGED attempt

Continue(c, p, w) ==
    /\ pc' = [pc EXCEPT ![c] = p]
    /\ work' = [work EXCEPT ![c] = w]
    /\ UNCHANGED <<job, attempt>>

(***************************************************************************)
(* Refs and commits.                                                       *)
(***************************************************************************)

(* resolve_ref: a branch by name, then a commit by its hash. *)
Resolve(r) ==
    IF refs[r] # NoCommit THEN refs[r]
    ELSE IF r \in HashSpec /\ ~BranchRefsOnly /\ SpecTarget[r] \in Stored
         THEN SpecTarget[r] ELSE NoCommit

(* The acknowledged commits left when ref r is dropped or moved at will. *)
Forget(r) == {l \in landed : l[1] # r}

(* Mutant of MergeBases: a common ancestor of least generation. *)
FirstMergeBases(a, b) ==
    {k \in anc[a] \cap anc[b] : \A j \in anc[a] \cap anc[b] : gen[k] <= gen[j]}

(* find_common_ancestor: a common ancestor of greatest generation.  The    *)
(* code breaks ties by commit id, a hash, so any of them may be the one.   *)
MergeBases(a, b) ==
    {k \in anc[a] \cap anc[b] : \A j \in anc[a] \cap anc[b] : gen[j] <= gen[k]}

(* put_commit of a commit with tree s. *)
PutCommit(s, ancestors, generation) ==
    /\ last < MaxCommit
    /\ last' = last + 1
    /\ root' = [root EXCEPT ![last + 1] = s]
    /\ anc' = [anc EXCEPT ![last + 1] = {last + 1} \cup ancestors]
    /\ gen' = [gen EXCEPT ![last + 1] = generation]

(* Mutant of NewRoot: a speculation's tree replaces the head's. *)
NewRootUnmerged(c) ==
    LET s == root[work[c].exp]
    IN  CASE job[c].op \in {"set", "cas"} -> TreeSet(s, job[c].path, job[c].value)
          [] job[c].op = "delete" -> TreeSet(s, job[c].path, NoValue)
          [] job[c].op \in {"spec", "spec_cas"} -> job[c].to
          [] job[c].op \in MergeOps -> work[c].tree
          [] OTHER -> s

(* The tree a call builds on the head it read. *)
NewRoot(c) ==
    LET s == root[work[c].exp]
    IN  CASE job[c].op \in {"set", "cas"} -> TreeSet(s, job[c].path, job[c].value)
          [] job[c].op = "delete" -> TreeSet(s, job[c].path, NoValue)
          [] job[c].op = "spec" -> MergeStates(job[c].from, job[c].to, s)
          [] job[c].op = "spec_cas" -> job[c].to
          [] job[c].op \in MergeOps -> work[c].tree
          [] OTHER -> s

IsSealed(e) == status[e] \in {"Sealed", "Archived"}

(* check_epoch_seal_violations of a ref about to point at commit k. *)
BreaksSeal(k) == \E e \in Epoch : IsSealed(e) /\ ~(sealed[e] \subseteq anc[k])

(***************************************************************************)
(* The read-modify-write loop of set, delete, write_taint_intent and       *)
(* commit_speculation, and what the other writes share with it.            *)
(***************************************************************************)

(* Call j goes on from head h: get_commit, and tree_delete's error for an  *)
(* absent path.                                                            *)
BuildOn(c, j, h, isBranch) ==
    IF j.op = "delete" /\ root[h][j.path] = NoValue
    THEN Return(c)
    ELSE Enter(c, j, "commit", [NoWork EXCEPT !.exp = h, !.isBranch = isBranch])

(* head_for_write reads the ref.  Only if it is there is it a branch.      *)
ReadHead(c, j) ==
    /\ Enters(c, j, WriteOps, "head")
    /\ IF refs[j.ref] = NoCommit
       THEN Enter(c, j, "resolve", NoWork)
       ELSE BuildOn(c, j, refs[j.ref], TRUE)
    /\ UNCHANGED <<store, refs, epochs, draft, landed>>

(* If it is not, resolve_ref reads it a second time: it may find a branch  *)
(* created meanwhile, which head_for_write still reports as none.          *)
ResolveHead(c) ==
    LET h == Resolve(job[c].ref)
    IN  /\ pc[c] = "resolve"
        /\ IF h = NoCommit THEN Return(c)
           ELSE IF job[c].op \in MergeOps THEN Continue(c, "source", NoWork)
           ELSE BuildOn(c, job[c], h, FALSE)
        /\ UNCHANGED <<store, refs, epochs, draft, landed>>

(* The caller reads the head (Repository::head), then calls set_json_cas   *)
(* with it; from records the tree it saw.                                  *)
SetCas(c, j) ==
    LET h == Resolve(j.ref)
    IN  /\ Enters(c, j, {"cas"}, "none")
        /\ h # NoCommit
        /\ Enter(c, [j EXCEPT !.from = root[h]], "commit",
                 [NoWork EXCEPT !.exp = h, !.isBranch = TRUE])
        /\ UNCHANGED <<store, refs, epochs, draft, landed>>

(* Repository::set_ref to a stored commit k: the seals are checked, then   *)
(* the ref moves.                                                          *)
SetRef(c, r, k) ==
    /\ pc[c] = "idle" /\ "set_ref" \in Ops[c]
    /\ ~(r = Main /\ Strict /\ BreaksSeal(k))
    /\ Enter(c, Call("set_ref", r), "move", [NoWork EXCEPT !.new = k])
    /\ UNCHANGED <<store, refs, epochs, draft, landed>>

(* create_commit: the commit is stored, then tagged to the active epoch if *)
(* there is one, which fails unless that epoch is Active (the commit stays *)
(* behind, unreachable).  The active epoch is a setting of the client's    *)
(* Repository value, so any epoch may be it.                               *)
CreateCommit(c) ==
    LET h == work[c].exp
        q == IF job[c].op \in MergeOps THEN work[c].src ELSE h  \* the other parent
    IN  /\ pc[c] = "commit"
        /\ PutCommit(NewRoot(c), anc[h] \cup anc[q],
                     1 + IF gen[h] >= gen[q] THEN gen[h] ELSE gen[q])
        /\ \/ /\ Continue(c, "check", [work[c] EXCEPT !.new = last + 1])
              /\ UNCHANGED member
           \/ \E e \in Epoch :
                 /\ status[e] = "Active"
                 /\ member' = [member EXCEPT ![e] = @ \cup {last + 1}]
                 /\ Continue(c, "check", [work[c] EXCEPT !.new = last + 1])
           \/ /\ \E e \in Epoch : status[e] # "Active"
              /\ Return(c)
              /\ UNCHANGED member
        /\ UNCHANGED <<refs, status, sealed, draft, landed>>

(* enforce_epoch_seals, before the ref moves. *)
CheckSeals(c) ==
    /\ pc[c] = "check"
    /\ IF job[c].ref = Main /\ Strict /\ BreaksSeal(work[c].new)
       THEN Return(c)
       ELSE Continue(c, "move", work[c])
    /\ UNCHANGED <<store, refs, epochs, draft, landed>>

(* Mutant of MoveBranch: set_ref instead of cas_ref. *)
MoveBlindly(c) ==
    /\ pc[c] = "move"
    /\ work[c].isBranch
    /\ refs' = [refs EXCEPT ![job[c].ref] = work[c].new]
    /\ landed' = landed \cup {<<job[c].ref, work[c].new>>}
    /\ Return(c)
    /\ UNCHANGED <<store, epochs, draft>>

(* advance_ref's cas_ref won. *)
MoveBranch(c) ==
    /\ pc[c] = "move"
    /\ work[c].isBranch
    /\ refs[job[c].ref] = work[c].exp
    /\ refs' = [refs EXCEPT ![job[c].ref] = work[c].new]
    /\ landed' = landed \cup {<<job[c].ref, work[c].new>>}
    /\ Return(c)
    /\ UNCHANGED <<store, epochs, draft>>

(* Mutant of LoseRace: no bound on the attempts. *)
LoseRaceForever(c) ==
    /\ pc[c] = "move"
    /\ work[c].isBranch
    /\ refs[job[c].ref] # work[c].exp
    /\ IF job[c].op \in CasOps
       THEN Return(c)
       ELSE Continue(c, IF job[c].op \in MergeOps THEN "kind" ELSE "head", NoWork)
    /\ UNCHANGED <<store, refs, epochs, draft, landed>>

(* Mutant of LoseRace: one attempt too many. *)
LoseRaceOnceMore(c) ==
    /\ pc[c] = "move"
    /\ work[c].isBranch
    /\ refs[job[c].ref] # work[c].exp
    /\ IF job[c].op \in CasOps \/ attempt[c] = MaxAttempts
       THEN Return(c)
       ELSE /\ pc' = [pc EXCEPT ![c] = IF job[c].op \in MergeOps THEN "kind" ELSE "head"]
            /\ work' = [work EXCEPT ![c] = NoWork]
            /\ attempt' = [attempt EXCEPT ![c] = @ + 1]
            /\ UNCHANGED job
    /\ UNCHANGED <<store, refs, epochs, draft, landed>>

(* Mutant of LoseRace: compare again with the new head, without building   *)
(* on it.                                                                  *)
LoseRaceKeepCommit(c) ==
    /\ pc[c] = "move"
    /\ work[c].isBranch
    /\ refs[job[c].ref] # work[c].exp
    /\ IF job[c].op \in CasOps \/ refs[job[c].ref] = NoCommit
       THEN Return(c)
       ELSE Continue(c, "check", [work[c] EXCEPT !.exp = refs[job[c].ref]])
    /\ UNCHANGED <<store, refs, epochs, draft, landed>>

(* cas_ref lost: rebuild on the new head, or give up with WriteConflict. *)
LoseRace(c) ==
    /\ pc[c] = "move"
    /\ work[c].isBranch
    /\ refs[job[c].ref] # work[c].exp
    /\ IF job[c].op \in CasOps \/ attempt[c] + 1 = MaxAttempts
       THEN Return(c)
       ELSE /\ pc' = [pc EXCEPT ![c] = IF job[c].op \in MergeOps THEN "kind" ELSE "head"]
            /\ work' = [work EXCEPT ![c] = NoWork]
            /\ attempt' = [attempt EXCEPT ![c] = @ + 1]
            /\ UNCHANGED job
    /\ UNCHANGED <<store, refs, epochs, draft, landed>>

(* Ref moves that promise nothing to those before them: set_ref, and a     *)
(* write to a commit hash.                                                 *)
AtWill(c) == job[c].op = "set_ref" \/ job[c].ref \in HashSpec

(* guarded_set_ref: set_ref, and a write that found no ref at its first    *)
(* read, move the ref whatever it points at now.                           *)
MoveAnyway(c) ==
    /\ pc[c] = "move"
    /\ ~work[c].isBranch
    /\ refs' = [refs EXCEPT ![job[c].ref] = work[c].new]
    /\ landed' = (IF AtWill(c) THEN Forget(job[c].ref) ELSE landed)
                     \cup {<<job[c].ref, work[c].new>>}
    /\ Return(c)
    /\ UNCHANGED <<store, epochs, draft>>

(***************************************************************************)
(* merge and merge_checked.                                                *)
(***************************************************************************)

(* try_merge_checked's head_for_write: of its reads (this one and, if it   *)
(* finds nothing, ResolveHead) only whether the target is a branch is kept.*)
MergeKind(c, j) ==
    /\ Enters(c, j, MergeOps, "kind")
    /\ IF refs[j.ref] = NoCommit
       THEN Enter(c, j, "resolve", NoWork)
       ELSE Enter(c, j, "source", [NoWork EXCEPT !.isBranch = TRUE])
    /\ UNCHANGED <<store, refs, epochs, draft, landed>>

(* compute_merge resolves the source, then the target. *)
MergeSource(c) ==
    /\ pc[c] = "source"
    /\ IF Resolve(job[c].src) = NoCommit
       THEN Return(c)
       ELSE Continue(c, "target", [work[c] EXCEPT !.src = Resolve(job[c].src)])
    /\ UNCHANGED <<store, refs, epochs, draft, landed>>

(* The rest of compute_merge against target head h and merge base b, and   *)
(* what try_merge_checked makes of its result.                             *)
MergeOnto(c, h, b) ==
    LET ours == root[h]
        theirs == root[work[c].src]
        merged == MergeStates(root[b], ours, theirs)
        ff == IsFastForward(root[b], ours, theirs)
        ffCommit == IF FastForwardRoot(root[b], ours, theirs) = theirs THEN work[c].src ELSE h
        fails == \/ Conflicts(root[b], ours, theirs) # {} /\ ~ff
                 \/ /\ job[c].op = "merge_checked"
                    /\ \E p \in Path : ours[p] # NoValue /\ merged[p] = NoValue
    IN  IF fails THEN Return(c)
        ELSE IF ff
        THEN Continue(c, "check", [work[c] EXCEPT !.exp = h, !.tree = merged, !.new = ffCommit])
        ELSE Continue(c, "commit", [work[c] EXCEPT !.exp = h, !.tree = merged])

MergeTarget(c) ==
    LET h == Resolve(job[c].ref)
    IN  /\ pc[c] = "target"
        /\ \/ h = NoCommit /\ Return(c)
           \/ h # NoCommit /\ MergeBases(work[c].src, h) = {} /\ Return(c)
           \/ h # NoCommit /\ \E b \in MergeBases(work[c].src, h) : MergeOnto(c, h, b)
        /\ UNCHANGED <<store, refs, epochs, draft, landed>>

(***************************************************************************)
(* init, branch and the two deletions.                                     *)
(***************************************************************************)
InitRead(c) ==
    /\ pc[c] = "idle" /\ "init" \in Ops[c]
    /\ refs[Main] = NoCommit
    /\ PutCommit(EmptyState, {}, 0)
    /\ Enter(c, Call("init", Main), "create", [NoWork EXCEPT !.new = last + 1])
    /\ UNCHANGED <<refs, epochs, draft, landed>>

ForkRead(c, j) ==
    LET k == Resolve(j.src)
    IN  /\ Enters(c, j, {"branch"}, "none")
        /\ refs[j.ref] = NoCommit /\ k # NoCommit
        /\ Enter(c, j, "create", [NoWork EXCEPT !.src = k, !.new = k])
        /\ UNCHANGED <<store, refs, epochs, draft, landed>>

(* Mutant of CreateRef: set_ref instead of create_ref. *)
CreateRefAnyway(c) ==
    /\ pc[c] = "create"
    /\ refs' = [refs EXCEPT ![job[c].ref] = work[c].new]
    /\ landed' = landed \cup {<<job[c].ref, work[c].new>>}
    /\ Return(c)
    /\ UNCHANGED <<store, epochs, draft>>

(* create_ref of init and branch: only if the ref is absent. *)
CreateRef(c) ==
    /\ pc[c] = "create"
    /\ IF refs[job[c].ref] = NoCommit
       THEN /\ refs' = [refs EXCEPT ![job[c].ref] = work[c].new]
            /\ landed' = landed \cup {<<job[c].ref, work[c].new>>}
       ELSE UNCHANGED <<refs, landed>>
    /\ Return(c)
    /\ UNCHANGED <<store, epochs, draft>>

(* delete_branch, and delete_branch_if's cas_delete_ref at the head k the  *)
(* caller read; both refuse main.                                          *)
DropRef(c, r) ==
    /\ r # Main
    /\ refs[r] # NoCommit
    /\ refs' = [refs EXCEPT ![r] = NoCommit]
    /\ landed' = Forget(r)
    /\ UNCHANGED <<store, epochs, pc, job, work, attempt, draft>>

DeleteBranch(c, r) ==
    /\ pc[c] = "idle" /\ "delete_branch" \in Ops[c]
    /\ DropRef(c, r)

DeleteBranchIf(c, r, k) ==
    /\ pc[c] = "idle" /\ "delete_branch_if" \in Ops[c]
    /\ refs[r] = k
    /\ DropRef(c, r)

(***************************************************************************)
(* Speculations, one open per client.                                      *)
(***************************************************************************)
Speculate(c, r) ==
    /\ pc[c] = "idle" /\ "speculate" \in Ops[c]
    /\ draft[c] = NoDraft
    /\ Resolve(r) # NoCommit
    /\ draft' = [draft EXCEPT ![c] = [ref |-> r, from |-> root[Resolve(r)],
                                      to |-> root[Resolve(r)]]]
    /\ UNCHANGED <<store, refs, epochs, pc, job, work, attempt, landed>>

(* spec_set, and (v = NoValue) spec_delete of a path that is there. *)
SpecSet(c, p, v) ==
    /\ pc[c] = "idle" /\ draft[c] # NoDraft
    /\ v = NoValue => draft[c].to[p] # NoValue
    /\ draft' = [draft EXCEPT ![c].to = TreeSet(@, p, v)]
    /\ UNCHANGED <<store, refs, epochs, pc, job, work, attempt, landed>>

Discard(c) ==
    /\ pc[c] = "idle" /\ draft[c] # NoDraft
    /\ draft' = [draft EXCEPT ![c] = NoDraft]
    /\ UNCHANGED <<store, refs, epochs, pc, job, work, attempt, landed>>

(* commit_speculation consumes the handle, then lands its changes. *)
CommitSpec(c) ==
    /\ pc[c] = "idle" /\ draft[c] # NoDraft /\ "spec" \in Ops[c]
    /\ draft' = [draft EXCEPT ![c] = NoDraft]
    /\ job' = [job EXCEPT ![c] = [Call("spec", draft[c].ref) EXCEPT
                                     !.from = draft[c].from, !.to = draft[c].to]]
    /\ pc' = [pc EXCEPT ![c] = "head"]
    /\ UNCHANGED <<store, refs, epochs, work, attempt, landed>>

(* The caller reads the head, then calls commit_speculation_cas with it;   *)
(* refused unless the speculation forked from the tree there.              *)
CommitSpecCas(c) ==
    LET h == Resolve(draft[c].ref)
    IN  /\ pc[c] = "idle" /\ draft[c] # NoDraft /\ "spec_cas" \in Ops[c]
        /\ h # NoCommit
        /\ draft' = [draft EXCEPT ![c] = NoDraft]
        /\ IF root[h] # draft[c].from
           THEN UNCHANGED <<pc, job, work, attempt>>
           ELSE Enter(c, [Call("spec_cas", draft[c].ref) EXCEPT
                             !.from = draft[c].from, !.to = draft[c].to],
                      "commit", [NoWork EXCEPT !.exp = h, !.isBranch = TRUE])
        /\ UNCHANGED <<store, refs, epochs, landed>>

(***************************************************************************)
(* Epochs.                                                                 *)
(***************************************************************************)
CreateEpoch(c, e) ==
    /\ pc[c] = "idle" /\ "create_epoch" \in Ops[c]
    /\ status[e] = "absent"
    /\ status' = [status EXCEPT ![e] = "Active"]
    /\ UNCHANGED <<store, refs, member, sealed, pc, job, work, attempt, draft, landed>>

(* What seal_epoch finds its scope to cover. *)
SealScope(e) ==
    IF SealRef[e] = NoRef THEN member[e]
    ELSE IF refs[SealRef[e]] = NoCommit THEN {} ELSE anc[refs[SealRef[e]]]

SealRead(c, e) ==
    /\ pc[c] = "idle" /\ "seal" \in Ops[c]
    /\ status[e] # "absent"
    /\ job' = [job EXCEPT ![c] = [NoJob EXCEPT !.op = "seal", !.epoch = e]]
    /\ work' = [work EXCEPT ![c] = [NoWork EXCEPT !.commits = SealScope(e)]]
    /\ pc' = [pc EXCEPT ![c] = "seal"]
    /\ UNCHANGED <<store, refs, epochs, attempt, draft, landed>>

(* Mutant of SealWrite: unconditional. *)
SealWriteAlways(c) ==
    LET e == job[c].epoch
    IN  /\ pc[c] = "seal"
        /\ status' = [status EXCEPT ![e] = "Sealed"]
        /\ sealed' = [sealed EXCEPT ![e] = work[c].commits]
        /\ Return(c)
        /\ UNCHANGED <<store, refs, member, draft, landed>>

(* One conditional update, which only an Active epoch satisfies. *)
SealWrite(c) ==
    LET e == job[c].epoch
    IN  /\ pc[c] = "seal"
        /\ IF status[e] = "Active"
           THEN /\ status' = [status EXCEPT ![e] = "Sealed"]
                /\ sealed' = [sealed EXCEPT ![e] = work[c].commits]
           ELSE UNCHANGED <<status, sealed>>
        /\ Return(c)
        /\ UNCHANGED <<store, refs, member, draft, landed>>

ArchiveEpoch(c, e) ==
    /\ pc[c] = "idle" /\ "archive" \in Ops[c]
    /\ status[e] = "Sealed"
    /\ status' = [status EXCEPT ![e] = "Archived"]
    /\ UNCHANGED <<store, refs, member, sealed, pc, job, work, attempt, draft, landed>>

(* The client's process stops: its call and its speculation are gone. *)
Crash(c) ==
    /\ "crash" \in Ops[c]
    /\ pc[c] # "idle" \/ draft[c] # NoDraft
    /\ Return(c)
    /\ draft' = [draft EXCEPT ![c] = NoDraft]
    /\ UNCHANGED <<store, refs, epochs, landed>>

(***************************************************************************)
(* The specification.                                                      *)
(***************************************************************************)
Init ==
    /\ last = IF Initialised THEN 1 ELSE 0
    /\ root = [k \in Commit |-> EmptyState]
    /\ anc = [k \in Commit |-> IF k = 1 /\ Initialised THEN {1} ELSE {}]
    /\ gen = [k \in Commit |-> 0]
    /\ refs = [r \in RefName |-> IF r = Main /\ Initialised THEN 1 ELSE NoCommit]
    /\ status = [e \in Epoch |-> "absent"]
    /\ member = [e \in Epoch |-> {}]
    /\ sealed = [e \in Epoch |-> {}]
    /\ pc = [c \in Client |-> "idle"]
    /\ job = [c \in Client |-> NoJob]
    /\ work = [c \in Client |-> NoWork]
    /\ attempt = [c \in Client |-> 0]
    /\ draft = [c \in Client |-> NoDraft]
    /\ landed = IF Initialised THEN {<<Main, 1>>} ELSE {}

Start(c) ==
    \/ \E j \in Calls : ReadHead(c, j) \/ SetCas(c, j) \/ MergeKind(c, j) \/ ForkRead(c, j)
    \/ \E r \in Branch, k \in Stored : SetRef(c, r, k)
    \/ \E r \in RefName, k \in Stored : DeleteBranchIf(c, r, k)
    \/ \E r \in RefName : DeleteBranch(c, r) \/ Speculate(c, r)
    \/ \E p \in Path, v \in Value \cup {NoValue} : SpecSet(c, p, v)
    \/ Discard(c)
    \/ CommitSpec(c)
    \/ CommitSpecCas(c)
    \/ \E e \in Epoch : CreateEpoch(c, e) \/ SealRead(c, e) \/ ArchiveEpoch(c, e)
    \/ InitRead(c)

(* What a client does once its call has begun. *)
Step(c) ==
    \/ ReadHead(c, job[c]) \/ ResolveHead(c) \/ CreateCommit(c) \/ CheckSeals(c)
    \/ MoveBranch(c) \/ LoseRace(c) \/ MoveAnyway(c)
    \/ MergeKind(c, job[c]) \/ MergeSource(c) \/ MergeTarget(c)
    \/ CreateRef(c)
    \/ SealWrite(c)

Next == \E c \in Client : Start(c) \/ Step(c) \/ Crash(c)

Spec == Init /\ [][Next]_vars

(* A thread that has started a call keeps running it. *)
FairSpec == Spec /\ \A c \in Client : WF_vars(Step(c))

(***************************************************************************)
(* Properties.                                                             *)
(***************************************************************************)
Steps == {"idle", "head", "resolve", "commit", "check", "move", "kind", "source", "target",
          "create", "seal"}
Job == [op : AllOps \cup {"none"}, ref : RefName \cup {NoRef}, src : RefName \cup {NoRef},
        path : Path \cup {NoPath}, value : Value \cup {NoValue},
        from : State \cup {NoState}, to : State \cup {NoState}, epoch : Epoch \cup {NoEpoch}]
Work == [exp : Commit \cup {NoCommit}, isBranch : BOOLEAN, src : Commit \cup {NoCommit},
         tree : State \cup {NoState}, new : Commit \cup {NoCommit}, commits : SUBSET Commit]
Draft == [ref : RefName, from : State, to : State]

StoreType ==
    /\ last \in 0 .. MaxCommit
    /\ root \in [Commit -> State]
    /\ anc \in [Commit -> SUBSET Commit]
    /\ gen \in [Commit -> Nat]

RefsType ==
    /\ refs \in [RefName -> Commit \cup {NoCommit}]
    /\ landed \subseteq RefName \X Commit

EpochsType ==
    /\ status \in [Epoch -> {"absent", "Active", "Sealed", "Archived"}]
    /\ member \in [Epoch -> SUBSET Commit]
    /\ sealed \in [Epoch -> SUBSET Commit]

LocalType ==
    /\ pc \in [Client -> Steps]
    /\ job \in [Client -> Job]
    /\ work \in [Client -> Work]
    /\ attempt \in [Client -> 0 .. (MaxAttempts - 1)]

DraftType == draft \in [Client -> Draft \cup {NoDraft}]

(* Every variable has its type. *)
TypeOK == StoreType /\ RefsType /\ EpochsType /\ LocalType /\ DraftType

(* A commit whose writer was told it landed on a ref is still on it. *)
Held(l) == refs[l[1]] # NoCommit /\ l[2] \in anc[refs[l[1]]]

(* No lost update: a commit whose writer was told it landed on a ref stays *)
(* an ancestor of that ref, whatever other clients do, until someone drops *)
(* the ref or moves it at will (delete_branch, set_ref, a write to a       *)
(* commit hash).                                                           *)
LandedReachable == \A l \in landed : Held(l)

(* The same of main, which is never dropped.                               *)
MainKeepsLanded == \A l \in landed : l[1] = Main => Held(l)

(* A write that found no ref at its first read moves it, or a merge moves  *)
(* it to a commit that does not descend from its head.                     *)
LateMove(r) == \E c \in Client : MoveAnyway(c) /\ ~AtWill(c) /\ job[c].ref = r
LossyMerge(r) ==
    \E c \in Client : /\ MoveBranch(c) /\ job[c].op \in MergeOps /\ job[c].ref = r
                      /\ work[c].exp \notin anc[work[c].new]

(* These two are the only steps that take an acknowledged commit off its   *)
(* ref: retries, compare-and-swaps, creations, speculations, crashes and   *)
(* seals never do, in whatever order clients take them.                    *)
LossesExplained ==
    [][\A l \in landed' : (l \in landed => Held(l)) =>
          Held(l)' \/ LateMove(l[1]) \/ LossyMerge(l[1])]_vars

(* No commit of a sealed epoch is orphaned: main reaches every one.  This  *)
(* is what enforce_epoch_seals protects and GC relies on.                  *)
SealedReachable ==
    \A e \in Epoch : IsSealed(e) /\ sealed[e] # {} =>
        refs[Main] # NoCommit /\ sealed[e] \subseteq anc[refs[Main]]

(* When no call is in flight, main accepts writes: its own head satisfies  *)
(* every seal, so a commit on top of it does.                              *)
MainWritable ==
    (\A c \in Client : pc[c] = "idle") /\ refs[Main] # NoCommit => ~BreaksSeal(refs[Main])

(* A seal is final: of two clients sealing an epoch at once, each with its *)
(* own reading of what it covers, one wins and nothing changes it later;   *)
(* the epoch's membership stops growing too.                               *)
SealFinal ==
    [][\A e \in Epoch : IsSealed(e) =>
          IsSealed(e)' /\ sealed'[e] = sealed[e] /\ member'[e] = member[e]]_vars

(* Commits of a that b does not have, and the last ones both have. *)
OwnCommits(a, b) == anc[a] \ anc[b]
ForkPoints(a, b) ==
    {k \in anc[a] \cap anc[b] : \A j \in anc[a] \cap anc[b] : k \in anc[j] => j = k}

(* Since it forked from b, a has not changed path p. *)
Untouched(p, a, b) ==
    \A k \in OwnCommits(a, b) \cup ForkPoints(a, b) : root[k][p] = root[a][p]

(* A merge undoes nobody's work: what it is about to land has the target's *)
(* value wherever the source has changed nothing since the two forked, and *)
(* the source's wherever the target has not, so the base it merged against *)
(* is not older than their fork point.                                     *)
MergeKeepsWork ==
    \A c \in Client : pc[c] = "move" /\ job[c].op \in MergeOps =>
        LET merged == root[work[c].new]
            ours == work[c].exp
            theirs == work[c].src
        IN  \A p \in Path : /\ Untouched(p, theirs, ours) => merged[p] = root[ours][p]
                            /\ Untouched(p, ours, theirs) => merged[p] = root[theirs][p]

(* Every call ends: a client that keeps running returns from it however    *)
(* often others move its ref, unless the modelled store has no room for    *)
(* its commit.                                                             *)
Termination ==
    \A c \in Client : pc[c] # "idle" ~> (pc[c] = "idle" \/ (pc[c] = "commit" /\ last = MaxCommit))

(* A write or merge that found no ref of its name at its first read. *)
Missed ==
    {c \in Client : /\ job[c].op \in WriteOps \cup MergeOps /\ ~work[c].isBranch
                    /\ pc[c] \in {"resolve", "source", "target", "commit", "check", "move"}}

Abstract == INSTANCE AtomicBranches WITH
    Detached <- HashSpec,
    val <- [r \in RefName |-> IF refs[r] = NoCommit THEN NoState ELSE root[refs[r]]],
    known <- {root[k] : k \in Stored},
    named <- [r \in HashSpec |-> IF BranchRefsOnly \/ SpecTarget[r] \notin Stored THEN NoState
                                 ELSE root[SpecTarget[r]]],
    job <- [c \in Client |-> IF job[c].op \in {"init", "set_ref", "seal"} THEN NoJob ELSE job[c]],
    snapshot <- [c \in Client |-> IF work[c].src = NoCommit THEN NoState
                                  ELSE root[work[c].src]],
    missed <- Missed,
    base <- [c \in Client |-> IF c \notin Missed \/ work[c].exp = NoCommit THEN NoState
                              ELSE root[work[c].exp]]

(* Each call takes effect at one instant, on the state its ref holds then, *)
(* or not at all: the reads, retries, speculations and merges of clients   *)
(* running together implement AtomicBranches.                              *)
AtomicEffect == Abstract!Spec

(* The same but for a write whose ref was created under it, which takes    *)
(* effect on the state it had read.                                        *)
AtomicUnlessLate == Abstract!LateSpec
=============================================================================
