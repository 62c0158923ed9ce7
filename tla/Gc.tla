--------------------------------- MODULE Gc ---------------------------------
(***************************************************************************)
(* Garbage collection of a store its clients keep writing.                 *)
(*                                                                         *)
(* A write stores the objects of its new tree, then a commit that names    *)
(* the tree's root, and only then moves a ref; a sweep in between finds    *)
(* objects no ref reaches.  What saves them is their age: a sweep spares   *)
(* what was written less than Grace ago, and storing an object again makes *)
(* it young again once it is older than FreshenAfter.  What an open        *)
(* speculation has written is saved by its pins.                           *)
(*                                                                         *)
(* Time passes in ticks.  The written_at and updated_at stamps of the code *)
(* are ages here, which no longer grow once they are past every limit.  A  *)
(* sweep holds the store's write lock from its keep-set to its last delete *)
(* and is one step; every other storage call is a step of its own.         *)
(***************************************************************************)
EXTENDS Naturals, FiniteSets, StateMerge

CONSTANTS
    Client, Branch, Main,
    Ops,          \* the operations each client calls
    Writes,       \* the <<branch, path>> each client writes to
    Sources,      \* the branches that are forked or merged from
    Targets,      \* the branches that are merged into
    Policy,       \* the retention policies sweeps run with
    MaxCommit,    \* bound: commits the store can hold
    Grace,        \* gc_grace
    FreshenAfter, \* GC_FRESHEN_AFTER
    WriteTime,    \* bound: how long a call takes from the first object it stores
    PinAge,       \* GC_PIN_MAX_AGE
    NoCommit, NoRef, NoState, NoPath, Absent, NotHeld

Commit == 1 .. MaxCommit
OldAge == Grace + 1      \* of an object past the grace period

WriteOps == {"set", "checkpoint", "delete"}
AllOps == WriteOps \cup {"merge", "branch", "delete_branch", "speculate", "spec", "seal", "crash"}

(* A write's objects, and those it stored onto, outlive the write. *)
ASSUME TimeAssumption ==
    /\ {Grace, FreshenAfter, WriteTime, PinAge} \subseteq Nat
    /\ WriteTime + FreshenAfter <= Grace

ASSUME GcAssumption ==
    /\ Main \in Branch
    /\ State \cap (Value \cup {NoValue}) = {}
    /\ MaxCommit \in Nat \ {0}
    /\ NoCommit \notin Nat /\ NoState \notin State
    /\ Absent \notin Nat /\ NotHeld \notin Nat
    /\ Policy \subseteq [keepRecent : Nat, checkpointEvery : Nat, milestones : BOOLEAN]
    /\ Ops \in [Client -> SUBSET AllOps]
    /\ Writes \in [Client -> SUBSET (Branch \X Path)]
    /\ Sources \subseteq Branch /\ Targets \subseteq Branch

VARIABLES
    age,        \* how long ago each object was written, Absent if it is not stored
    last,       \* commits 1..last are stored
    root,       \* each commit's state_root
    anc,        \* its ancestors, itself included
    gen,        \* its generation
    refs,       \* the refs table
    tagged,     \* commits that are checkpoints asking for their state to be kept
    cursor,     \* history extraction's commit_cursor
    milestones, \* state roots of the milestones it has recorded
    sealed,     \* commits of the sealed epochs
    pc, job, work, \* each client's call
    held,       \* time since the call stored its first object, NotHeld before
    draft,      \* each client's open speculation
    pins        \* the gc_pending_roots rows of each client's speculation

objects == <<age>>
commits == <<last, root, anc, gen, tagged>>
history == <<cursor, milestones>>
local == <<pc, job, work, held>>
vars == <<objects, commits, refs, history, sealed, local, draft, pins>>

Object == State \cup Value
Stored == 1 .. last
Present == {o \in Object : age[o] # Absent}

NoJob == [op |-> "none", ref |-> NoRef, src |-> NoRef, path |-> NoPath, value |-> NoValue,
          from |-> NoState, to |-> NoState]
NoWork == [exp |-> NoCommit, src |-> NoCommit, base |-> NoCommit, tree |-> NoState,
           new |-> NoCommit]
NoDraft == [ref |-> NoRef, from |-> NoState, to |-> NoState]
NoPin == [root |-> NoState, age |-> 0]
NoPins == [base |-> NoPin, cur |-> NoPin]

(***************************************************************************)
(* Objects.                                                                *)
(***************************************************************************)

(* The objects of tree s: its root node and the values it holds. *)
Tree(s) == {s} \cup ({s[p] : p \in Path} \ {NoValue})

Readable(s) == Tree(s) \subseteq Present

(* Mutant of Put: INSERT OR IGNORE. *)
PutNew(os) ==
    age' = [o \in Object |-> IF o \in os /\ age[o] = Absent THEN 0 ELSE age[o]]

(* put_object of each of os: a stored object is freshened if it is old. *)
Put(os) ==
    age' = [o \in Object |-> IF /\ o \in os
                                /\ age[o] = Absent \/ age[o] > FreshenAfter
                             THEN 0 ELSE age[o]]

(* first_missing_new finds nothing: what tree s adds to tree b is stored. *)
NewStored(b, s) ==
    \/ b = s
    \/ /\ s \in Present
       /\ \A p \in Path : s[p] \in Present \cup {NoValue} \/ (b \in Present /\ s[p] = b[p])

(***************************************************************************)
(* Calls.                                                                  *)
(***************************************************************************)
Return(c) ==
    /\ pc' = [pc EXCEPT ![c] = "idle"]
    /\ job' = [job EXCEPT ![c] = NoJob]
    /\ work' = [work EXCEPT ![c] = NoWork]
    /\ held' = [held EXCEPT ![c] = NotHeld]

Enter(c, j, p, w, h) ==
    /\ pc' = [pc EXCEPT ![c] = p]
    /\ job' = [job EXCEPT ![c] = j]
    /\ work' = [work EXCEPT ![c] = w]
    /\ held' = [held EXCEPT ![c] = h]

Continue(c, p, w) == Enter(c, job[c], p, w, held[c])

(* The call goes on with tree t, whose root it stores unless it is known   *)
(* to be in the store.                                                     *)
Land(c, t) ==
    /\ Continue(c, "commit", [work[c] EXCEPT !.tree = t])
    /\ UNCHANGED objects

StoreAndLand(c, t) ==
    /\ Put({t})
    /\ Enter(c, job[c], "commit", [work[c] EXCEPT !.tree = t],
             IF held[c] = NotHeld THEN 0 ELSE held[c])

(* Only the speculation commits hold pins while they run, and drop them    *)
(* whether they land or fail.                                              *)
Unpin(c) == pins' = [pins EXCEPT ![c] = IF job[c].op = "spec" THEN NoPins ELSE @]

(* set_json stores the value's objects (json_to_tree) before its loop. *)
SetValue(c, op, r, p, v) ==
    /\ pc[c] = "idle" /\ op \in Ops[c]
    /\ Put({v})
    /\ Enter(c, [NoJob EXCEPT !.op = op, !.ref = r, !.path = p, !.value = v], "head", NoWork, 0)
    /\ UNCHANGED <<commits, refs, history, sealed, draft, pins>>

StartDelete(c, r, p) ==
    /\ pc[c] = "idle" /\ "delete" \in Ops[c]
    /\ Enter(c, [NoJob EXCEPT !.op = "delete", !.ref = r, !.path = p], "head", NoWork,
             NotHeld)
    /\ UNCHANGED <<objects, commits, refs, history, sealed, draft, pins>>

(* head_for_write of a branch. *)
ReadHead(c) ==
    /\ pc[c] = "head"
    /\ IF refs[job[c].ref] = NoCommit
       THEN Return(c) /\ Unpin(c)
       ELSE Continue(c, "build", [NoWork EXCEPT !.exp = refs[job[c].ref]]) /\ UNCHANGED pins
    /\ UNCHANGED <<objects, commits, refs, history, sealed, draft>>

(* tree_set and tree_delete: the head's tree is read, the new root stored. *)
Build(c) ==
    LET s == root[work[c].exp]
        t == TreeSet(s, job[c].path, job[c].value)
        fails == s \notin Present \/ (job[c].op = "delete" /\ s[job[c].path] = NoValue)
    IN  /\ pc[c] = "build" /\ job[c].op \in WriteOps
        /\ IF fails
           THEN Return(c) /\ UNCHANGED objects
           ELSE StoreAndLand(c, t)
        /\ UNCHANGED <<commits, refs, history, sealed, draft, pins>>

(* What a merge of trees needs, stores and checks (try_three_way_merge_    *)
(* collect, batch_put_objects, first_missing_reachable): nothing when two  *)
(* of the three roots are equal.                                           *)
MergeFails(b, o, t) ==
    /\ ~IsFastForward(b, o, t)
    /\ \/ ~({b, o, t} \subseteq Present)
       \/ ~(Tree(MergeStates(b, o, t)) \ {MergeStates(b, o, t)} \subseteq Present)

(* commit_speculation's attempt on the head it read. *)
BuildSpec(c) ==
    LET b == job[c].from
        o == job[c].to
        t == root[work[c].exp]
        merged == MergeStates(b, o, t)
    IN  /\ pc[c] = "build" /\ job[c].op = "spec"
        /\ IF (t = b /\ ~NewStored(b, o)) \/ (t # b /\ MergeFails(b, o, t))
           THEN Return(c) /\ Unpin(c) /\ UNCHANGED objects
           ELSE /\ IF t = b \/ IsFastForward(b, o, t) THEN Land(c, merged) ELSE StoreAndLand(c, merged)
                /\ UNCHANGED pins
        /\ UNCHANGED <<commits, refs, history, sealed, draft>>

(* create_commit. *)
PutCommit(c) ==
    LET h == work[c].exp
        q == IF job[c].op = "merge" THEN work[c].src ELSE h
    IN  /\ pc[c] = "commit"
        /\ last < MaxCommit
        /\ last' = last + 1
        /\ root' = [root EXCEPT ![last + 1] = work[c].tree]
        /\ anc' = [anc EXCEPT ![last + 1] = {last + 1} \cup anc[h] \cup anc[q]]
        /\ gen' = [gen EXCEPT ![last + 1] = 1 + IF gen[h] >= gen[q] THEN gen[h] ELSE gen[q]]
        /\ tagged' = IF job[c].op = "checkpoint" THEN tagged \cup {last + 1} ELSE tagged
        /\ Continue(c, "move", [work[c] EXCEPT !.new = last + 1])
        /\ UNCHANGED <<objects, refs, history, sealed, draft, pins>>

(* cas_ref: the branch moves, or the call starts over on the new head. *)
Move(c) ==
    LET r == job[c].ref
    IN  /\ pc[c] = "move"
        /\ IF refs[r] = work[c].exp
           THEN /\ refs' = [refs EXCEPT ![r] = work[c].new]
                /\ Return(c) /\ Unpin(c)
           ELSE /\ Enter(c, job[c], IF job[c].op = "merge" THEN "source" ELSE "head", NoWork,
                         IF job[c].op \in {"set", "checkpoint"} THEN held[c] ELSE NotHeld)
                /\ UNCHANGED <<refs, pins>>
        /\ UNCHANGED <<objects, commits, history, sealed, draft>>

(***************************************************************************)
(* Branches and merges.                                                    *)
(***************************************************************************)
ForkRead(c, r, s) ==
    /\ pc[c] = "idle" /\ "branch" \in Ops[c]
    /\ refs[r] = NoCommit /\ refs[s] # NoCommit
    /\ Enter(c, [NoJob EXCEPT !.op = "branch", !.ref = r, !.src = s], "create",
             [NoWork EXCEPT !.new = refs[s]], NotHeld)
    /\ UNCHANGED <<objects, commits, refs, history, sealed, draft, pins>>

CreateRef(c) ==
    /\ pc[c] = "create"
    /\ refs' = [refs EXCEPT ![job[c].ref] = IF @ = NoCommit THEN work[c].new ELSE @]
    /\ Return(c)
    /\ UNCHANGED <<objects, commits, history, sealed, draft, pins>>

DeleteBranch(c, r) ==
    /\ pc[c] = "idle" /\ "delete_branch" \in Ops[c] /\ r # Main
    /\ refs' = [refs EXCEPT ![r] = NoCommit]
    /\ UNCHANGED <<objects, commits, history, sealed, local, draft, pins>>

StartMerge(c, r, s) ==
    /\ pc[c] = "idle" /\ "merge" \in Ops[c]
    /\ Enter(c, [NoJob EXCEPT !.op = "merge", !.ref = r, !.src = s], "source", NoWork,
             NotHeld)
    /\ UNCHANGED <<objects, commits, refs, history, sealed, draft, pins>>

(* find_common_ancestor: of greatest generation; ties go to the greatest   *)
(* id, a hash, so to an arbitrary but always the same commit.              *)
MergeBase(a, b) ==
    CHOOSE k \in anc[a] \cap anc[b] : \A j \in anc[a] \cap anc[b] : gen[j] <= gen[k]

(* compute_merge reads the source's head, then the target's, and finds     *)
(* their base.                                                             *)
MergeSource(c) ==
    LET k == refs[job[c].src]
    IN  /\ pc[c] = "source"
        /\ IF k = NoCommit THEN Return(c) ELSE Continue(c, "target", [NoWork EXCEPT !.src = k])
        /\ UNCHANGED <<objects, commits, refs, history, sealed, draft, pins>>

MergeTarget(c) ==
    LET h == refs[job[c].ref]
    IN  /\ pc[c] = "target"
        /\ IF h = NoCommit THEN Return(c)
           ELSE Continue(c, "build", [work[c] EXCEPT !.exp = h, !.base = MergeBase(h, work[c].src)])
        /\ UNCHANGED <<objects, commits, refs, history, sealed, draft, pins>>

BuildMerge(c) ==
    LET b == root[work[c].base]
        o == root[work[c].exp]
        t == root[work[c].src]
        merged == MergeStates(b, o, t)
        ffCommit == IF FastForwardRoot(b, o, t) = t THEN work[c].src ELSE work[c].exp
    IN  /\ pc[c] = "build" /\ job[c].op = "merge"
        /\ IF IsFastForward(b, o, t)
           THEN Continue(c, "move", [work[c] EXCEPT !.new = ffCommit]) /\ UNCHANGED objects
           ELSE IF Conflicts(b, o, t) # {} \/ MergeFails(b, o, t)
           THEN Return(c) /\ UNCHANGED objects
           ELSE StoreAndLand(c, merged)
        /\ UNCHANGED <<commits, refs, history, sealed, draft, pins>>

(***************************************************************************)
(* Speculations.                                                           *)
(***************************************************************************)
Speculate(c, r) ==
    /\ pc[c] = "idle" /\ "speculate" \in Ops[c] /\ draft[c] = NoDraft
    /\ refs[r] # NoCommit
    /\ draft' = [draft EXCEPT ![c] = [ref |-> r, from |-> root[refs[r]], to |-> root[refs[r]]]]
    /\ Enter(c, [NoJob EXCEPT !.op = "speculate"], "pin", NoWork, NotHeld)
    /\ UNCHANGED <<objects, commits, refs, history, sealed, pins>>

(* spec_set and (v = NoValue) spec_delete store the new tree, and pin it   *)
(* after.                                                                  *)
SpecSet(c, p, v) ==
    LET s == draft[c].to
        t == TreeSet(s, p, v)
    IN  /\ pc[c] = "idle" /\ draft[c] # NoDraft
        /\ s \in Present
        /\ v = NoValue => s[p] # NoValue
        /\ Put({t, v} \ {NoValue})
        /\ draft' = [draft EXCEPT ![c].to = t]
        /\ Enter(c, [NoJob EXCEPT !.op = "spec_set"], "pin", NoWork, 0)
        /\ UNCHANGED <<commits, refs, history, sealed, pins>>

(* Mutant of Pin: a change of the speculation does not pin its new root. *)
PinOnce(c) ==
    /\ pc[c] = "pin"
    /\ pins' = [pins EXCEPT ![c] =
          IF job[c].op = "speculate" THEN [base |-> [root |-> draft[c].from, age |-> 0],
                                           cur |-> [root |-> draft[c].to, age |-> 0]]
          ELSE [@ EXCEPT !.cur.age = 0]]
    /\ Return(c)
    /\ UNCHANGED <<objects, commits, refs, history, sealed, draft>>

(* pin_speculation: the base once, when the speculation forks. *)
Pin(c) ==
    /\ pc[c] = "pin"
    /\ pins' = [pins EXCEPT ![c] =
          [base |-> IF job[c].op = "speculate" THEN [root |-> draft[c].from, age |-> 0] ELSE @.base,
           cur |-> [root |-> draft[c].to, age |-> 0]]]
    /\ Return(c)
    /\ UNCHANGED <<objects, commits, refs, history, sealed, draft>>

Discard(c) ==
    /\ pc[c] = "idle" /\ draft[c] # NoDraft
    /\ draft' = [draft EXCEPT ![c] = NoDraft]
    /\ pins' = [pins EXCEPT ![c] = NoPins]
    /\ UNCHANGED <<objects, commits, refs, history, sealed, local>>

(* commit_speculation takes the speculation out of the manager. *)
CommitSpec(c) ==
    /\ pc[c] = "idle" /\ draft[c] # NoDraft /\ "spec" \in Ops[c]
    /\ draft' = [draft EXCEPT ![c] = NoDraft]
    /\ Enter(c, [NoJob EXCEPT !.op = "spec", !.ref = draft[c].ref,
                              !.from = draft[c].from, !.to = draft[c].to], "head", NoWork, NotHeld)
    /\ UNCHANGED <<objects, commits, refs, history, sealed, pins>>

(* A process that dies leaves its pins behind. *)
Crash(c) ==
    /\ "crash" \in Ops[c]
    /\ pc[c] # "idle" \/ draft[c] # NoDraft
    /\ Return(c)
    /\ draft' = [draft EXCEPT ![c] = NoDraft]
    /\ UNCHANGED <<objects, commits, refs, history, sealed, pins>>

(***************************************************************************)
(* Seals, history extraction and the sweep.                                *)
(***************************************************************************)
(* seal_epoch of the one epoch modelled, which covers main. *)
Seal(c) ==
    /\ pc[c] = "idle" /\ "seal" \in Ops[c]
    /\ sealed = {} /\ refs[Main] # NoCommit
    /\ sealed' = anc[refs[Main]]
    /\ UNCHANGED <<objects, commits, refs, history, local, draft, pins>>

(* Mutant of Extract: the cursor is left on the row after the last. *)
ExtractPast ==
    /\ cursor < last
    /\ cursor' = last + 1
    /\ milestones' = milestones \cup {root[k] : k \in tagged \cap (cursor + 1) .. last}
    /\ UNCHANGED <<objects, commits, refs, sealed, local, draft, pins>>

(* extract_history to its end. *)
Extract ==
    /\ cursor < last
    /\ cursor' = last
    /\ milestones' = milestones \cup {root[k] : k \in tagged \cap (cursor + 1) .. last}
    /\ UNCHANGED <<objects, commits, refs, sealed, local, draft, pins>>

Heads == {refs[r] : r \in Branch} \ {NoCommit}

ForkPoints == {MergeBase(refs[r], refs[Main]) : r \in {b \in Branch \ {Main} : refs[b] # NoCommit}}

PinnedRoots ==
    (UNION {{pins[c].base.root, pins[c].cur.root} : c \in Client}) \ {NoState}

(* The commits policy p selects by their place in the history. *)
Selected(p) ==
    {k \in Stored : \/ last - k < p.keepRecent
                    \/ p.checkpointEvery > 0 /\ (last - k) % p.checkpointEvery = 0}

(* Mutant of KeepRoots: without fork points. *)
KeepRootsNoForks(p) ==
    {root[k] : k \in Heads \cup sealed \cup Selected(p)}
        \cup PinnedRoots \cup (IF p.milestones THEN milestones ELSE {})

(* Mutant of KeepRoots: without sealed commits. *)
KeepRootsNoSealed(p) ==
    {root[k] : k \in Heads \cup ForkPoints \cup Selected(p)}
        \cup PinnedRoots \cup (IF p.milestones THEN milestones ELSE {})

(* gc_keep_roots. *)
KeepRoots(p) ==
    {root[k] : k \in Heads \cup sealed \cup ForkPoints \cup Selected(p)}
        \cup PinnedRoots \cup (IF p.milestones THEN milestones ELSE {})

(* gc_build_mark: what a root that is stored reaches. *)
Marked(roots) == UNION {Tree(s) : s \in roots \cap Present}

(* Mutants of Sweep: not refused, and without the grace period. *)
SweepUngated(p) ==
    LET kept == Marked(KeepRoots(p))
    IN  /\ age' = [o \in Object |-> IF age[o] # Absent /\ age[o] > Grace /\ o \notin kept
                                    THEN Absent ELSE age[o]]
        /\ UNCHANGED <<commits, refs, history, sealed, local, draft, pins>>

SweepYoung(p) ==
    LET kept == Marked(KeepRoots(p))
    IN  /\ cursor = last
        /\ age' = [o \in Object |-> IF o \notin kept THEN Absent ELSE age[o]]
        /\ UNCHANGED <<commits, refs, history, sealed, local, draft, pins>>

(* gc_sweep: refused while a commit is not yet distilled. *)
Sweep(p) ==
    LET kept == Marked(KeepRoots(p))
    IN  /\ cursor = last
        /\ age' = [o \in Object |-> IF age[o] # Absent /\ age[o] > Grace /\ o \notin kept
                                    THEN Absent ELSE age[o]]
        /\ UNCHANGED <<commits, refs, history, sealed, local, draft, pins>>

(* Time passes.  No call takes longer than WriteTime once it has stored an *)
(* object, and no speculation stays open for PinAge without a change.  A   *)
(* pin older than PinAge is never read again.                              *)
Older(n) == IF n.age = PinAge THEN NoPin ELSE IF n = NoPin THEN NoPin ELSE [n EXCEPT !.age = @ + 1]

Tick ==
    /\ \A c \in Client : held[c] # NotHeld => held[c] < WriteTime
    /\ \A c \in Client : (draft[c] # NoDraft \/ job[c].op = "spec") /\ job[c].op # "speculate"
                            => pins[c].cur.age < PinAge
    /\ age' = [o \in Object |-> IF age[o] \in {Absent, OldAge} THEN age[o] ELSE age[o] + 1]
    /\ held' = [c \in Client |-> IF held[c] = NotHeld THEN NotHeld ELSE held[c] + 1]
    /\ pins' = [c \in Client |-> [base |-> Older(pins[c].base), cur |-> Older(pins[c].cur)]]
    /\ UNCHANGED <<commits, refs, history, sealed, pc, job, work, draft>>

(***************************************************************************)
(* The specification.  The store begins initialised, with its source       *)
(* branches forked from main.                                              *)
(***************************************************************************)
Init ==
    /\ age = [o \in Object |-> IF o = EmptyState THEN 0 ELSE Absent]
    /\ last = 1
    /\ root = [k \in Commit |-> EmptyState]
    /\ anc = [k \in Commit |-> IF k = 1 THEN {1} ELSE {}]
    /\ gen = [k \in Commit |-> 0]
    /\ refs = [r \in Branch |-> IF r \in Sources \cup {Main} THEN 1 ELSE NoCommit]
    /\ tagged = {} /\ cursor = 0 /\ milestones = {} /\ sealed = {}
    /\ pc = [c \in Client |-> "idle"]
    /\ job = [c \in Client |-> NoJob]
    /\ work = [c \in Client |-> NoWork]
    /\ held = [c \in Client |-> NotHeld]
    /\ draft = [c \in Client |-> NoDraft]
    /\ pins = [c \in Client |-> NoPins]

Step(c) ==
    \/ \E w \in Writes[c] : \/ \E op \in {"set", "checkpoint"}, v \in Value : SetValue(c, op, w[1], w[2], v)
                           \/ StartDelete(c, w[1], w[2])
    \/ ReadHead(c) \/ Build(c) \/ BuildSpec(c) \/ PutCommit(c) \/ Move(c)
    \/ \E s \in Sources : \/ \E r \in Branch : ForkRead(c, r, s)
                         \/ \E r \in Targets : StartMerge(c, r, s)
    \/ CreateRef(c) \/ MergeSource(c) \/ MergeTarget(c) \/ BuildMerge(c)
    \/ \E r \in Branch : DeleteBranch(c, r) \/ Speculate(c, r)
    \/ \E p \in Path, v \in Value \cup {NoValue} : SpecSet(c, p, v)
    \/ Pin(c) \/ Discard(c) \/ CommitSpec(c) \/ Crash(c)
    \/ Seal(c)

Next == Tick \/ Extract \/ (\E p \in Policy : Sweep(p)) \/ \E c \in Client : Step(c)

Spec == Init /\ [][Next]_vars

(***************************************************************************)
(* Properties.                                                             *)
(***************************************************************************)
Age == 0 .. OldAge
PinRow == [root : State \cup {NoState}, age : 0 .. PinAge]

TypeOK ==
    /\ age \in [Object -> Age \cup {Absent}]
    /\ last \in Commit /\ cursor \in 0 .. last
    /\ root \in [Commit -> State]
    /\ anc \in [Commit -> SUBSET Commit]
    /\ gen \in [Commit -> Nat]
    /\ refs \in [Branch -> Commit \cup {NoCommit}]
    /\ tagged \subseteq Stored /\ sealed \subseteq Stored
    /\ milestones \subseteq State
    /\ held \in [Client -> 0 .. WriteTime \cup {NotHeld}]
    /\ pins \in [Client -> [base : PinRow, cur : PinRow]]

(* No ref points at a tree with objects missing: no sweep takes the        *)
(* objects of a write that lands after it, nor anything a ref still holds. *)
TipsReadable == \A k \in Heads : Readable(root[k])

(* The merge base of a branch and main can be read, so merging never fails *)
(* because a sweep took it.                                                *)
ForkPointsReadable == \A k \in ForkPoints : Readable(root[k])

(* Both, while branches are written, merged and deleted. *)
BranchesReadable == TipsReadable /\ ForkPointsReadable

(* A checkpoint that asked for its state to be kept has it, from landing   *)
(* on: no sweep runs before its milestone is recorded, and every one after *)
(* whose policy keeps milestones keeps it.                                 *)
CheckpointsReadable ==
    \A k \in tagged : (\E h \in Heads : k \in anc[h]) => Readable(root[k])

(* Whatever a speculation has written and still holds is stored until the  *)
(* speculation is over.                                                    *)
Written(from, to) ==
    from # to => Tree(to) \ Tree(from) \subseteq Present

SpeculationsKept ==
    \A c \in Client : /\ draft[c] # NoDraft => Written(draft[c].from, draft[c].to)
                      /\ job[c].op = "spec" => Written(job[c].from, job[c].to)

(* The state of a sealed commit, if it could be read, still can be: no     *)
(* step prunes sealed history.                                             *)
SealedKept == [][\A k \in sealed : Readable(root[k]) => Readable(root[k])']_vars
=============================================================================
