--------------------------- MODULE AtomicBranches ---------------------------
(***************************************************************************)
(* What a Repository promises its callers: every ref holds a state, and    *)
(* each call takes effect on it at one instant, on the state the ref holds *)
(* at that instant, or not at all.  There are no commits here, no reads    *)
(* apart from the effect and no retries: nothing a caller did not ask for  *)
(* can happen to a ref.                                                    *)
(*                                                                         *)
(* A call reads its source ref (the branch merged or forked from) at some  *)
(* earlier instant, its snapshot; a speculation likewise keeps the state   *)
(* it forked from.                                                         *)
(*                                                                         *)
(* Detached ref-specs are commit hashes.  A write to one that is not the   *)
(* name of a ref (it missed) builds on what the ref-spec resolves to, its  *)
(* base, and takes the name over whatever is there by then.  In Spec only  *)
(* they may be taken over so; in LateSpec any ref that did not exist when  *)
(* the call first looked.                                                  *)
(***************************************************************************)
EXTENDS StateMerge

CONSTANTS
    Client, RefName, Main, NoState, NoJob, NoDraft,
    Initialised,
    Used,      \* the operations clients call
    Calls,     \* the read-modify-writes they may ask for
    Detached   \* ref-specs that are commit hashes

VARIABLES
    val,       \* the state each ref holds, NoState if it does not exist
    known,     \* states of the commits stored so far
    named,     \* the state of the commit a detached ref-spec names
    job,       \* each client's pending call
    snapshot,  \* the state it has read from its source ref
    missed,    \* the clients whose call found no ref of its name
    base,      \* the state such a call has read instead
    draft      \* each client's open speculation

late == <<missed, base>>
abstractVars == <<val, known, named, job, snapshot, late, draft>>

Init ==
    /\ val = [r \in RefName |-> IF r = Main /\ Initialised THEN EmptyState ELSE NoState]
    /\ known = IF Initialised THEN {EmptyState} ELSE {}
    /\ named \in [Detached -> known \cup {NoState}]
    /\ job = [c \in Client |-> NoJob]
    /\ snapshot = [c \in Client |-> NoState]
    /\ missed = {}
    /\ base = [c \in Client |-> NoState]
    /\ draft = [c \in Client |-> NoDraft]

(* The states a read of ref-spec r may find. *)
Readable(r) ==
    {s \in known : /\ r \in RefName
                   /\ val[r] = s \/ (val[r] = NoState /\ r \in Detached /\ named[r] = s)}

(* What merging s into v may give: no conflict against the base taken.     *)
(* Which stored state that is depends on the commits behind v and s.       *)
Merges(v, s) ==
    {MergeStates(b, v, s) : b \in {x \in known : s # NoState /\ Conflicts(x, v, s) = {}}}

(* The states call j may leave its ref in when it holds v. *)
Effects(j, v, s) ==
    CASE j.op = "set" -> {TreeSet(v, j.path, j.value)}
      [] j.op = "cas" -> {TreeSet(v, j.path, j.value) : x \in {v} \cap {j.from}}
      [] j.op = "delete" -> {TreeSet(v, j.path, NoValue) : x \in {v[j.path]} \ {NoValue}}
      [] j.op = "intent" -> {v}
      [] j.op = "spec" -> {MergeStates(j.from, j.to, v)}
      [] j.op = "spec_cas" -> {j.to : x \in {v} \cap {j.from}}
      [] j.op = "merge" -> Merges(v, s)
      [] j.op = "merge_checked" ->
            {m \in Merges(v, s) : \A p \in Path : v[p] # NoValue => m[p] # NoValue}
      [] OTHER -> {}

Done(c) ==
    /\ job' = [job EXCEPT ![c] = NoJob]
    /\ snapshot' = [snapshot EXCEPT ![c] = NoState]
    /\ missed' = missed \ {c}
    /\ base' = [base EXCEPT ![c] = NoState]

(* A call that compares and swaps brings the state its caller saw.  A call *)
(* may have its first look at its ref at once.                             *)
Request(c, j, seen) ==
    /\ job[c] = NoJob
    /\ job' = [job EXCEPT ![c] = [j EXCEPT !.from = seen]]
    /\ \E s \in {NoState} \cup Readable(j.src) : snapshot' = [snapshot EXCEPT ![c] = s]
    /\ missed' = missed \/ (val[j.ref] = NoState /\ missed' = missed \cup {c})
    /\ UNCHANGED <<val, known, named, base, draft>>

(* commit_speculation and commit_speculation_cas hand the draft over. *)
RequestDraft(c, op) ==
    /\ job[c] = NoJob /\ draft[c] # NoDraft
    /\ job' = [job EXCEPT ![c] = [NoJob EXCEPT !.op = op, !.ref = draft[c].ref,
                                               !.from = draft[c].from, !.to = draft[c].to]]
    /\ draft' = [draft EXCEPT ![c] = NoDraft]
    /\ UNCHANGED <<val, known, named, snapshot, late>>

(* The call takes effect. *)
Apply(c) ==
    LET r == job[c].ref
    IN  /\ job[c] # NoJob
        /\ val[r] # NoState
        /\ \E s \in Effects(job[c], val[r], snapshot[c]) : val' = [val EXCEPT ![r] = s]
        /\ Done(c)
        /\ UNCHANGED <<known, named, draft>>

(* The call looks for its ref and finds none, then reads what it builds on. *)
Miss(c) ==
    /\ job[c] # NoJob
    /\ val[job[c].ref] = NoState
    /\ missed' = missed \cup {c}
    /\ UNCHANGED <<val, known, named, job, snapshot, base, draft>>

ReadBase(c) ==
    /\ c \in missed /\ base[c] = NoState
    /\ \E s \in Readable(job[c].ref) : base' = [base EXCEPT ![c] = s]
    /\ UNCHANGED <<val, known, named, job, snapshot, missed, draft>>

(* It takes its ref over, which must be one of names. *)
ApplyLate(c, names) ==
    LET r == job[c].ref
    IN  /\ r \in names
        /\ base[c] # NoState
        /\ \E s \in Effects(job[c], base[c], snapshot[c]) : val' = [val EXCEPT ![r] = s]
        /\ Done(c)
        /\ UNCHANGED <<known, named, draft>>

(* init and branch create a ref that does not exist, and only they do. *)
CreateMain ==
    /\ "init" \in Used
    /\ val[Main] = NoState
    /\ val' = [val EXCEPT ![Main] = EmptyState]
    /\ UNCHANGED <<known, named, job, snapshot, late, draft>>

Create(c) ==
    /\ job[c].op = "branch" /\ snapshot[c] # NoState
    /\ val[job[c].ref] = NoState
    /\ val' = [val EXCEPT ![job[c].ref] = snapshot[c]]
    /\ Done(c)
    /\ UNCHANGED <<known, named, draft>>

(* delete_branch and delete_branch_if. *)
Drop(r) ==
    /\ r # Main /\ Used \cap {"delete_branch", "delete_branch_if"} # {}
    /\ val' = [val EXCEPT ![r] = NoState]
    /\ UNCHANGED <<known, named, job, snapshot, late, draft>>

(* set_ref, to any commit. *)
Rewind(r) ==
    /\ "set_ref" \in Used
    /\ \E s \in known : val' = [val EXCEPT ![r] = s]
    /\ UNCHANGED <<known, named, job, snapshot, late, draft>>

(* The call fails, is given up, has nothing to do or dies: no ref changes. *)
Fail(c) ==
    /\ Done(c)
    /\ draft' \in {draft, [draft EXCEPT ![c] = NoDraft]}
    /\ UNCHANGED <<val, known, named>>

(* The call reads its source ref, or lets go of what it read. *)
Snapshot(c) ==
    /\ job[c] # NoJob
    /\ \/ \E s \in Readable(job[c].src) : snapshot' = [snapshot EXCEPT ![c] = s]
       \/ snapshot' = [snapshot EXCEPT ![c] = NoState]
    /\ UNCHANGED <<val, known, named, job, late, draft>>

(* Commits are stored before any ref points at them; a hash names the one  *)
(* commit it is the hash of.                                               *)
Put(s) ==
    /\ known' = known \cup {s}
    /\ named' \in [Detached -> known' \cup {NoState}]
    /\ \A r \in Detached : named'[r] = named[r] \/ (named[r] = NoState /\ named'[r] = s)

Store(s) ==
    /\ Put(s)
    /\ UNCHANGED <<val, job, snapshot, late, draft>>

StoreAndFail(c, s) ==
    /\ Put(s)
    /\ Done(c)
    /\ UNCHANGED <<val, draft>>

Speculate(c, r) ==
    /\ draft[c] = NoDraft
    /\ \E s \in Readable(r) : draft' = [draft EXCEPT ![c] = [ref |-> r, from |-> s, to |-> s]]
    /\ UNCHANGED <<val, known, named, job, snapshot, late>>

(* Only the speculation changes: no ref shows it before it is committed. *)
SpecSet(c, p, v) ==
    /\ draft[c] # NoDraft
    /\ draft' = [draft EXCEPT ![c].to = TreeSet(@, p, v)]
    /\ UNCHANGED <<val, known, named, job, snapshot, late>>

(* Work inside a call that shows in no ref. *)
Internal == UNCHANGED abstractVars

(* What may happen when a call that missed may take over one of names. *)
Steps(names) ==
    \/ Internal
    \/ \E c \in Client :
          \/ \E j \in Calls, seen \in known \cup {NoState} : Request(c, j, seen)
          \/ \E op \in {"spec", "spec_cas"} : RequestDraft(c, op)
          \/ Apply(c) \/ ApplyLate(c, names) \/ Create(c) \/ Fail(c)
          \/ Snapshot(c) \/ Miss(c) \/ ReadBase(c)
          \/ \E s \in State : StoreAndFail(c, s)
          \/ \E r \in RefName : Speculate(c, r)
          \/ \E p \in Path, v \in Value \cup {NoValue} : SpecSet(c, p, v)
    \/ \E s \in State : Store(s)
    \/ CreateMain
    \/ \E r \in RefName : Drop(r) \/ Rewind(r)

Spec == Init /\ [][Steps(Detached)]_abstractVars

LateSpec == Init /\ [][Steps(RefName)]_abstractVars
=============================================================================
