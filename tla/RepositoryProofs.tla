-------------------------- MODULE RepositoryProofs --------------------------
(***************************************************************************)
(* Proofs about Repository, for any number of clients, refs, epochs,       *)
(* commits and attempts.                                                   *)
(***************************************************************************)
EXTENDS Repository, TLAPS

(***************************************************************************)
(* The inductive invariant.                                                *)
(***************************************************************************)

(* Ancestor sets are closed: what a commit reaches, its descendants reach. *)
Dag ==
    \A k \in Stored :
        /\ k \in anc[k]
        /\ anc[k] \subseteq Stored
        /\ \A i \in anc[k] : anc[i] \subseteq anc[k]

RefsStored == \A r \in RefName : refs[r] # NoCommit => refs[r] \in Stored

(* What a client holds at each step of its call. *)
ClientOK(c) ==
    /\ pc[c] = "head" => job[c].op \in WriteOps
    /\ pc[c] = "resolve" => job[c].op \in WriteOps \cup MergeOps
    /\ pc[c] \in {"kind", "source", "target"} => job[c].op \in MergeOps
    /\ pc[c] \in {"commit", "check"} => job[c].op \in WriteOps \cup CasOps \cup MergeOps
    /\ pc[c] = "move" /\ work[c].isBranch => job[c].op \in WriteOps \cup CasOps \cup MergeOps
    /\ pc[c] \notin {"idle", "seal"} => job[c].ref \in RefName
    /\ job[c].op \in MergeOps => job[c].src \in RefName
    /\ job[c].op \in {"set", "cas", "delete"} => job[c].path \in Path
    /\ job[c].op \in {"spec", "spec_cas"} => job[c].from \in State /\ job[c].to \in State
    /\ pc[c] = "target" => work[c].src \in Stored
    /\ pc[c] = "commit" => /\ work[c].exp \in Stored
                           /\ job[c].op \in MergeOps => /\ work[c].src \in Stored
                                                        /\ work[c].tree \in State
    /\ pc[c] \in {"check", "move", "create"} => work[c].new \in Stored

Inv == TypeOK /\ Dag /\ RefsStored /\ \A c \in Client : ClientOK(c)

(***************************************************************************)
(* Types of the values the actions build.                                  *)
(***************************************************************************)
LEMMA StateFacts ==
    /\ EmptyState \in State
    /\ \A s \in State, p \in Path, v \in Value \cup {NoValue} : TreeSet(s, p, v) \in State
    /\ \A b, s, t \in State : MergeStates(b, s, t) \in State
BY Zenon DEF EmptyState, State, TreeSet, MergeStates

LEMMA CallType ==
    ASSUME NEW op \in AllOps, NEW r \in RefName \cup {NoRef}
    PROVE  Call(op, r) \in Job /\ Call(op, r).op = op /\ Call(op, r).ref = r
BY Zenon DEF Call, NoJob, Job

LEMMA NoJobType == NoJob \in Job /\ NoJob.op = "none"
BY Zenon DEF NoJob, Job

LEMMA NoWorkType == NoWork \in Work
BY Zenon DEF NoWork, Work

LEMMA CallsType ==
    ASSUME NEW j \in Calls
    PROVE  /\ j \in Job
           /\ j.op \in Used
           /\ j.op \in {"set", "cas", "delete", "intent", "branch"} \cup MergeOps
           /\ j.ref \in RefName
           /\ j.op \in MergeOps \cup {"branch"} => j.src \in RefName
           /\ j.op \in {"set", "cas", "delete"} => j.path \in Path
<1>1. CASE j \in SetCalls
  <2>1. PICK op \in Used \cap {"set", "cas"}, r \in RefName, p \in Path, v \in Value :
            j = PathCall(op, r, p, v)
    BY <1>1 DEF SetCalls
  <2> QED BY <2>1, Zenon DEF PathCall, SourceCall, Call, NoJob, Job, AllOps, WriteOps, CasOps, MergeOps
<1>2. CASE j \in DeleteCalls
  <2>1. PICK op \in Used \cap {"delete"}, r \in RefName, p \in Path :
            j = PathCall(op, r, p, NoValue)
    BY <1>2 DEF DeleteCalls
  <2> QED BY <2>1, Zenon DEF PathCall, SourceCall, Call, NoJob, Job, AllOps, WriteOps, CasOps, MergeOps
<1>3. CASE j \in IntentCalls
  <2>1. PICK op \in Used \cap {"intent"}, r \in RefName : j = Call(op, r)
    BY <1>3 DEF IntentCalls
  <2> QED BY <2>1, Zenon DEF PathCall, SourceCall, Call, NoJob, Job, AllOps, WriteOps, CasOps, MergeOps
<1>4. CASE j \in SourceCalls
  <2>1. PICK op \in Used \cap ({"branch"} \cup MergeOps), r \in RefName, s \in RefName :
            j = SourceCall(op, r, s)
    BY <1>4 DEF SourceCalls
  <2> QED BY <2>1, Zenon DEF PathCall, SourceCall, Call, NoJob, Job, AllOps, WriteOps, CasOps, MergeOps, OtherOps
<1> QED BY <1>1, <1>2, <1>3, <1>4, Zenon DEF Calls

(***************************************************************************)
(* The pieces actions are made of.                                         *)
(***************************************************************************)

(* A step of c leaves the other clients' variables alone. *)
Others(c) == \A d \in Client \ {c} : pc'[d] = pc[d] /\ job'[d] = job[d] /\ work'[d] = work[d]

LEMMA ReturnOK ==
    ASSUME LocalType, NEW c \in Client, Return(c)
    PROVE  LocalType' /\ Others(c) /\ pc'[c] = "idle" /\ job'[c] = NoJob /\ work'[c] = NoWork
<1>1. 0 \in 0 .. (MaxAttempts - 1)
  BY ConstantsAssumption
<1>2. "idle" \in Steps
  BY Zenon DEF Steps
<1> QED BY <1>1, <1>2, NoJobType, NoWorkType, Zenon DEF LocalType, Return, Others

LEMMA EnterOK ==
    ASSUME LocalType, NEW c \in Client, NEW j \in Job, NEW p \in Steps, NEW w \in Work,
           Enter(c, j, p, w)
    PROVE  LocalType' /\ Others(c) /\ pc'[c] = p /\ job'[c] = j /\ work'[c] = w
BY Zenon DEF LocalType, Enter, Others

LEMMA ContinueOK ==
    ASSUME LocalType, NEW c \in Client, NEW p \in Steps, NEW w \in Work, Continue(c, p, w)
    PROVE  LocalType' /\ Others(c) /\ pc'[c] = p /\ job'[c] = job[c] /\ work'[c] = w
BY Zenon DEF LocalType, Continue, Others

(* A step of c leaves what the other clients hold valid. *)
LEMMA FrameOK ==
    ASSUME \A d \in Client : ClientOK(d), NEW c \in Client, Others(c),
           Stored \subseteq Stored', ClientOK(c)'
    PROVE  \A d \in Client : ClientOK(d)'
BY DEF Others, ClientOK

(* An idle client holds nothing. *)
LEMMA IdleOK ==
    ASSUME NEW c \in Client, pc'[c] = "idle", job'[c] = NoJob
    PROVE  ClientOK(c)'
BY NoJobType, Zenon DEF ClientOK, MergeOps

LEMMA PutCommitOK ==
    ASSUME StoreType, Dag, NEW s \in State, NEW A \in SUBSET Stored, NEW g \in Nat,
           \A i \in A : anc[i] \subseteq A,
           PutCommit(s, A, g)
    PROVE  /\ StoreType' /\ Dag'
           /\ Stored \subseteq Stored'
           /\ last + 1 \in Stored'
           /\ \A k \in Stored : anc'[k] = anc[k] /\ root'[k] = root[k]
           /\ anc'[last + 1] = {last + 1} \cup A
           /\ root'[last + 1] = s
<1>1. /\ last + 1 \in Commit
      /\ last' = last + 1
      /\ Stored \subseteq Commit
      /\ Stored' = Stored \cup {last + 1}
      /\ last + 1 \notin Stored
  BY ConstantsAssumption DEF StoreType, PutCommit, Commit, Stored
<1>2. /\ root' \in [Commit -> State]
      /\ anc' \in [Commit -> SUBSET Commit]
      /\ gen' \in [Commit -> Nat]
      /\ last' \in 0 .. MaxCommit
  BY <1>1, ConstantsAssumption DEF StoreType, PutCommit, Commit
<1>3. /\ \A k \in Stored : anc'[k] = anc[k] /\ root'[k] = root[k]
      /\ anc'[last + 1] = {last + 1} \cup A
      /\ root'[last + 1] = s
  BY <1>1, Zenon DEF StoreType, PutCommit
<1>4. Dag'
  <2> SUFFICES ASSUME NEW k \in Stored'
               PROVE  /\ k \in anc'[k]
                      /\ anc'[k] \subseteq Stored'
                      /\ \A i \in anc'[k] : anc'[i] \subseteq anc'[k]
    BY Zenon DEF Dag
  <2>1. CASE k \in Stored
    BY <2>1, <1>1, <1>3, Zenon DEF Dag
  <2>2. CASE k = last + 1
    BY <2>2, <1>1, <1>3, Zenon DEF Dag
  <2> QED BY <2>1, <2>2, <1>1, Zenon
<1> QED BY <1>1, <1>2, <1>3, <1>4, Zenon DEF StoreType

LEMMA ResolveOK ==
    ASSUME StoreType, RefsType, RefsStored, NEW r \in RefName, Resolve(r) # NoCommit
    PROVE  Resolve(r) \in Stored /\ Resolve(r) \in Commit /\ root[Resolve(r)] \in State
<1>1. Resolve(r) \in Stored
  BY Zenon DEF Resolve, RefsStored
<1>2. Stored \subseteq Commit
  BY ConstantsAssumption DEF Stored, StoreType, Commit
<1> QED BY <1>1, <1>2, Zenon DEF StoreType

(* A step that stores nothing and moves no ref keeps the invariant if what *)
(* its client then holds is valid.                                         *)
LEMMA LocalStep ==
    ASSUME Inv, NEW c \in Client, LocalType', DraftType', Others(c), ClientOK(c)',
           UNCHANGED <<store, refs, epochs, landed>>
    PROVE  Inv'
<1>1. StoreType' /\ RefsType' /\ EpochsType' /\ Dag' /\ RefsStored' /\ Stored' = Stored
  BY Zenon DEF Inv, TypeOK, store, epochs, StoreType, RefsType, EpochsType, Dag, RefsStored, Stored
<1>2. \A d \in Client : ClientOK(d)'
  BY <1>1, FrameOK, Zenon DEF Inv
<1> QED BY <1>1, <1>2, Zenon DEF Inv, TypeOK

(***************************************************************************)
(* One lemma per action: it preserves the invariant.                       *)
(***************************************************************************)

(* j is a write the way set, delete, write_taint_intent and                *)
(* commit_speculation make it.                                             *)
WriteJob(j) ==
    /\ j \in Job /\ j.ref \in RefName /\ j.op \in WriteOps
    /\ j.op \in {"set", "cas", "delete"} => j.path \in Path
    /\ j.op \in {"spec", "spec_cas"} => j.from \in State /\ j.to \in State

LEMMA BuildOnInv ==
    ASSUME Inv, NEW c \in Client, NEW j, WriteJob(j), NEW h \in Stored, NEW b \in BOOLEAN,
           BuildOn(c, j, h, b), UNCHANGED <<store, refs, epochs, draft, landed>>
    PROVE  Inv'
<1> DEFINE w == [NoWork EXCEPT !.exp = h, !.isBranch = b]
<1>1. DraftType' /\ UNCHANGED <<store, refs, epochs, landed>>
  BY Zenon DEF Inv, TypeOK, DraftType
<1>2. CASE Return(c)
  BY <1>1, <1>2, ReturnOK, IdleOK, LocalStep, Zenon DEF Inv, TypeOK
<1>3. CASE Enter(c, j, "commit", w)
  <2>1. h \in Commit
    BY ConstantsAssumption DEF Inv, TypeOK, StoreType, Stored, Commit
  <2>2. w \in Work /\ w.exp = h
    BY <2>1, Zenon DEF NoWork, Work
  <2>3. LocalType' /\ Others(c) /\ pc'[c] = "commit" /\ job'[c] = j /\ work'[c] = w
    <3>1. j \in Job /\ "commit" \in Steps /\ LocalType
      BY Zenon DEF WriteJob, Inv, TypeOK, Steps
    <3> QED BY <1>3, <2>2, <3>1, EnterOK, Zenon
  <2>4. ClientOK(c)'
    BY <1>1, <2>2, <2>3, Zenon DEF WriteJob, ClientOK, WriteOps, MergeOps, Stored, store
  <2> QED BY <1>1, <2>3, <2>4, LocalStep, Zenon
<1> QED BY <1>2, <1>3, Zenon DEF BuildOn

LEMMA EnterResolve ==
    ASSUME Inv, NEW c \in Client, NEW j \in Job, j.ref \in RefName,
           j.op \in WriteOps \cup MergeOps, j.op \in MergeOps => j.src \in RefName,
           j.op \in WriteOps => WriteJob(j),
           Enter(c, j, "resolve", NoWork), UNCHANGED <<store, refs, epochs, draft, landed>>
    PROVE  Inv'
<1>1. DraftType' /\ UNCHANGED <<store, refs, epochs, landed>>
  BY Zenon DEF Inv, TypeOK, DraftType
<1>2. LocalType' /\ Others(c) /\ pc'[c] = "resolve" /\ job'[c] = j /\ work'[c] = NoWork
  BY NoWorkType, EnterOK, Zenon DEF Inv, TypeOK, Steps
<1>3. ClientOK(c)'
  BY <1>2, Zenon DEF ClientOK, WriteJob, WriteOps, MergeOps
<1> QED BY <1>1, <1>2, <1>3, LocalStep, Zenon

LEMMA ReadHeadInv ==
    ASSUME Inv, NEW c \in Client, NEW j, ReadHead(c, j)
    PROVE  Inv'
<1>1. WriteJob(j)
  <2>1. CASE pc[c] = "idle" /\ j \in Calls /\ j.op \in Ops[c] \cap WriteOps
    BY <2>1, CallsType, Zenon DEF WriteJob, MergeOps
  <2>2. CASE pc[c] = "head" /\ j = job[c]
    BY <2>2, Zenon DEF WriteJob, Inv, TypeOK, LocalType, ClientOK
  <2> QED BY <2>1, <2>2, Zenon DEF ReadHead, Enters
<1>2. CASE refs[j.ref] = NoCommit
  <2>1. j.op \notin MergeOps
    BY <1>1, Zenon DEF WriteJob, WriteOps, MergeOps
  <2> QED BY <1>1, <1>2, <2>1, EnterResolve, Zenon DEF ReadHead, WriteJob
<1>3. CASE refs[j.ref] # NoCommit
  <2>1. refs[j.ref] \in Stored
    BY <1>1, <1>3, Zenon DEF Inv, RefsStored, WriteJob
  <2> QED BY <1>1, <1>3, <2>1, BuildOnInv, Zenon DEF ReadHead
<1> QED BY <1>2, <1>3

LEMMA ResolveHeadInv ==
    ASSUME Inv, NEW c \in Client, ResolveHead(c)
    PROVE  Inv'
<1> DEFINE h == Resolve(job[c].ref)
<1>1. /\ DraftType' /\ UNCHANGED <<store, refs, epochs, draft, landed>>
      /\ job[c] \in Job /\ job[c].ref \in RefName /\ pc[c] = "resolve"
  BY Zenon DEF ResolveHead, Inv, TypeOK, DraftType, LocalType, ClientOK
<1>2. CASE Return(c)
  BY <1>1, <1>2, ReturnOK, IdleOK, LocalStep, Zenon DEF Inv, TypeOK
<1>3. CASE job[c].op \in MergeOps /\ Continue(c, "source", NoWork)
  <2>1. LocalType' /\ Others(c) /\ pc'[c] = "source" /\ job'[c] = job[c] /\ work'[c] = NoWork
    BY <1>3, NoWorkType, ContinueOK, Zenon DEF Inv, TypeOK, Steps
  <2>2. ClientOK(c)'
    BY <1>1, <1>3, <2>1, Zenon DEF Inv, ClientOK, MergeOps
  <2> QED BY <1>1, <2>1, <2>2, LocalStep, Zenon
<1>4. CASE h # NoCommit /\ job[c].op \notin MergeOps /\ BuildOn(c, job[c], h, FALSE)
  <2>1. h \in Stored
    BY <1>1, <1>4, ResolveOK, Zenon DEF Inv, TypeOK
  <2>2. WriteJob(job[c])
    BY <1>1, <1>4, Zenon DEF WriteJob, Inv, ClientOK
  <2> QED BY <1>1, <1>4, <2>1, <2>2, BuildOnInv, Zenon
<1> QED BY <1>2, <1>3, <1>4, Zenon DEF ResolveHead

LEMMA SetCasInv ==
    ASSUME Inv, NEW c \in Client, NEW j, SetCas(c, j)
    PROVE  Inv'
<1> DEFINE h == Resolve(j.ref)
           jj == [j EXCEPT !.from = root[h]]
           w == [NoWork EXCEPT !.exp = h, !.isBranch = TRUE]
<1>1. j \in Job /\ j.ref \in RefName /\ j.op = "cas" /\ j.path \in Path
  <2>1. "none" \notin Steps
    BY Zenon DEF Steps
  <2> QED BY <2>1, CallsType, Zenon DEF SetCas, Enters, Inv, TypeOK, LocalType
<1>2. DraftType' /\ UNCHANGED <<store, refs, epochs, landed>>
  BY Zenon DEF SetCas, Inv, TypeOK, DraftType
<1>3. h \in Stored /\ h \in Commit /\ root[h] \in State
  BY <1>1, ResolveOK, Zenon DEF SetCas, Inv, TypeOK
<1>4. /\ w \in Work /\ w.exp = h
      /\ jj \in Job /\ jj.ref = j.ref /\ jj.op = "cas" /\ jj.path = j.path
  BY <1>1, <1>3, Zenon DEF NoWork, Work, Job
<1>5. LocalType' /\ Others(c) /\ pc'[c] = "commit" /\ job'[c] = jj /\ work'[c] = w
  BY <1>4, EnterOK DEF SetCas, Inv, TypeOK, Steps
<1>6. ClientOK(c)'
  BY <1>1, <1>2, <1>3, <1>4, <1>5, Zenon DEF ClientOK, CasOps, MergeOps, Stored, store
<1> QED BY <1>2, <1>5, <1>6, LocalStep, Zenon

LEMMA SetRefInv ==
    ASSUME Inv, NEW c \in Client, NEW r \in RefName, NEW k \in Stored, SetRef(c, r, k)
    PROVE  Inv'
<1> DEFINE j == Call("set_ref", r)
           w == [NoWork EXCEPT !.new = k]
<1>1. DraftType' /\ UNCHANGED <<store, refs, epochs, landed>>
  BY Zenon DEF SetRef, Inv, TypeOK, DraftType
<1>2. k \in Commit
  BY ConstantsAssumption DEF Inv, TypeOK, StoreType, Stored, Commit
<1>3. w \in Work /\ w.new = k /\ ~w.isBranch
  BY <1>2, Zenon DEF NoWork, Work
<1>4. j \in Job /\ j.op = "set_ref" /\ j.ref = r
  BY CallType, Zenon DEF AllOps, OtherOps
<1>5. LocalType' /\ Others(c) /\ pc'[c] = "move" /\ job'[c] = j /\ work'[c] = w
  BY <1>3, <1>4, EnterOK, Zenon DEF SetRef, Inv, TypeOK, Steps
<1>6. ClientOK(c)'
  BY <1>1, <1>3, <1>4, <1>5, Zenon DEF ClientOK, MergeOps, Stored, store
<1> QED BY <1>1, <1>5, <1>6, LocalStep, Zenon

(* The tree and the parents of the commit create_commit stores. *)
LEMMA NewRootOK ==
    ASSUME Inv, NEW c \in Client, pc[c] = "commit"
    PROVE  NewRoot(c) \in State
<1>1. /\ work[c].exp \in Stored /\ root[work[c].exp] \in State
      /\ job[c] \in Job /\ job[c].value \in Value \cup {NoValue}
  BY ConstantsAssumption DEF Inv, TypeOK, ClientOK, StoreType, Stored, Commit, LocalType, Job
<1>2. CASE job[c].op \in {"set", "cas"}
  BY <1>1, <1>2, StateFacts, Zenon DEF NewRoot, Inv, ClientOK
<1>3. CASE job[c].op = "delete"
  BY <1>1, <1>3, StateFacts, Zenon DEF NewRoot, Inv, ClientOK
<1>4. CASE job[c].op = "intent"
  BY <1>1, <1>4, Zenon DEF NewRoot, MergeOps
<1>5. CASE job[c].op = "spec"
  BY <1>1, <1>5, StateFacts, Zenon DEF NewRoot, Inv, ClientOK
<1>6. CASE job[c].op = "spec_cas"
  BY <1>1, <1>6, Zenon DEF NewRoot, Inv, ClientOK
<1>7. CASE job[c].op \in MergeOps
  BY <1>1, <1>7, Zenon DEF NewRoot, Inv, ClientOK, MergeOps
<1> QED BY <1>2, <1>3, <1>4, <1>5, <1>6, <1>7, Zenon DEF Inv, ClientOK, WriteOps, CasOps

OtherParent(c) == IF job[c].op \in MergeOps THEN work[c].src ELSE work[c].exp

LEMMA CreateCommitStores ==
    ASSUME Inv, NEW c \in Client, CreateCommit(c)
    PROVE  /\ StoreType' /\ Dag'
           /\ Stored \subseteq Stored'
           /\ last + 1 \in Stored' /\ last + 1 \in Commit
           /\ \A k \in Stored : anc'[k] = anc[k] /\ root'[k] = root[k]
           /\ anc'[last + 1] = {last + 1} \cup anc[work[c].exp] \cup anc[OtherParent(c)]
           /\ root'[last + 1] = NewRoot(c)
<1> DEFINE h == work[c].exp
           q == OtherParent(c)
           A == anc[h] \cup anc[q]
           g == 1 + IF gen[h] >= gen[q] THEN gen[h] ELSE gen[q]
<1>1. h \in Stored /\ q \in Stored
  BY Zenon DEF CreateCommit, Inv, ClientOK, OtherParent
<1>2. A \in SUBSET Stored /\ \A i \in A : anc[i] \subseteq A
  BY <1>1, Zenon DEF Inv, Dag
<1>3. g \in Nat
  BY <1>1, ConstantsAssumption DEF Inv, TypeOK, StoreType, Stored, Commit
<1>4. PutCommit(NewRoot(c), A, g)
  BY Zenon DEF CreateCommit, OtherParent
<1>5. NewRoot(c) \in State
  BY NewRootOK, Zenon DEF CreateCommit
<1>6. last + 1 \in Commit
  BY <1>4, ConstantsAssumption DEF PutCommit, Inv, TypeOK, StoreType, Commit
<1> HIDE DEF A, g
<1>7. /\ StoreType' /\ Dag'
      /\ Stored \subseteq Stored'
      /\ last + 1 \in Stored'
      /\ \A k \in Stored : anc'[k] = anc[k] /\ root'[k] = root[k]
      /\ anc'[last + 1] = {last + 1} \cup A
      /\ root'[last + 1] = NewRoot(c)
  BY <1>2, <1>3, <1>4, <1>5, PutCommitOK, Zenon DEF Inv, TypeOK
<1> QED BY <1>6, <1>7, Zenon DEF A

LEMMA CreateCommitInv ==
    ASSUME Inv, NEW c \in Client, CreateCommit(c)
    PROVE  Inv'
<1> DEFINE w == [work[c] EXCEPT !.new = last + 1]
<1>1. /\ StoreType' /\ Dag' /\ Stored \subseteq Stored'
      /\ last + 1 \in Stored' /\ last + 1 \in Commit
  BY CreateCommitStores, Zenon
<1>2. EpochsType'
  BY <1>1, Zenon DEF CreateCommit, Inv, TypeOK, EpochsType
<1>3. RefsType' /\ DraftType' /\ RefsStored'
  BY <1>1, Zenon DEF CreateCommit, Inv, TypeOK, RefsType, DraftType, RefsStored
<1>4. CASE Return(c)
  <2>1. LocalType' /\ Others(c) /\ pc'[c] = "idle" /\ job'[c] = NoJob
    BY <1>4, ReturnOK, Zenon DEF Inv, TypeOK
  <2> QED BY <1>1, <1>2, <1>3, <2>1, IdleOK, FrameOK, Zenon DEF Inv, TypeOK
<1>5. CASE Continue(c, "check", w)
  <2>1. w \in Work /\ w.new = last + 1
    BY <1>1, Zenon DEF Inv, TypeOK, LocalType, Work
  <2>2. LocalType' /\ Others(c) /\ pc'[c] = "check" /\ job'[c] = job[c] /\ work'[c] = w
    BY <1>5, <2>1, ContinueOK, Zenon DEF Inv, TypeOK, Steps
  <2>3. ClientOK(c)'
    BY <1>1, <2>1, <2>2, Zenon DEF CreateCommit, Inv, ClientOK
  <2> QED BY <1>1, <1>2, <1>3, <2>2, <2>3, FrameOK, Zenon DEF Inv, TypeOK
<1> QED BY <1>4, <1>5, Zenon DEF CreateCommit

LEMMA CheckSealsInv ==
    ASSUME Inv, NEW c \in Client, CheckSeals(c)
    PROVE  Inv'
<1>1. DraftType' /\ UNCHANGED <<store, refs, epochs, landed>>
  BY Zenon DEF CheckSeals, Inv, TypeOK, DraftType
<1>2. CASE Return(c)
  BY <1>1, <1>2, ReturnOK, IdleOK, LocalStep, Zenon DEF Inv, TypeOK
<1>3. CASE Continue(c, "move", work[c])
  <2>1. work[c] \in Work
    BY Zenon DEF Inv, TypeOK, LocalType
  <2>2. LocalType' /\ Others(c) /\ pc'[c] = "move" /\ job'[c] = job[c] /\ work'[c] = work[c]
    BY <1>3, <2>1, ContinueOK, Zenon DEF Inv, TypeOK, Steps
  <2>3. ClientOK(c)'
    BY <1>1, <2>2, Zenon DEF CheckSeals, Inv, ClientOK, Stored, store
  <2> QED BY <1>1, <2>2, <2>3, LocalStep, Zenon
<1> QED BY <1>2, <1>3, Zenon DEF CheckSeals

(* A step that ends c's call and moves ref r to a stored commit. *)
LEMMA MoveStep ==
    ASSUME Inv, NEW c \in Client, Return(c), NEW r \in RefName, NEW k \in Stored,
           refs' = [refs EXCEPT ![r] = k],
           landed' \subseteq landed \cup {<<r, k>>},
           UNCHANGED <<store, epochs, draft>>
    PROVE  Inv'
<1>1. k \in Commit
  BY ConstantsAssumption DEF Inv, TypeOK, StoreType, Stored, Commit
<1>2. /\ StoreType' /\ EpochsType' /\ DraftType' /\ Dag' /\ Stored' = Stored
  BY Zenon DEF Inv, TypeOK, store, epochs, StoreType, EpochsType, DraftType, Dag, Stored
<1>3. RefsType'
  BY <1>1 DEF Inv, TypeOK, RefsType
<1>4. RefsStored'
  BY <1>2, Zenon DEF Inv, TypeOK, RefsType, RefsStored
<1>5. LocalType' /\ Others(c) /\ pc'[c] = "idle" /\ job'[c] = NoJob
  BY ReturnOK, Zenon DEF Inv, TypeOK
<1>6. \A d \in Client : ClientOK(d)'
  BY <1>2, <1>5, IdleOK, FrameOK, Zenon DEF Inv
<1> QED BY <1>2, <1>3, <1>4, <1>5, <1>6, Zenon DEF Inv, TypeOK

LEMMA MoveBranchInv ==
    ASSUME Inv, NEW c \in Client, MoveBranch(c)
    PROVE  Inv'
BY MoveStep, Zenon DEF MoveBranch, Inv, ClientOK

LEMMA MoveAnywayInv ==
    ASSUME Inv, NEW c \in Client, MoveAnyway(c)
    PROVE  Inv'
<1>1. job[c].ref \in RefName /\ work[c].new \in Stored
  BY Zenon DEF MoveAnyway, Inv, ClientOK
<1>2. landed' \subseteq landed \cup {<<job[c].ref, work[c].new>>}
  BY Zenon DEF MoveAnyway, Forget
<1> QED BY <1>1, <1>2, MoveStep, Zenon DEF MoveAnyway

LEMMA CreateRefInv ==
    ASSUME Inv, NEW c \in Client, CreateRef(c)
    PROVE  Inv'
<1>1. job[c].ref \in RefName /\ work[c].new \in Stored
  BY Zenon DEF CreateRef, Inv, ClientOK
<1>2. CASE refs[job[c].ref] = NoCommit
  BY <1>1, <1>2, MoveStep, Zenon DEF CreateRef
<1>3. CASE refs[job[c].ref] # NoCommit
  <2>1. Return(c) /\ DraftType' /\ UNCHANGED <<store, refs, epochs, landed>>
    BY <1>3, Zenon DEF CreateRef, Inv, TypeOK, DraftType
  <2> QED BY <2>1, ReturnOK, IdleOK, LocalStep, Zenon DEF Inv, TypeOK
<1> QED BY <1>2, <1>3, Zenon

LEMMA LoseRaceInv ==
    ASSUME Inv, NEW c \in Client, LoseRace(c)
    PROVE  Inv'
<1>1. DraftType' /\ UNCHANGED <<store, refs, epochs, landed>>
  BY Zenon DEF LoseRace, Inv, TypeOK, DraftType
<1>2. CASE Return(c)
  BY <1>1, <1>2, ReturnOK, IdleOK, LocalStep, Zenon DEF Inv, TypeOK
<1>3. CASE ~(job[c].op \in CasOps \/ attempt[c] + 1 = MaxAttempts)
  <2> DEFINE first == IF job[c].op \in MergeOps THEN "kind" ELSE "head"
  <2>1. /\ pc' = [pc EXCEPT ![c] = first]
        /\ work' = [work EXCEPT ![c] = NoWork]
        /\ attempt' = [attempt EXCEPT ![c] = @ + 1]
        /\ job' = job
    BY <1>3, Zenon DEF LoseRace
  <2>2. attempt[c] + 1 \in 0 .. (MaxAttempts - 1)
    BY <1>3, ConstantsAssumption DEF Inv, TypeOK, LocalType
  <2>3. first \in Steps
    BY Zenon DEF Steps
  <2>4. LocalType' /\ Others(c) /\ pc'[c] = first /\ job'[c] = job[c]
    BY <2>1, <2>2, <2>3, NoWorkType, Zenon DEF Inv, TypeOK, LocalType, Others
  <2>5. job[c].op \in WriteOps \cup MergeOps
    BY <1>3, Zenon DEF Inv, ClientOK, LoseRace
  <2>6. ClientOK(c)'
    BY <2>4, <2>5, Zenon DEF Inv, ClientOK, LoseRace, WriteOps, CasOps, MergeOps
  <2> QED BY <1>1, <2>4, <2>6, LocalStep, Zenon
<1> QED BY <1>2, <1>3, Zenon DEF LoseRace

LEMMA MergeKindInv ==
    ASSUME Inv, NEW c \in Client, NEW j, MergeKind(c, j)
    PROVE  Inv'
<1> DEFINE w == [NoWork EXCEPT !.isBranch = TRUE]
<1>1. j \in Job /\ j.ref \in RefName /\ j.op \in MergeOps /\ j.src \in RefName
  <2>1. CASE pc[c] = "idle" /\ j \in Calls /\ j.op \in Ops[c] \cap MergeOps
    BY <2>1, CallsType, Zenon
  <2>2. CASE pc[c] = "kind" /\ j = job[c]
    BY <2>2, Zenon DEF Inv, TypeOK, LocalType, ClientOK
  <2> QED BY <2>1, <2>2, Zenon DEF MergeKind, Enters
<1>2. DraftType' /\ UNCHANGED <<store, refs, epochs, landed>>
  BY Zenon DEF MergeKind, Inv, TypeOK, DraftType
<1>3. CASE Enter(c, j, "resolve", NoWork)
  <2>1. j.op \notin WriteOps
    BY <1>1, Zenon DEF WriteOps, MergeOps
  <2> QED BY <1>1, <1>2, <1>3, <2>1, EnterResolve, Zenon DEF MergeKind
<1>4. CASE Enter(c, j, "source", w)
  <2>1. w \in Work
    BY Zenon DEF NoWork, Work
  <2>2. LocalType' /\ Others(c) /\ pc'[c] = "source" /\ job'[c] = j /\ work'[c] = w
    BY <1>1, <1>4, <2>1, EnterOK DEF Inv, TypeOK, Steps
  <2>3. ClientOK(c)'
    BY <1>1, <2>2, Zenon DEF ClientOK, MergeOps
  <2> QED BY <1>2, <2>2, <2>3, LocalStep, Zenon
<1> QED BY <1>3, <1>4, Zenon DEF MergeKind

LEMMA MergeSourceInv ==
    ASSUME Inv, NEW c \in Client, MergeSource(c)
    PROVE  Inv'
<1> DEFINE k == Resolve(job[c].src)
           w == [work[c] EXCEPT !.src = k]
<1>1. job[c].op \in MergeOps /\ job[c].src \in RefName /\ job[c].ref \in RefName
  BY Zenon DEF MergeSource, Inv, ClientOK
<1>2. DraftType' /\ UNCHANGED <<store, refs, epochs, landed>>
  BY Zenon DEF MergeSource, Inv, TypeOK, DraftType
<1>3. CASE Return(c)
  BY <1>2, <1>3, ReturnOK, IdleOK, LocalStep, Zenon DEF Inv, TypeOK
<1>4. CASE k # NoCommit /\ Continue(c, "target", w)
  <2>1. k \in Stored /\ k \in Commit
    BY <1>1, <1>4, ResolveOK, Zenon DEF Inv, TypeOK
  <2>2. w \in Work /\ w.src = k
    BY <2>1, Zenon DEF Inv, TypeOK, LocalType, Work
  <2>3. LocalType' /\ Others(c) /\ pc'[c] = "target" /\ job'[c] = job[c] /\ work'[c] = w
    BY <1>4, <2>2, ContinueOK, Zenon DEF Inv, TypeOK, Steps
  <2>4. ClientOK(c)'
    BY <1>1, <1>2, <2>1, <2>2, <2>3, Zenon DEF Inv, ClientOK, MergeOps, Stored, store
  <2> QED BY <1>2, <2>3, <2>4, LocalStep, Zenon
<1> QED BY <1>3, <1>4, Zenon DEF MergeSource

(* The two ways compute_merge goes on: a fast-forward to a stored commit,  *)
(* or a merge commit to store.                                             *)
LEMMA MergeTargetInv ==
    ASSUME Inv, NEW c \in Client, MergeTarget(c)
    PROVE  Inv'
<1> DEFINE h == Resolve(job[c].ref)
<1>1. /\ job[c].op \in MergeOps /\ job[c].src \in RefName /\ job[c].ref \in RefName
      /\ work[c].src \in Stored /\ work[c] \in Work
  BY Zenon DEF MergeTarget, Inv, TypeOK, LocalType, ClientOK
<1>2. DraftType' /\ UNCHANGED <<store, refs, epochs, landed>>
  BY Zenon DEF MergeTarget, Inv, TypeOK, DraftType
<1>3. CASE Return(c)
  BY <1>2, <1>3, ReturnOK, IdleOK, LocalStep, Zenon DEF Inv, TypeOK
<1>4. CASE h # NoCommit /\ \E b \in MergeBases(work[c].src, h) : MergeOnto(c, h, b)
  <2>1. h \in Stored /\ h \in Commit /\ root[h] \in State
    BY <1>1, <1>4, ResolveOK, Zenon DEF Inv, TypeOK
  <2>2. PICK b \in MergeBases(work[c].src, h) : MergeOnto(c, h, b)
    BY <1>4, Zenon
  <2> DEFINE t == MergeStates(root[b], root[h], root[work[c].src])
  <2>3. b \in Stored
    BY <1>1, <2>1, Zenon DEF MergeBases, Inv, Dag
  <2>4. t \in State
    BY <1>1, <2>1, <2>3, StateFacts, ConstantsAssumption, SMTT(60)
       DEF Inv, TypeOK, StoreType, Stored, Commit
  <2> HIDE DEF t
  <2>5. ASSUME NEW k \in Stored,
               Continue(c, "check", [work[c] EXCEPT !.exp = h, !.tree = t, !.new = k])
        PROVE  Inv'
    <3> DEFINE w == [work[c] EXCEPT !.exp = h, !.tree = t, !.new = k]
    <3>1. k \in Commit
      BY ConstantsAssumption DEF Inv, TypeOK, StoreType, Stored, Commit
    <3>2. w \in Work /\ w.new = k
      BY <1>1, <2>1, <2>4, <3>1, Zenon DEF Work
    <3>3. LocalType' /\ Others(c) /\ pc'[c] = "check" /\ job'[c] = job[c] /\ work'[c] = w
      BY <2>5, <3>2, ContinueOK, Zenon DEF Inv, TypeOK, Steps
    <3>4. ClientOK(c)'
      BY <1>1, <1>2, <3>2, <3>3, Zenon DEF ClientOK, MergeOps, Stored, store
    <3> QED BY <1>2, <3>3, <3>4, LocalStep, Zenon
  <2>6. ASSUME Continue(c, "commit", [work[c] EXCEPT !.exp = h, !.tree = t])
        PROVE  Inv'
    <3> DEFINE w == [work[c] EXCEPT !.exp = h, !.tree = t]
    <3>1. w \in Work /\ w.exp = h /\ w.tree = t /\ w.src = work[c].src
      BY <1>1, <2>1, <2>4, Zenon DEF Work
    <3>2. LocalType' /\ Others(c) /\ pc'[c] = "commit" /\ job'[c] = job[c] /\ work'[c] = w
      BY <2>6, <3>1, ContinueOK, Zenon DEF Inv, TypeOK, Steps
    <3>3. ClientOK(c)'
      BY <1>1, <1>2, <2>1, <2>4, <3>1, <3>2, Zenon DEF ClientOK, MergeOps, Stored, store
    <3> QED BY <1>2, <3>2, <3>3, LocalStep, Zenon
  <2>7. \/ Return(c)
        \/ \E k \in {work[c].src, h} :
               Continue(c, "check", [work[c] EXCEPT !.exp = h, !.tree = t, !.new = k])
        \/ Continue(c, "commit", [work[c] EXCEPT !.exp = h, !.tree = t])
    BY <2>2, Zenon DEF MergeOnto, t
  <2> QED BY <1>1, <1>3, <2>1, <2>5, <2>6, <2>7, Zenon
<1> QED BY <1>3, <1>4, Zenon DEF MergeTarget

LEMMA InitReadInv ==
    ASSUME Inv, NEW c \in Client, InitRead(c)
    PROVE  Inv'
<1> DEFINE j == Call("init", Main)
           w == [NoWork EXCEPT !.new = last + 1]
<1>1. StoreType' /\ Dag' /\ Stored \subseteq Stored' /\ last + 1 \in Stored'
  <2>1. {} \in SUBSET Stored /\ (\A i \in {} : anc[i] \subseteq {}) /\ 0 \in Nat
    BY Zenon
  <2> QED BY <2>1, StateFacts, PutCommitOK, Zenon DEF InitRead, Inv, TypeOK
<1>2. last + 1 \in Commit
  BY ConstantsAssumption DEF InitRead, PutCommit, Inv, TypeOK, StoreType, Commit
<1>3. EpochsType' /\ RefsType' /\ DraftType' /\ RefsStored'
  BY <1>1, Zenon DEF InitRead, epochs, Inv, TypeOK, EpochsType, RefsType, DraftType, RefsStored
<1>4. w \in Work /\ w.new = last + 1
  BY <1>2, Zenon DEF NoWork, Work
<1>5. j \in Job /\ j.op = "init" /\ j.ref = Main
  BY CallType, ConstantsAssumption, Zenon DEF AllOps, OtherOps, RefName
<1>6. LocalType' /\ Others(c) /\ pc'[c] = "create" /\ job'[c] = j /\ work'[c] = w
  BY <1>4, <1>5, EnterOK DEF InitRead, Inv, TypeOK, Steps
<1>7. ClientOK(c)'
  BY <1>1, <1>4, <1>5, <1>6, ConstantsAssumption, Zenon DEF ClientOK, MergeOps, RefName
<1>8. \A d \in Client : ClientOK(d)'
  BY <1>1, <1>6, <1>7, FrameOK, Zenon DEF Inv
<1> QED BY <1>1, <1>3, <1>6, <1>8, Zenon DEF Inv, TypeOK

LEMMA ForkReadInv ==
    ASSUME Inv, NEW c \in Client, NEW j, ForkRead(c, j)
    PROVE  Inv'
<1> DEFINE k == Resolve(j.src)
           w == [NoWork EXCEPT !.src = k, !.new = k]
<1>1. j \in Job /\ j.ref \in RefName /\ j.op = "branch" /\ j.src \in RefName
  <2>1. "none" \notin Steps
    BY Zenon DEF Steps
  <2> QED BY <2>1, CallsType, Zenon DEF ForkRead, Enters, Inv, TypeOK, LocalType
<1>2. DraftType' /\ UNCHANGED <<store, refs, epochs, landed>>
  BY Zenon DEF ForkRead, Inv, TypeOK, DraftType
<1>3. k \in Stored /\ k \in Commit
  BY <1>1, ResolveOK, Zenon DEF ForkRead, Inv, TypeOK
<1>4. w \in Work /\ w.new = k
  BY <1>3, Zenon DEF NoWork, Work
<1>5. LocalType' /\ Others(c) /\ pc'[c] = "create" /\ job'[c] = j /\ work'[c] = w
  BY <1>1, <1>4, EnterOK DEF ForkRead, Inv, TypeOK, Steps
<1>6. ClientOK(c)'
  BY <1>1, <1>2, <1>3, <1>4, <1>5, Zenon DEF ClientOK, MergeOps, Stored, store
<1> QED BY <1>2, <1>5, <1>6, LocalStep, Zenon

LEMMA DropRefInv ==
    ASSUME Inv, NEW c \in Client, NEW r \in RefName, DropRef(c, r)
    PROVE  Inv'
<1>1. /\ StoreType' /\ EpochsType' /\ LocalType' /\ DraftType' /\ Dag' /\ Stored' = Stored
  BY Zenon DEF DropRef, Inv, TypeOK, store, epochs, StoreType, EpochsType, LocalType, DraftType,
         Dag, Stored
<1>2. RefsType' /\ RefsStored'
  BY <1>1, Zenon DEF DropRef, Forget, Inv, TypeOK, RefsType, RefsStored
<1>3. \A d \in Client : ClientOK(d)'
  BY <1>1, Zenon DEF DropRef, Inv, ClientOK
<1> QED BY <1>1, <1>2, <1>3, Zenon DEF Inv, TypeOK

LEMMA SpeculateInv ==
    ASSUME Inv, NEW c \in Client, NEW r \in RefName, Speculate(c, r)
    PROVE  Inv'
<1>1. root[Resolve(r)] \in State
  BY ResolveOK, Zenon DEF Speculate, Inv, TypeOK
<1>2. DraftType'
  BY <1>1, Zenon DEF Speculate, Inv, TypeOK, DraftType, Draft
<1>3. LocalType' /\ Others(c) /\ ClientOK(c)'
  BY Zenon DEF Speculate, store, Inv, TypeOK, LocalType, Others, ClientOK, Stored
<1> QED BY <1>2, <1>3, LocalStep, Zenon DEF Speculate

LEMMA SpecSetInv ==
    ASSUME Inv, NEW c \in Client, NEW p \in Path, NEW v \in Value \cup {NoValue},
           SpecSet(c, p, v)
    PROVE  Inv'
<1>1. draft[c] \in Draft
  BY Zenon DEF SpecSet, Inv, TypeOK, DraftType
<1>2. TreeSet(draft[c].to, p, v) \in State
  BY <1>1, StateFacts, Zenon DEF Draft
<1> DEFINE d == [draft[c] EXCEPT !.to = TreeSet(@, p, v)]
<1>3. d \in Draft
  BY <1>1, <1>2, Zenon DEF Draft
<1>4. DraftType'
  <2>1. draft' = [draft EXCEPT ![c] = d]
    BY Zenon DEF SpecSet
  <2> HIDE DEF d
  <2> QED BY <1>3, <2>1, Zenon DEF Inv, TypeOK, DraftType
<1>5. LocalType' /\ Others(c) /\ ClientOK(c)'
  BY Zenon DEF SpecSet, store, Inv, TypeOK, LocalType, Others, ClientOK, Stored
<1> QED BY <1>4, <1>5, LocalStep, Zenon DEF SpecSet

LEMMA DiscardInv ==
    ASSUME Inv, NEW c \in Client, Discard(c)
    PROVE  Inv'
<1>1. DraftType'
  BY Zenon DEF Discard, Inv, TypeOK, DraftType
<1>2. LocalType' /\ Others(c) /\ ClientOK(c)'
  BY Zenon DEF Discard, store, Inv, TypeOK, LocalType, Others, ClientOK, Stored
<1> QED BY <1>1, <1>2, LocalStep, Zenon DEF Discard

(* The call made of a speculation carries its two trees. *)
LEMMA SpecJob ==
    ASSUME NEW d \in Draft, NEW op \in {"spec", "spec_cas"}
    PROVE  LET j == [Call(op, d.ref) EXCEPT !.from = d.from, !.to = d.to]
           IN  /\ j \in Job /\ j.op = op /\ j.ref = d.ref /\ j.ref \in RefName
               /\ j.from = d.from /\ j.to = d.to /\ j.from \in State /\ j.to \in State
BY Zenon DEF Draft, Call, NoJob, Job, AllOps, WriteOps, CasOps

LEMMA CommitSpecInv ==
    ASSUME Inv, NEW c \in Client, CommitSpec(c)
    PROVE  Inv'
<1> DEFINE j == [Call("spec", draft[c].ref) EXCEPT !.from = draft[c].from, !.to = draft[c].to]
<1>1. draft[c] \in Draft
  BY Zenon DEF CommitSpec, Inv, TypeOK, DraftType
<1>2. j \in Job /\ j.op = "spec" /\ j.ref \in RefName /\ j.from \in State /\ j.to \in State
  BY <1>1, SpecJob, Zenon
<1>3. DraftType' /\ UNCHANGED <<store, refs, epochs, landed>>
  BY Zenon DEF CommitSpec, Inv, TypeOK, DraftType
<1> HIDE DEF j
<1>4. job' = [job EXCEPT ![c] = j]
  BY Zenon DEF CommitSpec, j
<1>5. LocalType' /\ Others(c) /\ pc'[c] = "head" /\ job'[c] = j
  BY <1>2, <1>4, Zenon DEF CommitSpec, Inv, TypeOK, LocalType, Others, Steps
<1>6. ClientOK(c)'
  BY <1>2, <1>5, Zenon DEF ClientOK, WriteOps, MergeOps
<1> QED BY <1>3, <1>5, <1>6, LocalStep, Zenon

LEMMA CommitSpecCasInv ==
    ASSUME Inv, NEW c \in Client, CommitSpecCas(c)
    PROVE  Inv'
<1> DEFINE h == Resolve(draft[c].ref)
           j == [Call("spec_cas", draft[c].ref) EXCEPT !.from = draft[c].from,
                                                       !.to = draft[c].to]
           w == [NoWork EXCEPT !.exp = h, !.isBranch = TRUE]
<1>1. draft[c] \in Draft
  BY Zenon DEF CommitSpecCas, Inv, TypeOK, DraftType
<1>2. j \in Job /\ j.op = "spec_cas" /\ j.ref \in RefName /\ j.from \in State /\ j.to \in State
  BY <1>1, SpecJob, Zenon
<1>3. DraftType' /\ UNCHANGED <<store, refs, epochs, landed>>
  BY Zenon DEF CommitSpecCas, Inv, TypeOK, DraftType
<1>4. h \in Stored /\ h \in Commit
  BY <1>1, ResolveOK, Zenon DEF CommitSpecCas, Inv, TypeOK, Draft
<1>5. w \in Work /\ w.exp = h
  BY <1>4, Zenon DEF NoWork, Work
<1> HIDE DEF j, w
<1>6. CASE UNCHANGED <<pc, job, work, attempt>>
  <2>1. LocalType' /\ Others(c) /\ ClientOK(c)'
    BY <1>3, <1>6, Zenon DEF store, Inv, TypeOK, LocalType, Others, ClientOK, Stored
  <2> QED BY <1>3, <2>1, LocalStep, Zenon
<1>7. CASE Enter(c, j, "commit", w)
  <2>1. LocalType' /\ Others(c) /\ pc'[c] = "commit" /\ job'[c] = j /\ work'[c] = w
    BY <1>2, <1>5, <1>7, EnterOK, Zenon DEF Inv, TypeOK, Steps
  <2>2. ClientOK(c)'
    BY <1>2, <1>3, <1>4, <1>5, <2>1, Zenon DEF ClientOK, CasOps, MergeOps, Stored, store
  <2> QED BY <1>3, <2>1, <2>2, LocalStep, Zenon
<1> QED BY <1>6, <1>7, Zenon DEF CommitSpecCas, j, w

(* A step on an epoch that stores nothing and moves no ref. *)
LEMMA EpochStep ==
    ASSUME Inv, NEW c \in Client, EpochsType', LocalType', Others(c), ClientOK(c)',
           UNCHANGED <<store, refs, draft, landed>>
    PROVE  Inv'
<1>1. StoreType' /\ RefsType' /\ DraftType' /\ Dag' /\ RefsStored' /\ Stored' = Stored
  BY Zenon DEF Inv, TypeOK, store, StoreType, RefsType, DraftType, Dag, RefsStored, Stored
<1>2. \A d \in Client : ClientOK(d)'
  BY <1>1, FrameOK, Zenon DEF Inv
<1> QED BY <1>1, <1>2, Zenon DEF Inv, TypeOK

LEMMA CreateEpochInv ==
    ASSUME Inv, NEW c \in Client, NEW e \in Epoch, CreateEpoch(c, e)
    PROVE  Inv'
<1>1. EpochsType'
  BY Zenon DEF CreateEpoch, Inv, TypeOK, EpochsType
<1>2. LocalType' /\ Others(c) /\ ClientOK(c)'
  BY Zenon DEF CreateEpoch, store, Inv, TypeOK, LocalType, Others, ClientOK, Stored
<1> QED BY <1>1, <1>2, EpochStep, Zenon DEF CreateEpoch

LEMMA ArchiveEpochInv ==
    ASSUME Inv, NEW c \in Client, NEW e \in Epoch, ArchiveEpoch(c, e)
    PROVE  Inv'
<1>1. EpochsType'
  BY Zenon DEF ArchiveEpoch, Inv, TypeOK, EpochsType
<1>2. LocalType' /\ Others(c) /\ ClientOK(c)'
  BY Zenon DEF ArchiveEpoch, store, Inv, TypeOK, LocalType, Others, ClientOK, Stored
<1> QED BY <1>1, <1>2, EpochStep, Zenon DEF ArchiveEpoch

LEMMA SealScopeOK ==
    ASSUME Inv, NEW e \in Epoch
    PROVE  SealScope(e) \subseteq Commit
BY ConstantsAssumption, Zenon DEF SealScope, Inv, TypeOK, StoreType, RefsType, EpochsType, RefName

LEMMA SealReadInv ==
    ASSUME Inv, NEW c \in Client, NEW e \in Epoch, SealRead(c, e)
    PROVE  Inv'
<1> DEFINE j == [NoJob EXCEPT !.op = "seal", !.epoch = e]
           w == [NoWork EXCEPT !.commits = SealScope(e)]
<1>1. DraftType' /\ UNCHANGED <<store, refs, epochs, landed>>
  BY Zenon DEF SealRead, Inv, TypeOK, DraftType
<1>2. j \in Job /\ j.op = "seal" /\ j.epoch = e
  BY Zenon DEF NoJob, Job, AllOps, OtherOps
<1>3. w \in Work
  BY SealScopeOK, Zenon DEF NoWork, Work
<1> HIDE DEF j, w
<1>4. LocalType' /\ Others(c) /\ pc'[c] = "seal" /\ job'[c] = j
  BY <1>2, <1>3, Zenon DEF SealRead, Inv, TypeOK, LocalType, Others, Steps, j, w
<1>5. ClientOK(c)'
  BY <1>2, <1>4, Zenon DEF ClientOK, MergeOps
<1> QED BY <1>1, <1>4, <1>5, LocalStep, Zenon

LEMMA SealWriteInv ==
    ASSUME Inv, NEW c \in Client, SealWrite(c)
    PROVE  Inv'
<1>1. work[c].commits \subseteq Commit
  BY Zenon DEF Inv, TypeOK, LocalType, Work
<1>2. EpochsType'
  BY <1>1, Zenon DEF SealWrite, Inv, TypeOK, EpochsType
<1>3. LocalType' /\ Others(c) /\ ClientOK(c)'
  BY ReturnOK, IdleOK, Zenon DEF SealWrite, Inv, TypeOK
<1> QED BY <1>2, <1>3, EpochStep, Zenon DEF SealWrite

LEMMA CrashInv ==
    ASSUME Inv, NEW c \in Client, Crash(c)
    PROVE  Inv'
<1>1. DraftType'
  BY Zenon DEF Crash, Inv, TypeOK, DraftType
<1>2. LocalType' /\ Others(c) /\ ClientOK(c)'
  BY ReturnOK, IdleOK, Zenon DEF Crash, Inv, TypeOK
<1> QED BY <1>1, <1>2, LocalStep, Zenon DEF Crash

(***************************************************************************)
(* Type correctness.                                                       *)
(***************************************************************************)
LEMMA InitInv == Init => Inv
<1> SUFFICES ASSUME Init PROVE Inv
  BY Zenon
<1>1. StoreType
  BY ConstantsAssumption, StateFacts DEF Init, StoreType, Commit
<1>2. RefsType /\ EpochsType
  BY ConstantsAssumption DEF Init, RefsType, EpochsType, Commit, RefName
<1>3. 0 \in 0 .. (MaxAttempts - 1) /\ "idle" \in Steps
  BY ConstantsAssumption DEF Steps
<1>4. LocalType /\ DraftType
  BY <1>3, NoJobType, NoWorkType, Zenon DEF Init, LocalType, DraftType
<1>5. Dag /\ RefsStored
  <2>1. CASE Initialised
    <3>1. Stored = {1} /\ 1 \in Commit /\ anc[1] = {1}
      BY <2>1, ConstantsAssumption DEF Init, Stored, Commit
    <3> QED BY <2>1, <3>1, Zenon DEF Init, Dag, RefsStored
  <2>2. CASE ~Initialised
    <3>1. Stored = {}
      BY <2>2 DEF Init, Stored
    <3> QED BY <2>2, <3>1, Zenon DEF Init, Dag, RefsStored
  <2> QED BY <2>1, <2>2, Zenon
<1>6. \A c \in Client : ClientOK(c)
  BY NoJobType, Zenon DEF Init, ClientOK, MergeOps
<1> QED BY <1>1, <1>2, <1>4, <1>5, <1>6, Zenon DEF Inv, TypeOK

LEMMA NextInv == Inv /\ [Next]_vars => Inv'
<1>1. ASSUME Inv, NEW c \in Client, Start(c) PROVE Inv'
  <2>1. Branch \subseteq RefName
    BY Zenon DEF RefName
  <2> QED
    BY <1>1, <2>1, ReadHeadInv, SetCasInv, MergeKindInv, ForkReadInv, SetRefInv, DropRefInv,
       SpeculateInv, SpecSetInv, DiscardInv, CommitSpecInv, CommitSpecCasInv, CreateEpochInv,
       SealReadInv, ArchiveEpochInv, InitReadInv, Zenon
    DEF Start, DeleteBranchIf, DeleteBranch
<1>2. ASSUME Inv, NEW c \in Client, Step(c) PROVE Inv'
  BY <1>2, ReadHeadInv, ResolveHeadInv, CreateCommitInv, CheckSealsInv, MoveBranchInv, LoseRaceInv,
     MoveAnywayInv, MergeKindInv, MergeSourceInv, MergeTargetInv, CreateRefInv, SealWriteInv, Zenon
  DEF Step
<1>3. ASSUME Inv, UNCHANGED vars PROVE Inv'
  BY <1>3, Zenon DEF vars, store, epochs, Inv, TypeOK, StoreType, RefsType, EpochsType, LocalType,
              DraftType, Dag, RefsStored, ClientOK, Stored
<1> QED BY <1>1, <1>2, <1>3, CrashInv, Zenon DEF Next

(* Every variable keeps its type whatever the clients do, however many     *)
(* they are: every ref resolves to a stored commit and every call in       *)
(* flight holds the commits its next storage call needs.                   *)
THEOREM TypeCorrect == Spec => []TypeOK
<1>1. Inv => TypeOK
  BY Zenon DEF Inv
<1> QED BY <1>1, InitInv, NextInv, PTL DEF Spec

-----------------------------------------------------------------------------
(***************************************************************************)
(* What the compare-and-swap loop protects.                                *)
(***************************************************************************)

(* A write about to move a branch has built on the head it will compare    *)
(* with, so the new commit reaches everything that head reaches.  A merge  *)
(* need not have (run fast_forward).                                       *)
BuiltOnHead(c) ==
    pc[c] \in {"check", "move"} /\ work[c].isBranch /\ job[c].op \notin MergeOps =>
        work[c].exp \in Stored /\ work[c].exp \in anc[work[c].new]

(* The calls in progress are ones clients make. *)
Known(j) == j.op \in Used \cup {"none"}

LandInv == \A c \in Client : BuiltOnHead(c) /\ Known(job[c])

(* What a step may do to ref r: nothing is lost in the first case, nothing *)
(* promised in the next two.                                               *)
RefGrows(r) ==
    refs[r] # NoCommit => refs'[r] # NoCommit /\ anc[refs[r]] \subseteq anc'[refs'[r]]
Dropped(r) == r # Main /\ \A l \in landed' : l[1] # r
MovedAtWill(r) == \E c \in Client : MoveAnyway(c) /\ AtWill(c) /\ job[c].ref = r

Fate(r) == RefGrows(r) \/ Dropped(r) \/ MovedAtWill(r) \/ LateMove(r) \/ LossyMerge(r)

Outcome ==
    /\ LandInv'
    /\ \A r \in RefName : Fate(r)
    /\ \A l \in landed' : l \in landed \/ Held(l)'

(* A step that neither stores a commit nor moves a ref, and is not about   *)
(* to compare-and-swap one either.                                         *)
Calm(c) ==
    /\ UNCHANGED <<store, refs, landed>>
    /\ Others(c)
    /\ Known(job'[c])
    /\ pc'[c] \in {"check", "move"} => ~work'[c].isBranch \/ job'[c].op \in MergeOps

LEMMA CalmLand ==
    ASSUME LandInv, NEW c \in Client, Calm(c)
    PROVE  Outcome
<1>1. LandInv'
  BY Zenon DEF LandInv, Calm, Others, BuiltOnHead, store, Stored
<1>2. \A r \in RefName : RefGrows(r)
  BY Zenon DEF Calm, RefGrows, store
<1> QED BY <1>1, <1>2, Zenon DEF Outcome, Fate, Calm

(* Returning from a call is calm when the step changed nothing shared. *)
LEMMA ReturnCalm ==
    ASSUME Inv, NEW c \in Client, Return(c), UNCHANGED <<store, refs, landed>>
    PROVE  Calm(c)
<1>1. Others(c) /\ pc'[c] = "idle" /\ job'[c] = NoJob
  BY ReturnOK, Zenon DEF Inv, TypeOK
<1> QED BY <1>1, NoJobType, Zenon DEF Calm, Known

(* So is going on to a step that comes before the compare-and-swap. *)
LEMMA EnterCalm ==
    ASSUME Inv, NEW c \in Client, NEW j, NEW p, NEW w, Enter(c, j, p, w),
           Known(j), p \in {"check", "move"} => ~w.isBranch,
           UNCHANGED <<store, refs, landed>>
    PROVE  Calm(c)
<1>1. Others(c) /\ pc'[c] = p /\ job'[c] = j /\ work'[c] = w
  BY Zenon DEF Enter, Others, Inv, TypeOK, LocalType
<1> QED BY <1>1, Zenon DEF Calm

LEMMA ContinueCalm ==
    ASSUME Inv, LandInv, NEW c \in Client, NEW p, NEW w, Continue(c, p, w),
           p \in {"check", "move"} => job[c].op \in MergeOps,
           UNCHANGED <<store, refs, landed>>
    PROVE  Calm(c)
<1>1. Others(c) /\ pc'[c] = p /\ job'[c] = job[c] /\ work'[c] = w
  BY Zenon DEF Continue, Others, Inv, TypeOK, LocalType
<1> QED BY <1>1, Zenon DEF Calm, LandInv

LEMMA UsedKnown ==
    ASSUME NEW c \in Client, NEW j, j.op \in Ops[c]
    PROVE  Known(j)
BY Zenon DEF Known, Used

(* The actions that only read, or touch only drafts and epochs. *)
LEMMA HeadCalm ==
    ASSUME Inv, LandInv, NEW c \in Client
    PROVE  /\ \A j : ReadHead(c, j) => Calm(c)
           /\ \A j : MergeKind(c, j) => Calm(c)
           /\ \A j : ForkRead(c, j) => Calm(c)
           /\ ResolveHead(c) => Calm(c)
           /\ MergeSource(c) => Calm(c)
           /\ MergeTarget(c) => Calm(c)
<1>1. \A j, ops, first : Enters(c, j, ops, first) => Known(j)
  BY CallsType, Zenon DEF Enters, LandInv, Known
<1>2. ASSUME NEW j, ReadHead(c, j) PROVE Calm(c)
  BY <1>1, <1>2, ReturnCalm, EnterCalm, Zenon DEF ReadHead, BuildOn
<1>3. ASSUME NEW j, MergeKind(c, j) PROVE Calm(c)
  BY <1>1, <1>3, EnterCalm, Zenon DEF MergeKind
<1>4. ASSUME NEW j, ForkRead(c, j) PROVE Calm(c)
  BY <1>1, <1>4, EnterCalm, Zenon DEF ForkRead
<1>5. ASSUME ResolveHead(c) PROVE Calm(c)
  <2>1. Known(job[c])
    BY Zenon DEF LandInv
  <2> QED BY <1>5, <2>1, ReturnCalm, EnterCalm, ContinueCalm, Zenon DEF ResolveHead, BuildOn
<1>6. ASSUME MergeSource(c) PROVE Calm(c)
  <2>1. "target" \notin {"check", "move"} /\ UNCHANGED <<store, refs, landed>>
    BY <1>6, Zenon DEF MergeSource
  <2>2. ASSUME NEW w, Continue(c, "target", w) PROVE Calm(c)
    BY <2>1, <2>2, ContinueCalm, Zenon
  <2> QED BY <1>6, <2>1, <2>2, ReturnCalm, Zenon DEF MergeSource
<1>7. ASSUME MergeTarget(c) PROVE Calm(c)
  <2>1. job[c].op \in MergeOps /\ UNCHANGED <<store, refs, landed>>
    BY <1>7, Zenon DEF MergeTarget, Inv, ClientOK
  <2>2. ASSUME NEW h, NEW b, MergeOnto(c, h, b) PROVE Calm(c)
    BY <2>1, <2>2, ReturnCalm, ContinueCalm, Zenon DEF MergeOnto
  <2> QED BY <1>7, <2>1, <2>2, ReturnCalm, Zenon DEF MergeTarget
<1> QED BY <1>2, <1>3, <1>4, <1>5, <1>6, <1>7, Zenon

LEMMA StartCalm ==
    ASSUME Inv, LandInv, NEW c \in Client
    PROVE  /\ \A j : SetCas(c, j) => Calm(c)
           /\ \A r \in RefName, k \in Stored : SetRef(c, r, k) => Calm(c)
           /\ \A r \in RefName : Speculate(c, r) => Calm(c)
           /\ \A p \in Path, v \in Value \cup {NoValue} : SpecSet(c, p, v) => Calm(c)
           /\ \A e \in Epoch : CreateEpoch(c, e) \/ SealRead(c, e) \/ ArchiveEpoch(c, e) => Calm(c)
           /\ Discard(c) \/ CommitSpec(c) \/ CommitSpecCas(c) => Calm(c)
<1>1. Known(job[c])
  BY Zenon DEF LandInv
<1>2. ASSUME NEW j, SetCas(c, j) PROVE Calm(c)
  <2> DEFINE jj == [j EXCEPT !.from = root[Resolve(j.ref)]]
             w == [NoWork EXCEPT !.exp = Resolve(j.ref), !.isBranch = TRUE]
  <2>1. j \in Job /\ j.op \in Ops[c]
    <3>1. "none" \notin Steps
      BY Zenon DEF Steps
    <3> QED BY <1>2, <3>1, CallsType, Zenon DEF SetCas, Enters, Inv, TypeOK, LocalType
  <2>2. Known(jj)
    <3>1. jj.op = j.op
      BY <2>1, Zenon DEF Job
    <3> QED BY <2>1, <3>1, UsedKnown, Zenon
  <2> HIDE DEF jj, w
  <2>3. Enter(c, jj, "commit", w) /\ UNCHANGED <<store, refs, landed>>
    BY <1>2, Zenon DEF SetCas, jj, w
  <2> QED BY <2>2, <2>3, EnterCalm, Zenon
<1>3. ASSUME NEW r \in RefName, NEW k \in Stored, SetRef(c, r, k) PROVE Calm(c)
  <2>1. Call("set_ref", r).op = "set_ref"
    BY CallType, Zenon DEF AllOps, OtherOps
  <2>2. Known(Call("set_ref", r))
    BY <1>3, <2>1, UsedKnown, Zenon DEF SetRef
  <2>3. ~[NoWork EXCEPT !.new = k].isBranch
    BY Zenon DEF NoWork
  <2> QED BY <1>3, <2>2, <2>3, EnterCalm, Zenon DEF SetRef
<1>4. /\ \A r \in RefName : Speculate(c, r) => Calm(c)
      /\ \A p \in Path, v \in Value \cup {NoValue} : SpecSet(c, p, v) => Calm(c)
      /\ \A e \in Epoch : CreateEpoch(c, e) \/ ArchiveEpoch(c, e) => Calm(c)
      /\ Discard(c) => Calm(c)
  BY <1>1, Zenon DEF Speculate, SpecSet, CreateEpoch, ArchiveEpoch, Discard, Calm, Others
<1>5. ASSUME NEW e \in Epoch, SealRead(c, e) PROVE Calm(c)
  <2> DEFINE j == [NoJob EXCEPT !.op = "seal", !.epoch = e]
  <2>1. j.op = "seal"
    BY Zenon DEF NoJob
  <2>2. Known(j)
    BY <1>5, <2>1, UsedKnown, Zenon DEF SealRead
  <2>3. job'[c] = j /\ pc'[c] = "seal" /\ Others(c)
    BY <1>5, Zenon DEF SealRead, Others, Inv, TypeOK, LocalType
  <2> QED BY <1>5, <2>2, <2>3, Zenon DEF SealRead, Calm
<1>6. ASSUME CommitSpec(c) PROVE Calm(c)
  <2> DEFINE j == [Call("spec", draft[c].ref) EXCEPT !.from = draft[c].from,
                                                     !.to = draft[c].to]
  <2>1. draft[c] \in Draft
    BY <1>6, Zenon DEF CommitSpec, Inv, TypeOK, DraftType
  <2>2. j.op = "spec"
    BY <2>1, SpecJob, Zenon
  <2> HIDE DEF j
  <2>3. Known(j)
    BY <1>6, <2>2, UsedKnown, Zenon DEF CommitSpec
  <2>4. job'[c] = j /\ pc'[c] = "head" /\ Others(c)
    BY <1>6, Zenon DEF CommitSpec, Others, Inv, TypeOK, LocalType, j
  <2> QED BY <1>6, <2>3, <2>4, Zenon DEF CommitSpec, Calm
<1>7. ASSUME CommitSpecCas(c) PROVE Calm(c)
  <2> DEFINE j == [Call("spec_cas", draft[c].ref) EXCEPT !.from = draft[c].from,
                                                         !.to = draft[c].to]
             w == [NoWork EXCEPT !.exp = Resolve(draft[c].ref), !.isBranch = TRUE]
  <2>1. draft[c] \in Draft
    BY <1>7, Zenon DEF CommitSpecCas, Inv, TypeOK, DraftType
  <2>2. j.op = "spec_cas"
    BY <2>1, SpecJob, Zenon
  <2> HIDE DEF j, w
  <2>3. Known(j) /\ UNCHANGED <<store, refs, landed>>
    BY <1>7, <2>2, UsedKnown, Zenon DEF CommitSpecCas
  <2>4. CASE UNCHANGED <<pc, job, work, attempt>>
    BY <1>1, <1>7, <2>3, <2>4, Zenon DEF CommitSpecCas, Calm, Others
  <2>5. CASE Enter(c, j, "commit", w)
    BY <2>3, <2>5, EnterCalm, Zenon
  <2> QED BY <1>7, <2>4, <2>5, Zenon DEF CommitSpecCas, j, w
<1> QED BY <1>2, <1>3, <1>4, <1>5, <1>6, <1>7, Zenon

(* Storing a commit leaves what refs and clients hold as it was. *)
LEMMA StoreLand ==
    ASSUME Inv, LandInv, NEW c \in Client, Others(c), BuiltOnHead(c)', Known(job'[c]),
           Stored \subseteq Stored', \A k \in Stored : anc'[k] = anc[k],
           UNCHANGED <<refs, landed>>
    PROVE  Outcome
<1>1. \A r \in RefName : RefGrows(r)
  BY Zenon DEF Inv, RefsStored, RefGrows
<1>2. ASSUME NEW d \in Client, d # c PROVE BuiltOnHead(d)' /\ Known(job'[d])
  <2>1. pc[d] \in {"check", "move"} => work[d].new \in Stored
    BY Zenon DEF Inv, ClientOK
  <2>2. BuiltOnHead(d) /\ Known(job[d])
    BY Zenon DEF LandInv
  <2>3. pc'[d] = pc[d] /\ job'[d] = job[d] /\ work'[d] = work[d]
    BY <1>2, Zenon DEF Others
  <2> QED BY <2>1, <2>2, <2>3, Zenon DEF BuiltOnHead
<1>3. LandInv'
  BY <1>2, Zenon DEF LandInv
<1> QED BY <1>1, <1>3, Zenon DEF Outcome, Fate

LEMMA CreateCommitLand ==
    ASSUME Inv, LandInv, NEW c \in Client, CreateCommit(c)
    PROVE  Outcome
<1>1. /\ Stored \subseteq Stored' /\ last + 1 \in Stored'
      /\ \A k \in Stored : anc'[k] = anc[k]
      /\ anc[work[c].exp] \subseteq anc'[last + 1]
  BY CreateCommitStores, Zenon
<1>2. work[c].exp \in Stored /\ work[c].exp \in anc[work[c].exp]
  BY Zenon DEF CreateCommit, Inv, ClientOK, Dag
<1>3. /\ Others(c) /\ Known(job'[c])
      /\ pc'[c] # "idle" => /\ pc'[c] = "check" /\ work'[c].exp = work[c].exp
                            /\ work'[c].new = last + 1
  <2>1. CASE Return(c)
    BY <2>1, ReturnOK, NoJobType, Zenon DEF Inv, TypeOK, Known
  <2>2. CASE Continue(c, "check", [work[c] EXCEPT !.new = last + 1])
    <3> DEFINE w == [work[c] EXCEPT !.new = last + 1]
    <3>1. w.exp = work[c].exp /\ w.new = last + 1
      BY Zenon DEF Inv, TypeOK, LocalType, Work
    <3> HIDE DEF w
    <3>2. Others(c) /\ pc'[c] = "check" /\ job'[c] = job[c] /\ work'[c] = w
      BY <2>2, Zenon DEF Continue, Others, Inv, TypeOK, LocalType, w
    <3> QED BY <3>1, <3>2, Zenon DEF LandInv
  <2> QED BY <2>1, <2>2, Zenon DEF CreateCommit
<1>4. BuiltOnHead(c)'
  BY <1>1, <1>2, <1>3, Zenon DEF BuiltOnHead
<1>5. UNCHANGED <<refs, landed>>
  BY Zenon DEF CreateCommit
<1> QED BY <1>1, <1>3, <1>4, <1>5, StoreLand, Zenon

(* init stores a commit no one holds yet. *)
LEMMA InitReadLand ==
    ASSUME Inv, LandInv, NEW c \in Client, InitRead(c)
    PROVE  Outcome
<1>1. Stored \subseteq Stored' /\ \A k \in Stored : anc'[k] = anc[k]
  <2>1. {} \in SUBSET Stored /\ (\A i \in {} : anc[i] \subseteq {}) /\ 0 \in Nat
    BY Zenon
  <2> QED BY <2>1, StateFacts, PutCommitOK, Zenon DEF InitRead, Inv, TypeOK
<1>2. Others(c) /\ pc'[c] = "create" /\ job'[c] = Call("init", Main)
  BY Zenon DEF InitRead, Enter, Others, Inv, TypeOK, LocalType
<1>3. Known(job'[c])
  <2>1. Main \in RefName \cup {NoRef} /\ "init" \in AllOps
    BY ConstantsAssumption, Zenon DEF AllOps, OtherOps, RefName
  <2>2. Call("init", Main).op = "init"
    BY <2>1, CallType, Zenon
  <2> QED BY <1>2, <2>2, UsedKnown, Zenon DEF InitRead
<1>4. BuiltOnHead(c)'
  BY <1>2, Zenon DEF BuiltOnHead
<1>5. UNCHANGED <<refs, landed>>
  BY Zenon DEF InitRead
<1> QED BY <1>1, <1>2, <1>3, <1>4, <1>5, StoreLand, Zenon

LEMMA CheckSealsLand ==
    ASSUME Inv, LandInv, NEW c \in Client, CheckSeals(c)
    PROVE  Outcome
<1>1. CASE Return(c)
  BY <1>1, ReturnCalm, CalmLand, Zenon DEF CheckSeals
<1>2. CASE Continue(c, "move", work[c])
  <2>1. Others(c) /\ pc'[c] = "move" /\ job'[c] = job[c] /\ work'[c] = work[c]
    BY <1>2, Zenon DEF Continue, Others, Inv, TypeOK, LocalType
  <2>2. pc[c] = "check" /\ UNCHANGED <<store, refs, landed>>
    BY Zenon DEF CheckSeals
  <2>3. Stored' = Stored /\ anc' = anc
    BY <2>2, Zenon DEF store, Stored
  <2>4. BuiltOnHead(c)' /\ Known(job'[c])
    BY <2>1, <2>2, <2>3, Zenon DEF LandInv, BuiltOnHead
  <2> QED BY <2>1, <2>2, <2>3, <2>4, StoreLand, Zenon
<1> QED BY <1>1, <1>2, Zenon DEF CheckSeals

LEMMA LoseRaceLand ==
    ASSUME Inv, LandInv, NEW c \in Client, LoseRace(c)
    PROVE  Outcome
<1>1. Calm(c)
  <2>1. CASE Return(c)
    BY <2>1, ReturnCalm, Zenon DEF LoseRace
  <2>2. CASE ~Return(c)
    BY <2>2, Zenon DEF LoseRace, Calm, Others, LandInv, Inv, TypeOK, LocalType
  <2> QED BY <2>1, <2>2, Zenon
<1> QED BY <1>1, CalmLand, Zenon

(* The step that ends c's call and moves one ref to what it built. *)
LEMMA MoveLand ==
    ASSUME Inv, LandInv, NEW c \in Client, Return(c), NEW r \in RefName, NEW k \in Stored,
           refs' = [refs EXCEPT ![r] = k],
           landed' \subseteq landed \cup {<<r, k>>},
           Fate(r), UNCHANGED store
    PROVE  Outcome
<1>1. Others(c) /\ pc'[c] = "idle" /\ job'[c] = NoJob
  BY ReturnOK, Zenon DEF Inv, TypeOK
<1>2. LandInv'
  BY <1>1, NoJobType, Zenon DEF LandInv, BuiltOnHead, Others, Known, store, Stored
<1>3. k # NoCommit /\ k \in anc[k] /\ anc' = anc
  BY ConstantsAssumption DEF Inv, Dag, Stored, store
<1>4. refs'[r] = k /\ \A q \in RefName : q # r => refs'[q] = refs[q]
  BY Zenon DEF Inv, TypeOK, RefsType
<1>5. \A q \in RefName : q # r => RefGrows(q)
  BY <1>3, <1>4, Zenon DEF RefGrows
<1>6. Held(<<r, k>>)'
  BY <1>3, <1>4, Zenon DEF Held
<1> QED BY <1>2, <1>5, <1>6, Zenon DEF Outcome, Fate

LEMMA MoveBranchLand ==
    ASSUME Inv, LandInv, NEW c \in Client, MoveBranch(c)
    PROVE  Outcome
<1>1. /\ job[c].ref \in RefName /\ work[c].new \in Stored
      /\ refs[job[c].ref] = work[c].exp
  BY Zenon DEF MoveBranch, Inv, ClientOK
<1>2. CASE work[c].exp \in anc[work[c].new]
  <2>1. anc[work[c].exp] \subseteq anc[work[c].new]
    BY <1>1, <1>2, Zenon DEF Inv, Dag
  <2>2. work[c].new # NoCommit
    BY <1>1, ConstantsAssumption DEF Stored
  <2>3. RefGrows(job[c].ref)
    BY <1>1, <2>1, <2>2, Zenon DEF MoveBranch, RefGrows, store, Inv, TypeOK, RefsType
  <2> QED BY <1>1, <2>3, MoveLand, Zenon DEF MoveBranch, Fate
<1>3. CASE work[c].exp \notin anc[work[c].new]
  <2>1. job[c].op \in MergeOps
    BY <1>3, Zenon DEF MoveBranch, LandInv, BuiltOnHead
  <2>2. LossyMerge(job[c].ref)
    BY <1>3, <2>1, Zenon DEF LossyMerge
  <2> QED BY <1>1, <2>2, MoveLand, Zenon DEF MoveBranch, Fate
<1> QED BY <1>2, <1>3

LEMMA MoveAnywayLand ==
    ASSUME Inv, LandInv, NEW c \in Client, MoveAnyway(c)
    PROVE  Outcome
<1>1. job[c].ref \in RefName /\ work[c].new \in Stored
  BY Zenon DEF MoveAnyway, Inv, ClientOK
<1>2. landed' \subseteq landed \cup {<<job[c].ref, work[c].new>>}
  BY Zenon DEF MoveAnyway, Forget
<1>3. MovedAtWill(job[c].ref) \/ LateMove(job[c].ref)
  BY Zenon DEF MovedAtWill, LateMove
<1> QED BY <1>1, <1>2, <1>3, MoveLand, Zenon DEF MoveAnyway, Fate

LEMMA CreateRefLand ==
    ASSUME Inv, LandInv, NEW c \in Client, CreateRef(c)
    PROVE  Outcome
<1>1. job[c].ref \in RefName /\ work[c].new \in Stored
  BY Zenon DEF CreateRef, Inv, ClientOK
<1>2. CASE refs[job[c].ref] = NoCommit
  <2>1. Fate(job[c].ref)
    BY <1>2, Zenon DEF Fate, RefGrows
  <2> QED BY <1>1, <1>2, <2>1, MoveLand, Zenon DEF CreateRef
<1>3. CASE refs[job[c].ref] # NoCommit
  BY <1>3, ReturnCalm, CalmLand, Zenon DEF CreateRef
<1> QED BY <1>2, <1>3, Zenon

LEMMA DropRefLand ==
    ASSUME Inv, LandInv, NEW c \in Client, NEW r \in RefName, DropRef(c, r)
    PROVE  Outcome
<1>1. \A q \in RefName : q # r => refs'[q] = refs[q]
  BY Zenon DEF DropRef, Inv, TypeOK, RefsType
<1>2. \A q \in RefName : q # r => RefGrows(q)
  BY <1>1, Zenon DEF DropRef, RefGrows, store
<1>3. Dropped(r) /\ landed' \subseteq landed
  BY Zenon DEF DropRef, Dropped, Forget
<1>4. LandInv'
  BY Zenon DEF DropRef, LandInv, BuiltOnHead, store, Stored
<1> QED BY <1>2, <1>3, <1>4, Zenon DEF Outcome, Fate

LEMMA InitLand == Init => LandInv
BY NoJobType, Zenon DEF Init, LandInv, BuiltOnHead, Known

LEMMA NextLand == Inv /\ LandInv /\ Next => Outcome
<1> SUFFICES ASSUME Inv, LandInv, Next PROVE Outcome
  BY Zenon
<1>1. ASSUME NEW c \in Client, Start(c) PROVE Outcome
  <2>1. Branch \subseteq RefName
    BY Zenon DEF RefName
  <2> QED BY <1>1, <2>1, HeadCalm, StartCalm, CalmLand, DropRefLand, InitReadLand, Zenon
          DEF Start, DeleteBranch, DeleteBranchIf
<1>2. ASSUME NEW c \in Client, Step(c) PROVE Outcome
  <2>1. CASE SealWrite(c)
    BY <2>1, ReturnCalm, CalmLand, Zenon DEF SealWrite
  <2> QED BY <1>2, <2>1, HeadCalm, CalmLand, CreateCommitLand, CheckSealsLand, MoveBranchLand,
             LoseRaceLand, MoveAnywayLand, CreateRefLand, Zenon
          DEF Step
<1>3. ASSUME NEW c \in Client, Crash(c) PROVE Outcome
  BY <1>3, ReturnCalm, CalmLand, Zenon DEF Crash
<1> QED BY <1>1, <1>2, <1>3, Zenon DEF Next

LEMMA BoxLand == Inv /\ LandInv /\ [Next]_vars => LandInv'
<1>1. LandInv /\ UNCHANGED vars => LandInv'
  BY Zenon DEF vars, store, LandInv, BuiltOnHead, Stored
<1> QED BY <1>1, NextLand, Zenon DEF Outcome

(* A ref moved at will owes nothing to those before. *)
LEMMA AtWillHeld ==
    ASSUME Inv, Outcome, NEW r \in RefName, MovedAtWill(r), NEW l \in landed', l[1] = r
    PROVE  Held(l)'
<1>1. PICK c \in Client : MoveAnyway(c) /\ AtWill(c) /\ job[c].ref = r
  BY Zenon DEF MovedAtWill
<1>2. work[c].new \in Stored
  BY <1>1, Zenon DEF MoveAnyway, Inv, ClientOK
<1>3. work[c].new # NoCommit /\ work[c].new \in anc'[work[c].new]
  <2>1. work[c].new # NoCommit
    BY <1>2, ConstantsAssumption DEF Stored
  <2> QED BY <1>1, <1>2, <2>1, Zenon DEF MoveAnyway, store, Inv, Dag
<1>4. refs'[r] = work[c].new
  BY <1>1, Zenon DEF MoveAnyway, Inv, TypeOK, RefsType
<1>5. l = <<r, work[c].new>>
  BY <1>1, Zenon DEF MoveAnyway, Forget
<1>6. l[2] = work[c].new
  BY <1>5
<1> QED BY <1>3, <1>4, <1>6, Zenon DEF Held

(* No lost update but those two: however many clients write, merge, fork,  *)
(* speculate, seal, delete and crash, only a write whose ref was created   *)
(* between head_for_write's two reads, or a merge that took equal trees    *)
(* for a fast-forward, takes an acknowledged commit off its ref.           *)
THEOREM NoOtherLosses == Spec => LossesExplained
<1> DEFINE A == \A l \in landed' : (l \in landed => Held(l)) =>
                   Held(l)' \/ LateMove(l[1]) \/ LossyMerge(l[1])
<1>1. ASSUME Inv, LandInv, Next PROVE A
  <2> SUFFICES ASSUME NEW l \in landed', l \in landed => Held(l)
               PROVE  Held(l)' \/ LateMove(l[1]) \/ LossyMerge(l[1])
    BY Zenon
  <2>1. Outcome
    BY <1>1, NextLand, Zenon
  <2>2. CASE l \notin landed
    BY <2>1, <2>2, Zenon DEF Outcome
  <2>3. CASE l \in landed
    <3>1. l[1] \in RefName /\ Fate(l[1])
      BY <1>1, <2>1, <2>3, Zenon DEF Outcome, Inv, TypeOK, RefsType
    <3>2. CASE RefGrows(l[1])
      BY <2>3, <3>2, Zenon DEF RefGrows, Held
    <3>3. CASE Dropped(l[1])
      BY <3>3, Zenon DEF Dropped
    <3>4. CASE MovedAtWill(l[1])
      BY <1>1, <2>1, <3>1, <3>4, AtWillHeld, Zenon
    <3> QED BY <3>1, <3>2, <3>3, <3>4, Zenon DEF Fate
  <2> QED BY <2>2, <2>3
<1>2. Inv /\ LandInv /\ [Next]_vars => [A]_vars
  BY <1>1, Zenon
<1> QED BY <1>2, InitInv, NextInv, InitLand, BoxLand, PTL DEF Spec, LossesExplained

-----------------------------------------------------------------------------
(***************************************************************************)
(* Main, once init has created it.                                         *)
(***************************************************************************)

(* Main is never deleted, so every write through its name finds it at the  *)
(* first read, and compares before it moves.                               *)
MainReady(c) ==
    job[c].ref = Main =>
        /\ pc[c] # "resolve"
        /\ pc[c] \in {"source", "target", "commit", "check", "move"} =>
               work[c].isBranch \/ job[c].op = "set_ref"

MainInv == refs[Main] # NoCommit /\ \A c \in Client : MainReady(c)

(* A step that keeps c's own part of this and is not the first of a seal. *)
Orderly(c) ==
    /\ Others(c)
    /\ MainReady(c)'
    /\ pc'[c] = "seal" => pc[c] = "seal" /\ work'[c] = work[c]

LEMMA ReturnOrderly ==
    ASSUME Inv, NEW c \in Client, Return(c)
    PROVE  Orderly(c)
BY ReturnOK, Zenon DEF Orderly, MainReady, Inv, TypeOK

LEMMA EnterOrderly ==
    ASSUME Inv, NEW c \in Client, NEW j, NEW p, NEW w, Enter(c, j, p, w), p # "seal",
           j.ref = Main => p # "resolve" /\ (p = "create" \/ w.isBranch \/ j.op = "set_ref")
    PROVE  Orderly(c)
<1>1. Others(c) /\ pc'[c] = p /\ job'[c] = j /\ work'[c] = w
  BY Zenon DEF Enter, Others, Inv, TypeOK, LocalType
<1> QED BY <1>1, Zenon DEF Orderly, MainReady

LEMMA ContinueOrderly ==
    ASSUME Inv, MainInv, NEW c \in Client, NEW p, NEW w, Continue(c, p, w),
           p \notin {"seal", "resolve"},
           pc[c] \in {"source", "target", "commit", "check"}, w.isBranch = work[c].isBranch
    PROVE  Orderly(c)
<1>1. Others(c) /\ pc'[c] = p /\ job'[c] = job[c] /\ work'[c] = w
  BY Zenon DEF Continue, Others, Inv, TypeOK, LocalType
<1>2. MainReady(c)
  BY Zenon DEF MainInv
<1> QED BY <1>1, <1>2, Zenon DEF Orderly, MainReady

LEMMA HeadOrderly ==
    ASSUME Inv, MainInv, NEW c \in Client
    PROVE  /\ \A j : ReadHead(c, j) => Orderly(c)
           /\ \A j : MergeKind(c, j) => Orderly(c)
           /\ \A j : ForkRead(c, j) => Orderly(c)
           /\ ResolveHead(c) => Orderly(c)
<1> DEFINE W(h, b) == [NoWork EXCEPT !.exp = h, !.isBranch = b]
<1>1. \A h : W(h, TRUE).isBranch
  BY Zenon DEF NoWork
<1>2. [NoWork EXCEPT !.isBranch = TRUE].isBranch
  BY Zenon DEF NoWork
<1>3. refs[Main] # NoCommit
  BY Zenon DEF MainInv
<1>4. ASSUME NEW j, ReadHead(c, j) PROVE Orderly(c)
  <2>1. CASE BuildOn(c, j, refs[j.ref], TRUE)
    BY <1>1, <2>1, ReturnOrderly, EnterOrderly, Zenon DEF BuildOn
  <2>2. CASE refs[j.ref] = NoCommit /\ Enter(c, j, "resolve", NoWork)
    BY <1>3, <2>2, EnterOrderly, Zenon
  <2> QED BY <1>4, <2>1, <2>2, Zenon DEF ReadHead
<1>5. ASSUME NEW j, MergeKind(c, j) PROVE Orderly(c)
  BY <1>2, <1>3, <1>5, EnterOrderly, Zenon DEF MergeKind
<1>6. ASSUME NEW j, ForkRead(c, j) PROVE Orderly(c)
  BY <1>6, EnterOrderly, Zenon DEF ForkRead
<1>7. ASSUME ResolveHead(c) PROVE Orderly(c)
  <2>1. job[c].ref # Main
    BY <1>7, Zenon DEF ResolveHead, MainInv, MainReady
  <2>2. ASSUME NEW p, NEW w, Continue(c, p, w), p # "seal" PROVE Orderly(c)
    <3>1. Others(c) /\ pc'[c] = p /\ job'[c] = job[c]
      BY <2>2, Zenon DEF Continue, Others, Inv, TypeOK, LocalType
    <3> QED BY <2>1, <2>2, <3>1, Zenon DEF Orderly, MainReady
  <2> QED BY <1>7, <2>1, <2>2, ReturnOrderly, EnterOrderly, Zenon DEF ResolveHead, BuildOn
<1> QED BY <1>4, <1>5, <1>6, <1>7, Zenon

LEMMA StepOrderly ==
    ASSUME Inv, MainInv, NEW c \in Client
    PROVE  /\ MergeSource(c) \/ MergeTarget(c) \/ CreateCommit(c) \/ CheckSeals(c) => Orderly(c)
           /\ MoveBranch(c) \/ MoveAnyway(c) \/ CreateRef(c) \/ SealWrite(c) => Orderly(c)
           /\ LoseRace(c) \/ Crash(c) => Orderly(c)
<1>1. /\ \A k : [work[c] EXCEPT !.new = k].isBranch = work[c].isBranch
      /\ \A k : [work[c] EXCEPT !.src = k].isBranch = work[c].isBranch
  BY Zenon DEF Inv, TypeOK, LocalType, Work
<1>2. MergeSource(c) \/ MergeTarget(c) \/ CreateCommit(c) \/ CheckSeals(c) => Orderly(c)
  <2>1. ASSUME NEW p \in {"target", "commit", "check", "move"}, NEW w, Continue(c, p, w),
               pc[c] \in {"source", "target", "commit", "check"}, w.isBranch = work[c].isBranch
        PROVE  Orderly(c)
    BY <2>1, ContinueOrderly, Zenon
  <2>2. MergeSource(c) => Orderly(c)
    BY <1>1, <2>1, ReturnOrderly, Zenon DEF MergeSource
  <2>3. MergeTarget(c) => Orderly(c)
    <3>1. ASSUME NEW h, NEW b, pc[c] = "target", MergeOnto(c, h, b) PROVE Orderly(c)
      <4>1. ASSUME NEW w, w.isBranch = work[c].isBranch,
                   Continue(c, "check", w) \/ Continue(c, "commit", w)
            PROVE  Orderly(c)
        BY <2>1, <3>1, <4>1, Zenon
      <4> DEFINE t == MergeStates(root[b], root[h], root[work[c].src])
                 k == IF FastForwardRoot(root[b], root[h], root[work[c].src]) = root[work[c].src]
                      THEN work[c].src ELSE h
                 w1 == [work[c] EXCEPT !.exp = h, !.tree = t, !.new = k]
                 w2 == [work[c] EXCEPT !.exp = h, !.tree = t]
      <4>2. Return(c) \/ Continue(c, "check", w1) \/ Continue(c, "commit", w2)
        BY <3>1, Zenon DEF MergeOnto
      <4>3. w1.isBranch = work[c].isBranch /\ w2.isBranch = work[c].isBranch
        BY Zenon DEF Inv, TypeOK, LocalType, Work
      <4> HIDE DEF t, k, w1, w2
      <4> QED BY <4>1, <4>2, <4>3, ReturnOrderly, Zenon
    <3> QED BY <3>1, ReturnOrderly, Zenon DEF MergeTarget
  <2>4. CreateCommit(c) => Orderly(c)
    BY <1>1, <2>1, ReturnOrderly, Zenon DEF CreateCommit
  <2>5. CheckSeals(c) => Orderly(c)
    BY <2>1, ReturnOrderly, Zenon DEF CheckSeals
  <2> QED BY <2>2, <2>3, <2>4, <2>5, Zenon
<1>3. MoveBranch(c) \/ MoveAnyway(c) \/ CreateRef(c) \/ SealWrite(c) \/ Crash(c) => Orderly(c)
  BY ReturnOrderly, Zenon DEF MoveBranch, MoveAnyway, CreateRef, SealWrite, Crash
<1>4. ASSUME LoseRace(c) PROVE Orderly(c)
  <2>1. CASE Return(c)
    BY <2>1, ReturnOrderly, Zenon
  <2>2. CASE ~Return(c)
    <3>1. Others(c) /\ pc'[c] \in {"kind", "head"}
      BY <1>4, <2>2, Zenon DEF LoseRace, Others, Inv, TypeOK, LocalType
    <3> QED BY <3>1, Zenon DEF Orderly, MainReady
  <2> QED BY <2>1, <2>2, Zenon
<1> QED BY <1>2, <1>3, <1>4, Zenon

LEMMA StartOrderly ==
    ASSUME Inv, MainInv, NEW c \in Client
    PROVE  /\ \A j : SetCas(c, j) => Orderly(c)
           /\ \A r \in RefName, k \in Stored : SetRef(c, r, k) => Orderly(c)
           /\ \A r \in RefName : Speculate(c, r) \/ DropRef(c, r) => Orderly(c)
           /\ \A p \in Path, v \in Value \cup {NoValue} : SpecSet(c, p, v) => Orderly(c)
           /\ \A e \in Epoch : CreateEpoch(c, e) \/ ArchiveEpoch(c, e) => Orderly(c)
           /\ Discard(c) \/ CommitSpec(c) \/ CommitSpecCas(c) \/ InitRead(c) => Orderly(c)
<1>1. \A h : [NoWork EXCEPT !.exp = h, !.isBranch = TRUE].isBranch
  BY Zenon DEF NoWork
<1>2. MainReady(c)
  BY Zenon DEF MainInv
<1>3. ASSUME UNCHANGED <<pc, job, work, attempt>> PROVE Orderly(c)
  BY <1>2, <1>3, Zenon DEF Orderly, Others, MainReady
<1>4. /\ \A r \in RefName : Speculate(c, r) \/ DropRef(c, r) => Orderly(c)
      /\ \A p \in Path, v \in Value \cup {NoValue} : SpecSet(c, p, v) => Orderly(c)
      /\ \A e \in Epoch : CreateEpoch(c, e) \/ ArchiveEpoch(c, e) => Orderly(c)
      /\ Discard(c) => Orderly(c)
  BY <1>3, Zenon DEF Speculate, DropRef, SpecSet, CreateEpoch, ArchiveEpoch, Discard
<1>5. ASSUME NEW j, SetCas(c, j) PROVE Orderly(c)
  BY <1>1, <1>5, EnterOrderly, Zenon DEF SetCas
<1>6. ASSUME NEW r \in RefName, NEW k \in Stored, SetRef(c, r, k) PROVE Orderly(c)
  <2>1. Call("set_ref", r).op = "set_ref"
    BY CallType, Zenon DEF AllOps, OtherOps
  <2> QED BY <1>6, <2>1, EnterOrderly, Zenon DEF SetRef
<1>7. InitRead(c) => Orderly(c)
  BY EnterOrderly, Zenon DEF InitRead
<1>8. ASSUME CommitSpec(c) PROVE Orderly(c)
  <2>1. Others(c) /\ pc'[c] = "head"
    BY <1>8, Zenon DEF CommitSpec, Others, Inv, TypeOK, LocalType
  <2> QED BY <2>1, Zenon DEF Orderly, MainReady
<1>9. CommitSpecCas(c) => Orderly(c)
  BY <1>1, <1>3, EnterOrderly, Zenon DEF CommitSpecCas
<1> QED BY <1>4, <1>5, <1>6, <1>7, <1>8, <1>9, Zenon

(* Sealing keeps no ref. *)
LEMMA SealReadMain ==
    ASSUME Inv, NEW c \in Client, NEW e \in Epoch, SealRead(c, e)
    PROVE  Others(c) /\ MainReady(c)'
<1>1. Others(c) /\ pc'[c] = "seal"
  BY Zenon DEF SealRead, Others, Inv, TypeOK, LocalType
<1> QED BY <1>1, Zenon DEF MainReady

(* Every step is orderly, or the first of a seal. *)
LEMMA NextOrderly ==
    ASSUME Inv, MainInv, Next
    PROVE  \E c \in Client : Orderly(c) \/ \E e \in Epoch : SealRead(c, e)
<1>1. ASSUME NEW c \in Client, Start(c)
      PROVE  Orderly(c) \/ \E e \in Epoch : SealRead(c, e)
  <2>1. Branch \subseteq RefName
    BY Zenon DEF RefName
  <2> QED BY <1>1, <2>1, HeadOrderly, StartOrderly, Zenon
          DEF Start, DeleteBranch, DeleteBranchIf
<1>2. ASSUME NEW c \in Client, Step(c) PROVE Orderly(c)
  BY <1>2, HeadOrderly, StepOrderly, Zenon DEF Step
<1> QED BY <1>1, <1>2, StepOrderly, Zenon DEF Next

(* Only DropRef makes a ref absent, and not main. *)
LEMMA MainStays ==
    ASSUME Inv, refs[Main] # NoCommit, Next
    PROVE  refs'[Main] # NoCommit
<1>1. Main \in RefName
  BY ConstantsAssumption, Zenon DEF RefName
<1>2. \A c \in Client : pc[c] \in {"move", "create"} => work[c].new # NoCommit
  BY ConstantsAssumption DEF Inv, ClientOK, Stored
<1>3. ASSUME NEW c \in Client, MoveBranch(c) \/ MoveAnyway(c) \/ CreateRef(c)
      PROVE  refs'[Main] # NoCommit
  BY <1>1, <1>2, <1>3, Zenon DEF MoveBranch, MoveAnyway, CreateRef, Inv, TypeOK, RefsType
<1>4. ASSUME NEW c \in Client, NEW r, DropRef(c, r) PROVE refs'[Main] # NoCommit
  BY <1>1, <1>4, Zenon DEF DropRef, Inv, TypeOK, RefsType
<1>5. CASE UNCHANGED refs
  BY <1>5
<1>6. ASSUME NEW c \in Client, Start(c), ~UNCHANGED refs PROVE \E r : DropRef(c, r)
  BY <1>6, Zenon DEF Start, ReadHead, SetCas, MergeKind, ForkRead, SetRef, DeleteBranchIf,
     DeleteBranch, Speculate, SpecSet, Discard, CommitSpec, CommitSpecCas, CreateEpoch,
     ArchiveEpoch, SealRead, InitRead
<1>7. ASSUME NEW c \in Client, Step(c) \/ Crash(c), ~UNCHANGED refs
      PROVE  MoveBranch(c) \/ MoveAnyway(c) \/ CreateRef(c)
  BY <1>7, Zenon DEF Step, Crash, ReadHead, ResolveHead, MergeKind, MergeSource, MergeTarget,
     CreateCommit, CheckSeals, LoseRace, SealWrite
<1> QED BY <1>3, <1>4, <1>5, <1>6, <1>7, Zenon DEF Next

LEMMA NextMain == Inv /\ MainInv /\ [Next]_vars => MainInv'
<1>1. ASSUME Inv, MainInv, Next PROVE MainInv'
  <2>1. PICK c \in Client : Others(c) /\ MainReady(c)'
    BY <1>1, NextOrderly, SealReadMain, Zenon DEF Orderly
  <2>2. \A d \in Client \ {c} : MainReady(d)'
    BY <1>1, <2>1, Zenon DEF Others, MainInv, MainReady
  <2> QED BY <1>1, <2>1, <2>2, MainStays, Zenon DEF MainInv
<1>2. ASSUME MainInv, UNCHANGED vars PROVE MainInv'
  BY <1>2, Zenon DEF MainInv, MainReady, vars
<1> QED BY <1>1, <1>2, Zenon

LEMMA InitMain == ASSUME Initialised PROVE Init => MainInv
<1>1. Main \in Branch /\ NoCommit \notin Nat
  BY ConstantsAssumption, Zenon
<1>2. Main \in RefName
  BY <1>1, Zenon DEF RefName
<1>3. Init => refs[Main] # NoCommit
  BY <1>1, <1>2 DEF Init
<1> QED BY <1>3, Zenon DEF Init, MainInv, MainReady

(* So main is moved without comparing by set_ref alone. *)
LEMMA MainFate ==
    ASSUME Inv, LandInv, MainInv, Next, Used \cap MergeOps = {}
    PROVE  /\ ~LateMove(Main) /\ ~LossyMerge(Main)
           /\ RefGrows(Main) \/ (MovedAtWill(Main) /\ "set_ref" \in Used)
<1>1. ~LateMove(Main)
  BY Zenon DEF LateMove, MoveAnyway, AtWill, MainInv, MainReady
<1>2. ~LossyMerge(Main)
  BY Zenon DEF LossyMerge, LandInv, Known, MergeOps
<1>3. MovedAtWill(Main) => "set_ref" \in Used
  BY ConstantsAssumption, Zenon DEF MovedAtWill, AtWill, LandInv, Known
<1>4. ~Dropped(Main)
  BY Zenon DEF Dropped
<1>5. Fate(Main)
  BY NextLand, ConstantsAssumption, Zenon DEF Outcome, RefName
<1> QED BY <1>1, <1>2, <1>3, <1>4, <1>5, Zenon DEF Fate

(* No lost update on main: once init has created it, and without merges,   *)
(* every commit a client was told it landed on main stays reachable there, *)
(* whatever writes, forks, drafts, seals and crashes run beside it; only a *)
(* later set_ref, which asks for no comparison, ends the promise.          *)
THEOREM NoLostUpdate ==
    ASSUME Initialised, Used \cap MergeOps = {}
    PROVE  Spec => []MainKeepsLanded
<1>1. Init => MainKeepsLanded
  <2> SUFFICES ASSUME Init, NEW l \in landed, l[1] = Main PROVE Held(l)
    BY Zenon DEF MainKeepsLanded
  <2>1. l[2] = 1 /\ 1 \in Commit
    BY ConstantsAssumption DEF Init, Commit
  <2>2. refs[Main] = 1 /\ 1 # NoCommit
    BY ConstantsAssumption DEF Init, RefName
  <2>3. anc[1] = {1}
    BY <2>1, Zenon DEF Init
  <2> QED BY <2>1, <2>2, <2>3, Zenon DEF Held
<1>2. Inv /\ LandInv /\ MainInv /\ MainKeepsLanded /\ [Next]_vars => MainKeepsLanded'
  <2>1. ASSUME Inv, LandInv, MainInv, MainKeepsLanded, Next PROVE MainKeepsLanded'
    <3> SUFFICES ASSUME NEW l \in landed', l[1] = Main PROVE Held(l)'
      BY Zenon DEF MainKeepsLanded
    <3>1. Outcome /\ Main \in RefName
      BY <2>1, NextLand, ConstantsAssumption, Zenon DEF RefName
    <3>2. RefGrows(Main) \/ MovedAtWill(Main)
      BY <2>1, MainFate, Zenon
    <3>3. CASE MovedAtWill(Main)
      BY <2>1, <3>1, <3>3, AtWillHeld, Zenon
    <3>4. CASE RefGrows(Main)
      BY <2>1, <3>1, <3>4, Zenon DEF Outcome, RefGrows, Held, MainKeepsLanded
    <3> QED BY <3>2, <3>3, <3>4
  <2>2. ASSUME MainKeepsLanded, UNCHANGED vars PROVE MainKeepsLanded'
    BY <2>2, Zenon DEF vars, store, MainKeepsLanded, Held
  <2> QED BY <2>1, <2>2, Zenon
<1>3. Init => MainInv
  BY InitMain, Zenon
<1> QED BY <1>1, <1>2, <1>3, InitInv, NextInv, InitLand, BoxLand, NextMain, PTL DEF Spec

-----------------------------------------------------------------------------
(***************************************************************************)
(* Seals.                                                                  *)
(***************************************************************************)

(* Main reaches all of K. *)
Covered(K) == K # {} => refs[Main] # NoCommit /\ K \subseteq anc[refs[Main]]

(* What a client sealing an epoch has read stays covered until it writes   *)
(* it.                                                                     *)
SealInv ==
    /\ \A e \in Epoch : IsSealed(e) => Covered(sealed[e])
    /\ \A c \in Client : pc[c] = "seal" => Covered(work[c].commits)

LEMMA GrowsCovers ==
    ASSUME RefGrows(Main), NEW K, Covered(K)
    PROVE  Covered(K)'
BY Zenon DEF RefGrows, Covered

(* An epoch is sealed over what its sealer read. *)
LEMMA SealedFrom ==
    ASSUME Inv, Next
    PROVE  \A e \in Epoch : IsSealed(e)' =>
               \/ IsSealed(e) /\ sealed'[e] = sealed[e]
               \/ \E c \in Client : pc[c] = "seal" /\ sealed'[e] = work[c].commits
<1> DEFINE From == \A e \in Epoch : IsSealed(e)' =>
                      \/ IsSealed(e) /\ sealed'[e] = sealed[e]
                      \/ \E c \in Client : pc[c] = "seal" /\ sealed'[e] = work[c].commits
<1>1. ASSUME UNCHANGED <<status, sealed>> PROVE From
  BY <1>1, Zenon DEF IsSealed
<1>2. ASSUME NEW c \in Client, NEW e \in Epoch, CreateEpoch(c, e) \/ ArchiveEpoch(c, e) PROVE From
  BY <1>2, Zenon DEF CreateEpoch, ArchiveEpoch, IsSealed, Inv, TypeOK, EpochsType
<1>3. ASSUME NEW c \in Client, SealWrite(c) PROVE From
  BY <1>3, Zenon DEF SealWrite, IsSealed, Inv, TypeOK, EpochsType
<1>4. ASSUME NEW c \in Client, Start(c) \/ Step(c) \/ Crash(c), ~UNCHANGED <<status, sealed>>
      PROVE  SealWrite(c) \/ \E e \in Epoch : CreateEpoch(c, e) \/ ArchiveEpoch(c, e)
  BY <1>4, Zenon DEF Start, Step, Crash, epochs, ReadHead, ResolveHead, SetCas, MergeKind, ForkRead,
     SetRef, DeleteBranchIf, DeleteBranch, DropRef, Speculate, SpecSet, Discard, CommitSpec,
     CommitSpecCas, SealRead, InitRead, CreateCommit, CheckSeals, MoveBranch, LoseRace,
     MoveAnyway, MergeSource, MergeTarget, CreateRef
<1> QED BY <1>1, <1>2, <1>3, <1>4, Zenon DEF Next

LEMMA SealReadCovers ==
    ASSUME Inv, \A e \in Epoch : SealRef[e] = Main,
           NEW c \in Client, NEW e \in Epoch, SealRead(c, e)
    PROVE  Covered(work[c].commits)'
<1>1. Covered(SealScope(e))
  BY ConstantsAssumption, Zenon DEF Covered, SealScope, RefName
<1> DEFINE w == [NoWork EXCEPT !.commits = SealScope(e)]
<1>2. w.commits = SealScope(e)
  BY Zenon DEF NoWork
<1> HIDE DEF w
<1>3. work'[c] = w
  BY Zenon DEF SealRead, Inv, TypeOK, LocalType, w
<1>4. refs' = refs /\ anc' = anc
  BY Zenon DEF SealRead, store
<1> QED BY <1>1, <1>2, <1>3, <1>4, Zenon DEF Covered

LEMMA NextSeal ==
    ASSUME \A e \in Epoch : SealRef[e] = Main, Inv, MainInv, SealInv, Next, RefGrows(Main)
    PROVE  SealInv'
<1>1. \A e \in Epoch : IsSealed(e)' => Covered(sealed[e])'
  BY SealedFrom, GrowsCovers, Zenon DEF SealInv
<1>2. PICK c \in Client : Orderly(c) \/ \E e \in Epoch : SealRead(c, e)
  BY NextOrderly, Zenon
<1>3. ASSUME NEW d \in Client, pc'[d] = "seal" PROVE Covered(work[d].commits)'
  <2>1. ASSUME pc[d] = "seal", work'[d] = work[d] PROVE Covered(work[d].commits)'
    <3>1. Covered(work[d].commits)
      BY <2>1, Zenon DEF SealInv
    <3> QED BY <2>1, <3>1, Zenon DEF RefGrows, Covered
  <2>2. Others(c)
    BY <1>2, SealReadMain, Zenon DEF Orderly
  <2>3. CASE d # c
    BY <1>3, <2>1, <2>2, <2>3, Zenon DEF Others
  <2>4. CASE d = c /\ Orderly(c)
    BY <1>3, <2>1, <2>4, Zenon DEF Orderly
  <2>5. CASE d = c /\ \E e \in Epoch : SealRead(c, e)
    BY <2>5, SealReadCovers, Zenon
  <2> QED BY <1>2, <2>3, <2>4, <2>5, Zenon
<1> QED BY <1>1, <1>3, Zenon DEF SealInv

(* Sealed history stays on main: with main created, epochs sealed over     *)
(* main itself, and neither merges nor set_ref, no commit of a sealed      *)
(* epoch is ever orphaned, even by writers that passed enforce_epoch_seals *)
(* before the seal was written.                                            *)
THEOREM SealSafety ==
    ASSUME Initialised, Used \cap MergeOps = {}, "set_ref" \notin Used,
           \A e \in Epoch : SealRef[e] = Main
    PROVE  Spec => []SealedReachable
<1>1. Init => SealInv
  BY Zenon DEF Init, SealInv, IsSealed
<1>2. Inv /\ LandInv /\ MainInv /\ SealInv /\ [Next]_vars => SealInv'
  <2>1. ASSUME Inv, LandInv, MainInv, SealInv, Next PROVE SealInv'
    BY <2>1, MainFate, NextSeal, Zenon
  <2>2. ASSUME SealInv, UNCHANGED vars PROVE SealInv'
    BY <2>2, Zenon DEF vars, store, epochs, SealInv, Covered, IsSealed
  <2> QED BY <2>1, <2>2, Zenon
<1>3. SealInv => SealedReachable
  BY Zenon DEF SealInv, Covered, SealedReachable
<1>4. Init => MainInv
  BY InitMain, Zenon
<1> QED BY <1>1, <1>2, <1>3, <1>4, InitInv, NextInv, InitLand, BoxLand, NextMain, PTL DEF Spec

(* A seal is final, with any operation running beside it: seal_epoch's     *)
(* conditional update lets one sealer win, and set_commit_epoch tags       *)
(* commits to Active epochs only.                                          *)
THEOREM SealsAreFinal == Spec => SealFinal
<1> DEFINE Final == \A e \in Epoch : IsSealed(e) =>
                       IsSealed(e)' /\ sealed'[e] = sealed[e] /\ member'[e] = member[e]
<1>1. ASSUME Inv, NEW c \in Client, Start(c) \/ Step(c) \/ Crash(c), ~UNCHANGED epochs
      PROVE  Final
  <2>1. \/ \E e \in Epoch : CreateEpoch(c, e) \/ ArchiveEpoch(c, e)
        \/ CreateCommit(c)
        \/ SealWrite(c)
    BY <1>1, Zenon DEF Start, Step, Crash, ReadHead, ResolveHead, SetCas, MergeKind, ForkRead, SetRef,
       DeleteBranchIf, DeleteBranch, DropRef, Speculate, SpecSet, Discard, CommitSpec, CommitSpecCas, SealRead,
       InitRead, CheckSeals, MoveBranch, LoseRace, MoveAnyway, MergeSource, MergeTarget, CreateRef
  <2>2. CASE \E e \in Epoch : CreateEpoch(c, e) \/ ArchiveEpoch(c, e)
    BY <1>1, <2>2, Zenon DEF CreateEpoch, ArchiveEpoch, IsSealed, Inv, TypeOK, EpochsType
  <2>3. CASE CreateCommit(c)
    BY <1>1, <2>3, Zenon DEF CreateCommit, IsSealed, Inv, TypeOK, EpochsType
  <2>4. CASE SealWrite(c)
    BY <1>1, <2>4, Zenon DEF SealWrite, IsSealed, Inv, TypeOK, EpochsType
  <2> QED BY <2>1, <2>2, <2>3, <2>4, Zenon
<1>2. ASSUME UNCHANGED epochs PROVE Final
  BY <1>2, Zenon DEF epochs, IsSealed
<1>3. Inv /\ [Next]_vars => [Final]_vars
  BY <1>1, <1>2, Zenon DEF Next
<1> QED BY <1>3, InitInv, NextInv, PTL DEF Spec, SealFinal
=============================================================================
