------------------------ MODULE DispatchAccessProofs ------------------------
(***************************************************************************)
(* Proofs about the access checks of StructComponent::initialize: the     *)
(* sequential debug_assert! checks of init_state (each leaf against the    *)
(* access record of the leaves before it) abort exactly the signatures in  *)
(* which two leaves clash whatever their order, and so, in a debug build,  *)
(* a component is aborted exactly when its signature conflicts.            *)
(***************************************************************************)
EXTENDS DispatchProofs

-----------------------------------------------------------------------------
(* Lemmas about positions and the order in which init_state visits them.  *)

\* A position is a pair of natural indices, the member's and the leaf's.
LEMMA PositionShape ==
    ASSUME NEW s, NEW p \in Positions(s)
    PROVE  \E i, j \in Nat : p = <<i, j>>
BY DEF Positions

\* The tuple implementations visit leaves in a strict total order: two
\* distinct positions come one before the other, and none before itself.
LEMMA BeforeTotal ==
    ASSUME NEW s, NEW p \in Positions(s), NEW q \in Positions(s)
    PROVE  /\ ~Before(p, p)
           /\ p # q => Before(p, q) \/ Before(q, p)
<1>1. PICK i1, j1 \in Nat : p = <<i1, j1>>
    BY PositionShape
<1>2. PICK i2, j2 \in Nat : q = <<i2, j2>>
    BY PositionShape
<1>3. QED
    BY <1>1, <1>2 DEF Before

\* Clash, the reference definition of a conflict, is symmetric.
LEMMA ClashSymmetric ==
    ASSUME NEW l1, NEW l2, Clash(l1, l2)
    PROVE  Clash(l2, l1)
BY DEF Clash

-----------------------------------------------------------------------------
(* The sequential checks agree with the order-free definition.            *)

\* A leaf that clashes with an earlier one fails its init_state assertion.
LEMMA LaterClashAborts ==
    ASSUME NEW s \in Seq(Member), NEW p \in Positions(s), NEW q \in Positions(s),
           Before(q, p), Clash(LeafAt(s, p), LeafAt(s, q))
    PROVE  p \in AbortPositions(s)
<1> DEFINE l == LeafAt(s, p)
           m == LeafAt(s, q)
           fp == Footprint(s, Earlier(s, p))
<1>1. q \in Earlier(s, p)
    BY DEF Earlier
<1>2. l \in Leaf
    BY LeafAtType
<1>3. CASE l.kind = "Config"
    <2>1. m.kind = "ConfigMut" /\ m.id = l.id
        BY <1>3 DEF Clash
    <2>2. l.id \in fp.writes
        BY <1>1, <2>1 DEF Footprint
    <2>3. QED
        BY <1>3, <2>2 DEF AbortPositions, ConflictsWith, ConfigInitConflict
<1>4. CASE l.kind = "ConfigMut"
    <2>1. m.kind \in {"Config", "ConfigMut"} /\ m.id = l.id
        BY <1>4 DEF Clash
    <2>2. l.id \in fp.writes \/ l.id \in fp.reads
        BY <1>1, <2>1 DEF Footprint
    <2>3. QED
        BY <1>4, <2>2 DEF AbortPositions, ConflictsWith, ConfigMutInitConflict
<1>5. CASE l.kind = "Commands"
    <2>1. m.kind = "Commands"
        BY <1>5 DEF Clash
    <2>2. fp.deferred
        BY <1>1, <2>1 DEF Footprint
    <2>3. QED
        BY <1>5, <2>2 DEF AbortPositions, ConflictsWith, CommandsInitConflict
<1>6. CASE l.kind = "Service"
    BY <1>6 DEF Clash
<1>7. QED
    BY <1>2, <1>3, <1>4, <1>5, <1>6 DEF Leaf

\* A leaf whose assertion fails clashes with an earlier leaf.
LEMMA AbortHasClash ==
    ASSUME NEW s \in Seq(Member), NEW p \in AbortPositions(s)
    PROVE  \E q \in Positions(s) : Before(q, p) /\ Clash(LeafAt(s, p), LeafAt(s, q))
<1> DEFINE l == LeafAt(s, p)
           E == Earlier(s, p)
           fp == Footprint(s, E)
<1>1. p \in Positions(s) /\ ConflictsWith(l, fp)
    BY DEF AbortPositions
<1>2. l \in Leaf
    BY <1>1, LeafAtType
<1>3. \A q \in E : q \in Positions(s) /\ Before(q, p)
    BY DEF Earlier
<1>4. CASE l.kind = "Config"
    <2>1. l.id \in fp.writes
        BY <1>1, <1>4 DEF ConflictsWith, ConfigInitConflict
    <2>2. PICK q \in E : LeafAt(s, q).kind = "ConfigMut" /\ LeafAt(s, q).id = l.id
        BY <2>1 DEF Footprint
    <2>3. QED
        BY <1>3, <1>4, <2>2 DEF Clash
<1>5. CASE l.kind = "ConfigMut"
    <2>1. l.id \in fp.writes \/ l.id \in fp.reads
        BY <1>1, <1>5 DEF ConflictsWith, ConfigMutInitConflict
    <2>2. PICK q \in E : LeafAt(s, q).kind \in {"Config", "ConfigMut"} /\ LeafAt(s, q).id = l.id
        BY <2>1 DEF Footprint
    <2>3. QED
        BY <1>3, <1>5, <2>2 DEF Clash
<1>6. CASE l.kind = "Commands"
    <2>1. fp.deferred
        BY <1>1, <1>6 DEF ConflictsWith, CommandsInitConflict
    <2>2. PICK q \in E : LeafAt(s, q).kind = "Commands"
        BY <2>1 DEF Footprint
    <2>3. QED
        BY <1>3, <1>6, <2>2 DEF Clash
<1>7. CASE l.kind = "Service"
    BY <1>1, <1>7 DEF ConflictsWith
<1>8. QED
    BY <1>2, <1>4, <1>5, <1>6, <1>7 DEF Leaf

\* init_state's sequential assertions fail somewhere exactly when two leaves
\* of the signature conflict, whatever their order (spec 4.2).
LEMMA AbortIffConflict ==
    ASSUME NEW s \in Seq(Member)
    PROVE  AbortPositions(s) # {} <=> PairwiseConflict(s)
<1>1. AbortPositions(s) # {} => PairwiseConflict(s)
    <2>1. SUFFICES ASSUME NEW p \in AbortPositions(s) PROVE PairwiseConflict(s)
        OBVIOUS
    <2>2. PICK q \in Positions(s) : Before(q, p) /\ Clash(LeafAt(s, p), LeafAt(s, q))
        BY AbortHasClash
    <2>3. p \in Positions(s) /\ p # q
        BY <2>2, BeforeTotal DEF AbortPositions
    <2>4. QED
        BY <2>2, <2>3 DEF PairwiseConflict
<1>2. PairwiseConflict(s) => AbortPositions(s) # {}
    <2>1. SUFFICES ASSUME NEW p \in Positions(s), NEW q \in Positions(s), p # q,
                          Clash(LeafAt(s, p), LeafAt(s, q))
                   PROVE  AbortPositions(s) # {}
        BY DEF PairwiseConflict
    <2>2. CASE Before(q, p)
        BY <2>1, <2>2, LaterClashAborts
    <2>3. CASE Before(p, q)
        BY <2>1, <2>3, ClashSymmetric, LaterClashAborts
    <2>4. QED
        BY <2>1, <2>2, <2>3, BeforeTotal
<1>3. QED
    BY <1>1, <1>2

-----------------------------------------------------------------------------
(* In a debug build a component is aborted exactly when it conflicts.     *)

\* The inductive form of InitAbortIffConflict: the status initialize gave a
\* component agrees with its signature's failing assertions, and the later
\* steps never turn one kind of status into the other.
AccessInv ==
    \A k \in Comp :
        /\ status[k] = "aborted" => AbortPositions(sig[k]) # {}
        /\ status[k] \in {"ready", "done", "failed"} => AbortPositions(sig[k]) = {}

\* The initial state satisfies AccessInv: every component is new.
LEMMA AccessInit == Init => AccessInv
BY DEF Init, AccessInv

\* Every step keeps AccessInv in a debug build: only initialize sets a
\* component's signature, and it aborts exactly when an assertion fails;
\* run_unsafe and the retry move a component only among ready, done and
\* failed.
LEMMA AccessStep ==
    ASSUME DebugAsserts
    PROVE  TypeOK /\ AccessInv /\ [Next]_vars => AccessInv'
<1> SUFFICES ASSUME TypeOK, AccessInv, [Next]_vars PROVE AccessInv'
    OBVIOUS
<1> USE DEF TypeOK
<1>1. ASSUME NEW k \in Comp, Initialize(k) PROVE AccessInv'
    <2>1. PICK s \in SigChoices[k] :
              /\ sig' = [sig EXCEPT ![k] = s]
              /\ status' = [status EXCEPT ![k] =
                              IF DebugAsserts /\ AbortPositions(s) # {} THEN "aborted" ELSE "ready"]
        BY <1>1 DEF Initialize
    <2>3. QED
        BY <2>1, DebugAsserts DEF AccessInv
<1>2. ASSUME NEW k \in Comp, RunNotReady(k) PROVE AccessInv'
    BY <1>2 DEF RunNotReady, AccessInv
<1>3. ASSUME NEW k \in Comp, RunInvoke(k) PROVE AccessInv'
    <2>1. UNCHANGED sig /\ status[k] = "ready"
        BY <1>3 DEF RunInvoke
    <2>2. status' = status \/ \E st \in {"ready", "done", "failed"} : status' = [status EXCEPT ![k] = st]
        BY <1>3 DEF RunInvoke
    <2>3. QED
        BY <2>1, <2>2 DEF AccessInv
<1>4. ASSUME NEW k \in Comp, RetryFailed(k) PROVE AccessInv'
    <2>1. UNCHANGED sig /\ status[k] = "failed"
        BY <1>4 DEF RetryFailed
    <2>2. status' = status \/ status' = [status EXCEPT ![k] = "ready"]
        BY <1>4 DEF RetryFailed
    <2>3. QED
        BY <2>1, <2>2 DEF AccessInv
<1>5. CASE StartDispatch
    BY <1>5 DEF StartDispatch, AccessInv
<1>6. CASE ApplyDeferred
    BY <1>6 DEF ApplyDeferred, AccessInv
<1>7. CASE LockConfigs
    BY <1>7 DEF LockConfigs, AccessInv
<1>8. CASE UNCHANGED vars
    BY <1>8 DEF vars, AccessInv
<1>9. QED
    BY <1>1, <1>2, <1>3, <1>4, <1>5, <1>6, <1>7, <1>8 DEF Next

\* In a debug build, StructComponent::initialize aborts a component exactly
\* when two of its parameters conflict, whatever their order, for every set
\* of components and signatures (spec 4.2; the release build is observation
\* A of the README).
THEOREM InitAbortIffConflictHolds ==
    ASSUME DebugAsserts
    PROVE  Spec => []InitAbortIffConflict
<1>1. Spec => [](TypeOK /\ AccessInv)
    BY TypeInit, TypeStep, AccessInit, AccessStep, PTL DEF Spec
<1>2. TypeOK /\ AccessInv => InitAbortIffConflict
    <2> SUFFICES ASSUME TypeOK, AccessInv, NEW k \in Comp
                 PROVE  /\ status[k] = "aborted" => PairwiseConflict(sig[k])
                        /\ status[k] \in {"ready", "done", "failed"} => ~PairwiseConflict(sig[k])
        BY DEF InitAbortIffConflict
    <2>1. sig[k] \in Seq(Member)
        BY DEF TypeOK
    <2>2. QED
        BY <2>1, AbortIffConflict DEF AccessInv
<1>3. QED
    BY <1>1, <1>2, PTL

-----------------------------------------------------------------------------
(* No run panics in a debug build without tuple members or retries.       *)

\* Every leaf get_param extracts from a flat signature that passed
\* try_validate satisfies its own validate: a plain leaf through its member,
\* an Option leaf through Option::get_param.
LEMMA ExtractedValid ==
    ASSUME NEW s \in Seq(Member), IsSignature(s), FlatSignature(s),
           NEW lk, NEW pub, FirstInvalid(s, lk, pub) = 0,
           NEW p \in Extracted(s, lk, pub)
    PROVE  KindValid(LeafAt(s, p), lk, pub)
<1>1. PICK i \in 1..Len(s) : p \in {<<i, j>> : j \in 1..Len(s[i].leaves)}
    BY ExtractedType DEF Positions
<1>2. ~s[i].group /\ ~s[i].opt /\ Len(s[i].leaves) = 1
    BY DEF IsSignature, FlatSignature
<1>3. p = <<i, 1>> /\ LeafAt(s, p) = s[i].leaves[1]
    BY <1>1, <1>2 DEF LeafAt
<1>4. CASE LeafAt(s, p).opt
    BY <1>4 DEF Extracted
<1>5. CASE ~LeafAt(s, p).opt
    <2>1. InvalidMembers(s, lk, pub) = {}
        BY FirstInvalidType
    <2>2. MemberValid(s[i], lk, pub)
        BY <2>1 DEF InvalidMembers
    <2>3. QED
        BY <1>2, <1>3, <1>5, <2>2 DEF MemberValid
<1>6. QED
    BY <1>4, <1>5

\* Service::get_param finds every service it is asked for.
LEMMA NoMissingService ==
    ASSUME NEW s \in Seq(Member), IsSignature(s), FlatSignature(s),
           NEW lk, NEW pub, FirstInvalid(s, lk, pub) = 0
    PROVE  ~MissingService(s, Extracted(s, lk, pub), pub)
<1> SUFFICES ASSUME NEW p \in Extracted(s, lk, pub), LeafAt(s, p).kind = "Service"
             PROVE  LeafAt(s, p).id \in pub
    BY DEF MissingService
<1>1. KindValid(LeafAt(s, p), lk, pub)
    BY ExtractedValid
<1>2. QED
    BY <1>1 DEF KindValid, ServiceValid

\* Two RefCell borrows of one slot, one of them mutable, come from two
\* clashing leaves.
LEMMA BorrowClashConflict ==
    ASSUME NEW s, NEW X \in SUBSET Positions(s), BorrowClash(s, X)
    PROVE  PairwiseConflict(s)
BY DEF BorrowClash, PairwiseConflict, Clash

\* Every signature initialize gave a component is a flat signature.
FlatInv == \A k \in Comp : IsSignature(sig[k]) /\ FlatSignature(sig[k])

\* The inductive strengthening of NoRunPanic.
PanicInv == TypeOK /\ AccessInv /\ FlatInv /\ NoRunPanic

\* The initial state satisfies PanicInv.
LEMMA PanicInit == Init => PanicInv
<1> SUFFICES ASSUME Init PROVE PanicInv
    OBVIOUS
<1>1. \A k \in Comp : sig[k] = <<>>
    BY DEF Init
<1>2. QED
    BY <1>1, TypeInit, AccessInit, ParamsAssumption DEF PanicInv, FlatInv, IsSignature,
       FlatSignature, NoRunPanic, Init

\* Every step keeps PanicInv: a run that passed try_validate finds its
\* services, and never borrows a slot twice, since initialize would have
\* aborted a signature with two clashing leaves.
LEMMA PanicStep ==
    ASSUME DebugAsserts, ~RetryOnError, NoTupleMembers
    PROVE  PanicInv /\ [Next]_vars => PanicInv'
<1> SUFFICES ASSUME PanicInv, [Next]_vars PROVE PanicInv'
    OBVIOUS
<1>1. TypeOK' /\ AccessInv'
    BY TypeStep, AccessStep DEF PanicInv
<1>2. FlatInv'
    <2>1. ASSUME NEW k \in Comp, Initialize(k) PROVE FlatInv'
        <3>1. PICK s \in SigChoices[k] : sig' = [sig EXCEPT ![k] = s]
            BY <2>1 DEF Initialize
        <3>2. IsSignature(s) /\ FlatSignature(s)
            BY DispatchAssumption DEF NoTupleMembers
        <3>3. QED
            BY <3>1, <3>2 DEF PanicInv, FlatInv, TypeOK
    <2>2. CASE UNCHANGED sig
        BY <2>2 DEF PanicInv, FlatInv
    <2>3. QED
        BY <2>1, <2>2 DEF Next, vars, RunNotReady, RunInvoke, RetryFailed,
           StartDispatch, ApplyDeferred, LockConfigs
<1>3. NoRunPanic'
    <2>1. ASSUME NEW k \in Comp, Initialize(k) PROVE NoRunPanic'
        BY <2>1 DEF Initialize, NoRunPanic
    <2>2. ASSUME NEW k \in Comp, RunInvoke(k) PROVE NoRunPanic'
        <3> DEFINE s == sig[k]
                   X == Extracted(s, locked, published)
        <3>1. status[k] = "ready" /\ FirstInvalid(s, locked, published) = 0
            BY <2>2 DEF RunInvoke
        <3>2. s \in Seq(Member) /\ IsSignature(s) /\ FlatSignature(s)
            BY DEF PanicInv, TypeOK, FlatInv
        <3>3. ~MissingService(s, X, published)
            BY <3>1, <3>2, NoMissingService
        <3>4. ~PairwiseConflict(s)
            BY <3>1, <3>2, AbortIffConflict DEF PanicInv, AccessInv
        <3>5. ~BorrowClash(s, X)
            BY <3>2, <3>4, ExtractedType, BorrowClashConflict
        <3>6. panic' = panic
            BY <2>2, <3>3, <3>5 DEF RunInvoke
        <3>7. QED
            BY <3>6 DEF PanicInv, NoRunPanic
    <2>3. ASSUME NEW k \in Comp, RetryFailed(k) PROVE NoRunPanic'
        BY <2>3 DEF RetryFailed
    <2>4. CASE UNCHANGED panic
        BY <2>4 DEF PanicInv, NoRunPanic
    <2>5. QED
        BY <2>1, <2>2, <2>3, <2>4 DEF Next, vars, RunNotReady, StartDispatch,
           ApplyDeferred, LockConfigs
<1>4. QED
    BY <1>1, <1>2, <1>3 DEF PanicInv

\* In a debug build whose entry points take no tuple member, and under a
\* scheduler that does not retry failed components, no get_param of
\* run_unsafe panics: services are checked by validate, and a second borrow
\* of a slot is a conflict initialize aborts.  Each hypothesis is needed:
\* observation A (release build), the tuple finding and observation D
\* (retry) of the README break the property without it.
THEOREM NoRunPanicHolds ==
    ASSUME DebugAsserts, ~RetryOnError, NoTupleMembers
    PROVE  Spec => []NoRunPanic
<1>1. Spec => []PanicInv
    BY PanicInit, PanicStep, PTL DEF Spec
<1>2. QED
    BY <1>1, PTL DEF PanicInv

====
