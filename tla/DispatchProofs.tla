--------------------------- MODULE DispatchProofs ---------------------------
(***************************************************************************)
(* Proofs about the Dispatch specification: type correctness for every     *)
(* value of the constants, and that a value read through Config<T> always  *)
(* comes from a slot that is and stays locked, when no entry point takes a *)
(* tuple parameter and every component is initialized before dispatch.     *)
(***************************************************************************)
EXTENDS Dispatch, WellFoundedInduction, TLAPS

-----------------------------------------------------------------------------
(* Lemmas about the operators of Params.                                   *)

\* A non-empty set of naturals has a least element.
LEMMA MinExists ==
    ASSUME NEW S, S \subseteq Nat, S # {}
    PROVE  \E i \in S : \A j \in S : i <= j
<1>1. \E x \in S : \A y \in S : ~(<<y, x>> \in OpToRel(<, Nat))
    <2>1. IsWellFoundedOn(OpToRel(<, Nat), Nat)
        BY NatLessThanWellFounded
    <2>2. QED
        BY <2>1, WFMin, Zenon
<1>2. PICK x \in S : \A y \in S : ~(<<y, x>> \in OpToRel(<, Nat))
    BY <1>1
<1>3. \A y \in S : ~(y < x)
    BY <1>2 DEF OpToRel
<1>4. QED
    BY <1>3

\* try_validate reports 0 exactly when no member fails, and otherwise a
\* member index that fails.
LEMMA FirstInvalidType ==
    ASSUME NEW s \in Seq(Member), NEW lk, NEW pub
    PROVE  /\ FirstInvalid(s, lk, pub) \in 0..Len(s)
           /\ FirstInvalid(s, lk, pub) = 0 <=> InvalidMembers(s, lk, pub) = {}
<1> DEFINE I == InvalidMembers(s, lk, pub)
<1>1. I \subseteq 1..Len(s)
    BY DEF InvalidMembers
<1>2. CASE I = {}
    BY <1>2 DEF FirstInvalid
<1>3. CASE I # {}
    <2>1. \E i \in I : \A j \in I : i <= j
        BY <1>1, <1>3, MinExists
    <2>2. FirstInvalid(s, lk, pub) \in I
        BY <1>3, <2>1 DEF FirstInvalid
    <2>3. QED
        BY <1>1, <2>2
<1>4. QED
    BY <1>2, <1>3

\* Every position of a signature names a leaf.
LEMMA LeafAtType ==
    ASSUME NEW s \in Seq(Member), NEW p \in Positions(s)
    PROVE  LeafAt(s, p) \in Leaf
<1>1. PICK i \in 1..Len(s) : p \in {<<i, j>> : j \in 1..Len(s[i].leaves)}
    BY DEF Positions
<1>2. s[i] \in Member
    OBVIOUS
<1>3. s[i].leaves \in Seq(Leaf)
    BY <1>2 DEF Member
<1>4. QED
    BY <1>1, <1>3 DEF LeafAt

\* The config ids a set of positions reads or writes are config types.
LEMMA FootprintType ==
    ASSUME NEW s \in Seq(Member), NEW P \in SUBSET Positions(s)
    PROVE  /\ Footprint(s, P).reads \subseteq Cfg
           /\ Footprint(s, P).writes \subseteq Cfg
           /\ Footprint(s, P).deferred \in BOOLEAN
<1>1. \A p \in P : LeafAt(s, p) \in Leaf
    BY LeafAtType
<1>2. \A p \in P : LeafAt(s, p).kind \in {"Config", "ConfigMut"} => LeafAt(s, p).id \in Cfg
    BY <1>1 DEF Leaf
<1>3. QED
    BY <1>2 DEF Footprint

\* init_state creates only config slots.
LEMMA CreatedIdsType ==
    ASSUME NEW s \in Seq(Member), NEW P \in SUBSET Positions(s)
    PROVE  CreatedIds(s, P) \subseteq Cfg
<1>1. \A p \in P : LeafAt(s, p) \in Leaf
    BY LeafAtType
<1>2. \A p \in P : LeafAt(s, p).kind \in {"Config", "ConfigMut"} => LeafAt(s, p).id \in Cfg
    BY <1>1 DEF Leaf
<1>3. QED
    BY <1>2 DEF CreatedIds

\* init_state runs on positions of the signature.
LEMMA RegisteredType ==
    ASSUME NEW s \in Seq(Member), NEW d
    PROVE  Registered(s, d) \subseteq Positions(s)
BY DEF Registered

\* get_param extracts positions of the signature.
LEMMA ExtractedType ==
    ASSUME NEW s \in Seq(Member), NEW lk, NEW pub
    PROVE  Extracted(s, lk, pub) \subseteq Positions(s)
BY DEF Extracted

\* A run's batch of deferred commands is a sequence of commands.
LEMMA BatchType ==
    ASSUME NEW n \in Int
    PROVE  Batch(n) \subseteq Seq(Cmd)
<1> SUFFICES ASSUME NEW b \in Batch(n) PROVE b \in Seq(Cmd)
    OBVIOUS
<1>1. PICK m \in 0..n : b \in [1..m -> Cmd]
    BY DEF Batch
<1> QED
    BY <1>1

\* apply_deferred runs the queue in order, so of several add_config closures
\* for one slot the last wins: the position LastConfigWrite names is unique.
LEMMA LastWriteUnique ==
    ASSUME queue \in Seq(Cmd), NEW c,
           NEW i \in LastConfigWrite(c), NEW j \in LastConfigWrite(c)
    PROVE  i = j
BY DEF LastConfigWrite

\* A slot has a last add_config in the queue exactly when the queue adds it.
LEMMA LastWriteExists ==
    ASSUME queue \in Seq(Cmd), NEW c
    PROVE  LastConfigWrite(c) # {} <=> c \in ConfigsAdded(queue)
<1>1. LastConfigWrite(c) # {} => c \in ConfigsAdded(queue)
    BY DEF LastConfigWrite, ConfigsAdded
<1>2. ASSUME c \in ConfigsAdded(queue) PROVE LastConfigWrite(c) # {}
    <2> DEFINE A == {i \in 1..Len(queue) : queue[i].op = "add_config" /\ queue[i].id = c}
               D == {Len(queue) - i : i \in A}
    <2>1. A # {}
        BY <1>2 DEF ConfigsAdded
    <2>2. D \subseteq Nat /\ D # {}
        BY <2>1
    <2>3. PICK d \in D : \A e \in D : d <= e
        BY <2>2, MinExists
    <2>4. PICK i \in A : d = Len(queue) - i
        BY <2>3
    <2>5. ASSUME NEW j \in A PROVE j <= i
        <3>1. Len(queue) - j \in D
            OBVIOUS
        <3>2. d <= Len(queue) - j
            BY <2>3, <3>1
        <3> QED
            BY <2>4, <3>2
    <2>6. i \in LastConfigWrite(c)
        BY <2>5 DEF LastConfigWrite
    <2> QED
        BY <2>6
<1> QED
    BY <1>1, <1>2

-----------------------------------------------------------------------------
(* Type correctness.                                                       *)

USE ParamsAssumption, DispatchAssumption

\* The initial state is well typed.
LEMMA TypeInit == Init => TypeOK
    <2> SUFFICES ASSUME Init PROVE TypeOK
        OBVIOUS
    <2>1. sig \in [Comp -> Seq(Member)] /\ queue \in Seq(Cmd)
        BY DEF Init
    <2>2. seen \in [Comp -> [Cfg -> Val \cup {NoVal}]]
        BY DEF Init
    <2>3. status \in [Comp -> Status] /\ failed \in [Comp -> Nat]
        BY DEF Init, Status
    <2>4. exists \in [Cfg -> BOOLEAN] /\ locked \in [Cfg -> BOOLEAN] /\ value \in [Cfg -> Val]
        BY DEF Init
    <2>5. QED
        BY <2>1, <2>2, <2>3, <2>4 DEF Init, TypeOK

\* Every step of the handlers keeps the state well typed.
LEMMA TypeStep == TypeOK /\ [Next]_vars => TypeOK'
    <2> SUFFICES ASSUME TypeOK, [Next]_vars PROVE TypeOK'
        OBVIOUS
    <2>1. ASSUME NEW k \in Comp, Initialize(k) PROVE TypeOK'
        <3>1. PICK s \in SigChoices[k] :
                LET P == Registered(s, DebugAsserts)
                    aborts == DebugAsserts /\ AbortPositions(s) # {}
                IN  /\ sig' = [sig EXCEPT ![k] = s]
                    /\ exists' = [c \in Cfg |-> exists[c] \/ c \in CreatedIds(s, P)]
                    /\ locked' = [c \in Cfg |->
                                    IF c \in UnlockedIds(s, P) THEN FALSE
                                    ELSE IF exists[c] THEN locked[c] ELSE TRUE]
                    /\ value' = [c \in Cfg |-> IF exists[c] THEN value[c] ELSE DefaultVal]
                    /\ status' = [status EXCEPT ![k] = IF aborts THEN "aborted" ELSE "ready"]
                    /\ panic' = IF aborts THEN "init_conflict" ELSE "none"
            BY <2>1 DEF Initialize
        <3>2. s \in Seq(Member)
            BY DEF IsSignature
        <3>3. QED
            BY <2>1, <3>1, <3>2 DEF Initialize, TypeOK, Status
    <2>2. ASSUME NEW k \in Comp, RunNotReady(k) PROVE TypeOK'
        <3>1. FirstInvalid(sig[k], locked, published) \in Nat
            BY FirstInvalidType DEF TypeOK
        <3>2. QED
            BY <2>2, <3>1 DEF RunNotReady, TypeOK
    <2>3. ASSUME NEW k \in Comp, RunInvoke(k) PROVE TypeOK'
        <3> DEFINE s == sig[k]
                   X == Extracted(s, locked, published)
                   W == WriteIds(s, X)
        <3>1. s \in Seq(Member)
            BY DEF TypeOK
        <3>2. W \subseteq Cfg /\ ReadIds(s, X) \subseteq Cfg
            BY <3>1, ExtractedType, FootprintType DEF WriteIds, ReadIds
        <3>3. CASE MissingService(s, X, published) \/ BorrowClash(s, X)
            BY <2>3, <3>3 DEF RunInvoke, TypeOK
        <3>4. CASE ~(MissingService(s, X, published) \/ BorrowClash(s, X))
            <4>1. PICK nv \in [W -> Val], lk \in SUBSET W, ok \in BOOLEAN,
                     cmds \in IF HasCommands(s, X) /\ Len(queue) < MaxQueue
                              THEN Batch(MaxQueue - Len(queue)) ELSE {<<>>} :
                    /\ value' = [c \in Cfg |-> IF c \in W THEN nv[c] ELSE value[c]]
                    /\ locked' = [c \in Cfg |-> locked[c] \/ c \in lk]
                    /\ seen' = [seen EXCEPT ![k] =
                                  [c \in Cfg |-> IF c \in ReadIds(s, X) THEN value[c]
                                                 ELSE seen[k][c]]]
                    /\ queue' = queue \o cmds
                    /\ status' = [status EXCEPT ![k] =
                                    IF ~ok THEN "failed"
                                    ELSE IF Mode[k] = "RunOnce" THEN "done" ELSE "ready"]
                    /\ UNCHANGED <<sig, failed, exists, published, dispatching, panic>>
                BY <2>3, <3>4 DEF RunInvoke
            <4>2. cmds \in Seq(Cmd)
                <5>1. CASE HasCommands(s, X) /\ Len(queue) < MaxQueue
                    <6>1. MaxQueue - Len(queue) \in Int
                        BY DEF TypeOK
                    <6>2. cmds \in Batch(MaxQueue - Len(queue))
                        BY <4>1, <5>1, Zenon
                    <6>3. QED
                        BY <6>1, <6>2, BatchType
                <5>2. CASE ~(HasCommands(s, X) /\ Len(queue) < MaxQueue)
                    <6>1. cmds = <<>>
                        BY <4>1, <5>2, Zenon
                    <6>2. QED
                        BY <6>1
                <5>3. QED
                    BY <5>1, <5>2
            <4>3. queue' \in Seq(Cmd)
                BY <4>1, <4>2 DEF TypeOK
            <4>4. value' \in [Cfg -> Val]
                BY <4>1, <3>2 DEF TypeOK
            <4>5. seen' \in [Comp -> [Cfg -> Val \cup {NoVal}]]
                BY <4>1 DEF TypeOK
            <4>6. QED
                BY <4>1, <4>3, <4>4, <4>5 DEF TypeOK, Status
        <3>5. QED
            BY <3>3, <3>4
    <2>4. CASE StartDispatch
        BY <2>4 DEF StartDispatch, TypeOK, Status
    <2>5. CASE ApplyDeferred
        <3> DEFINE W == ConfigsAdded(queue)
        <3>1. \A c \in Cfg : LastConfigWrite(c) # {} =>
                 queue[CHOOSE i \in LastConfigWrite(c) : TRUE].val \in Val
            <4> SUFFICES ASSUME NEW c \in Cfg, LastConfigWrite(c) # {}
                         PROVE  queue[CHOOSE i \in LastConfigWrite(c) : TRUE].val \in Val
                OBVIOUS
            <4>1. PICK i \in LastConfigWrite(c) : i = CHOOSE j \in LastConfigWrite(c) : TRUE
                OBVIOUS
            <4>2. i \in 1..Len(queue) /\ queue[i].op = "add_config"
                BY <4>1 DEF LastConfigWrite
            <4>3. queue[i] \in Cmd
                BY <4>2 DEF TypeOK
            <4>4. queue[i].val \in Val
                BY <4>2, <4>3 DEF Cmd
            <4>5. QED
                BY <4>1, <4>4
        <3>2. value' \in [Cfg -> Val]
            BY <2>5, <3>1 DEF ApplyDeferred, TypeOK
        <3>3. ServicesAdded(queue) \subseteq Svc
            BY DEF ServicesAdded, TypeOK, Cmd
        <3>4. ConfigsAdded(queue) \subseteq Cfg
            BY DEF ConfigsAdded, TypeOK, Cmd
        <3>5. exists' \in [Cfg -> BOOLEAN] /\ locked' \in [Cfg -> BOOLEAN]
            BY <2>5 DEF ApplyDeferred, TypeOK
        <3>6. published' \subseteq Svc /\ queue' \in Seq(Cmd)
            BY <2>5, <3>3 DEF ApplyDeferred, TypeOK
        <3>7. QED
            BY <2>5, <3>2, <3>5, <3>6 DEF ApplyDeferred, TypeOK, Status
    <2>6. CASE LockConfigs
        BY <2>6 DEF LockConfigs, TypeOK, Status
    <2>7. CASE UNCHANGED vars
        BY <2>7 DEF vars, TypeOK, Status
    <2>8. ASSUME NEW k \in Comp, RetryFailed(k) PROVE TypeOK'
        <3>1. FirstInvalid(sig[k], locked, published) \in Nat
            BY FirstInvalidType DEF TypeOK
        <3>2. \/ failed' = [failed EXCEPT ![k] = FirstInvalid(sig[k], locked, published)]
                 /\ UNCHANGED <<status, panic>>
              \/ status' = [status EXCEPT ![k] = "ready"] /\ UNCHANGED <<failed, panic>>
              \/ panic' = "run_panic" /\ UNCHANGED <<status, failed>>
            BY <2>8 DEF RetryFailed
        <3>3. UNCHANGED <<sig, exists, locked, value, published, queue, seen, dispatching>>
            BY <2>8 DEF RetryFailed
        <3>4. CASE failed' = [failed EXCEPT ![k] = FirstInvalid(sig[k], locked, published)]
                   /\ UNCHANGED <<status, panic>>
            BY <3>1, <3>3, <3>4 DEF TypeOK
        <3>5. CASE status' = [status EXCEPT ![k] = "ready"] /\ UNCHANGED <<failed, panic>>
            BY <3>3, <3>5 DEF TypeOK, Status
        <3>6. CASE panic' = "run_panic" /\ UNCHANGED <<status, failed>>
            BY <3>3, <3>6 DEF TypeOK
        <3>7. QED
            BY <3>2, <3>4, <3>5, <3>6
    <2>9. QED
        BY <2>1, <2>2, <2>3, <2>4, <2>5, <2>6, <2>7, <2>8 DEF Next

\* Every reachable state is well typed: the handlers keep slots, the queue,
\* the recorded failing member and the read values within their types.
THEOREM TypeCorrect == Spec => []TypeOK
BY TypeInit, TypeStep, PTL DEF Spec

-----------------------------------------------------------------------------
(* Reads of locked configuration.                                          *)

\* The inductive strengthening of ConfigReadsFrozen: signatures are flat,
\* no component has read anything before dispatch began, and every read
\* slot is locked.
ReadsInv ==
    /\ TypeOK
    /\ \A k \in Comp : IsSignature(sig[k]) /\ FlatSignature(sig[k])
    /\ (\E k \in Comp, c \in Cfg : seen[k][c] # NoVal) => dispatching
    /\ ConfigReadsFrozen

\* In a flat signature that passed try_validate, every Config leaf get_param
\* extracts names a locked slot: a plain leaf was checked by its member's
\* validate, an Option leaf by Option::get_param.
LEMMA ReadsLocked ==
    ASSUME NEW s \in Seq(Member), IsSignature(s), FlatSignature(s),
           NEW lk \in [Cfg -> BOOLEAN], NEW pub,
           FirstInvalid(s, lk, pub) = 0,
           NEW c \in ReadIds(s, Extracted(s, lk, pub))
    PROVE  lk[c]
<1> DEFINE X == Extracted(s, lk, pub)
<1>1. PICK p \in X : LeafAt(s, p).kind = "Config" /\ LeafAt(s, p).id = c
    BY DEF ReadIds, Footprint
<1>2. PICK i \in 1..Len(s) : p \in {<<i, j>> : j \in 1..Len(s[i].leaves)}
    BY <1>1, ExtractedType DEF Positions
<1>3. ~s[i].group /\ ~s[i].opt /\ Len(s[i].leaves) = 1
    BY DEF IsSignature, FlatSignature
<1>4. p = <<i, 1>> /\ LeafAt(s, p) = s[i].leaves[1]
    BY <1>2, <1>3 DEF LeafAt
<1>5. KindValid(LeafAt(s, p), lk, pub)
    <2>1. CASE LeafAt(s, p).opt
        BY <1>1, <2>1 DEF Extracted
    <2>2. CASE ~LeafAt(s, p).opt
        <3>1. InvalidMembers(s, lk, pub) = {}
            BY FirstInvalidType
        <3>2. MemberValid(s[i], lk, pub)
            BY <3>1 DEF InvalidMembers
        <3>3. QED
            BY <1>3, <1>4, <2>2, <3>2 DEF MemberValid
    <2>3. QED
        BY <2>1, <2>2
<1>6. QED
    BY <1>1, <1>5 DEF KindValid, ConfigValid

\* Dually, every ConfigMut leaf get_param extracts from a flat signature
\* that passed try_validate names an unlocked slot.
LEMMA WritesUnlocked ==
    ASSUME NEW s \in Seq(Member), IsSignature(s), FlatSignature(s),
           NEW lk \in [Cfg -> BOOLEAN], NEW pub,
           FirstInvalid(s, lk, pub) = 0,
           NEW c \in WriteIds(s, Extracted(s, lk, pub))
    PROVE  ~lk[c]
<1> DEFINE X == Extracted(s, lk, pub)
<1>1. PICK p \in X : LeafAt(s, p).kind = "ConfigMut" /\ LeafAt(s, p).id = c
    BY DEF WriteIds, Footprint
<1>2. PICK i \in 1..Len(s) : p \in {<<i, j>> : j \in 1..Len(s[i].leaves)}
    BY <1>1, ExtractedType DEF Positions
<1>3. ~s[i].group /\ ~s[i].opt /\ Len(s[i].leaves) = 1
    BY DEF IsSignature, FlatSignature
<1>4. p = <<i, 1>> /\ LeafAt(s, p) = s[i].leaves[1]
    BY <1>2, <1>3 DEF LeafAt
<1>5. KindValid(LeafAt(s, p), lk, pub)
    <2>1. CASE LeafAt(s, p).opt
        BY <1>1, <2>1 DEF Extracted
    <2>2. CASE ~LeafAt(s, p).opt
        <3>1. InvalidMembers(s, lk, pub) = {}
            BY FirstInvalidType
        <3>2. MemberValid(s[i], lk, pub)
            BY <3>1 DEF InvalidMembers
        <3>3. QED
            BY <1>3, <1>4, <2>2, <3>2 DEF MemberValid
    <2>3. QED
        BY <2>1, <2>2
<1>6. QED
    BY <1>1, <1>5 DEF KindValid, ConfigMutValid


\* The initial state satisfies ReadsInv: no signature, nothing read.
LEMMA ReadsInit == Init => ReadsInv
<1> SUFFICES ASSUME Init PROVE ReadsInv
    OBVIOUS
<1>1. TypeOK
    BY TypeInit
<1>2. \A k \in Comp : sig[k] = <<>>
    BY DEF Init
<1>3. QED
    BY <1>1, <1>2 DEF Init, ReadsInv, IsSignature, FlatSignature, ConfigReadsFrozen

\* Without a tuple member and with every component initialized before
\* dispatch, ReadsInv is inductive.
LEMMA ReadsInvInductive ==
    ASSUME ~LateInit, NoTupleMembers
    PROVE  ReadsInv /\ [Next]_vars => ReadsInv'
<1> SUFFICES ASSUME ReadsInv, [Next]_vars PROVE ReadsInv'
    OBVIOUS
<1>1. TypeOK'
    BY TypeStep DEF ReadsInv
<1>2. ASSUME NEW k \in Comp, Initialize(k) PROVE ReadsInv'
    <2>1. ~dispatching
        BY <1>2 DEF Initialize
    <2>2. \A j \in Comp, c \in Cfg : seen[j][c] = NoVal
        BY <2>1 DEF ReadsInv
    <2>3. PICK s \in SigChoices[k] : sig' = [sig EXCEPT ![k] = s]
        BY <1>2 DEF Initialize
    <2>4. IsSignature(s) /\ FlatSignature(s)
        BY DEF NoTupleMembers
    <2>5. QED
        BY <1>1, <1>2, <2>2, <2>3, <2>4 DEF Initialize, ReadsInv, TypeOK, ConfigReadsFrozen
<1>3. ASSUME NEW k \in Comp, RunNotReady(k) PROVE ReadsInv'
    BY <1>1, <1>3 DEF RunNotReady, ReadsInv, ConfigReadsFrozen
<1>4. ASSUME NEW k \in Comp, RunInvoke(k) PROVE ReadsInv'
    <2> DEFINE s == sig[k]
               X == Extracted(s, locked, published)
               W == WriteIds(s, X)
    <2>1. \A c \in ReadIds(s, X) : locked[c]
        BY <1>4, ReadsLocked DEF RunInvoke, ReadsInv, TypeOK
    <2>2. CASE MissingService(s, X, published) \/ BorrowClash(s, X)
        BY <1>1, <1>4, <2>2 DEF RunInvoke, ReadsInv, ConfigReadsFrozen
    <2>3. CASE ~(MissingService(s, X, published) \/ BorrowClash(s, X))
        <3>1. PICK lk \in SUBSET W :
                /\ locked' = [c \in Cfg |-> locked[c] \/ c \in lk]
                /\ seen' = [seen EXCEPT ![k] =
                              [c \in Cfg |-> IF c \in ReadIds(s, X) THEN value[c]
                                             ELSE seen[k][c]]]
                /\ UNCHANGED <<sig, dispatching>>
            BY <1>4, <2>3 DEF RunInvoke
        <3>2. ConfigReadsFrozen'
            BY <2>1, <3>1 DEF ReadsInv, TypeOK, ConfigReadsFrozen
        <3>3. QED
            BY <1>1, <1>4, <3>1, <3>2 DEF RunInvoke, ReadsInv
    <2>4. QED
        BY <2>2, <2>3
<1>5. CASE StartDispatch
    BY <1>1, <1>5 DEF StartDispatch, ReadsInv, ConfigReadsFrozen
<1>6. CASE ApplyDeferred
    <2>1. \A c \in Cfg : locked[c] => locked'[c]
        BY <1>6 DEF ApplyDeferred, ReadsInv, TypeOK
    <2>2. QED
        BY <1>1, <1>6, <2>1 DEF ApplyDeferred, ReadsInv, ConfigReadsFrozen
<1>7. CASE LockConfigs
    BY <1>1, <1>7 DEF LockConfigs, ReadsInv, ConfigReadsFrozen
<1>8. CASE UNCHANGED vars
    BY <1>1, <1>8 DEF vars, ReadsInv, ConfigReadsFrozen
<1>9. ASSUME NEW k \in Comp, RetryFailed(k) PROVE ReadsInv'
    BY <1>1, <1>9 DEF RetryFailed, ReadsInv, ConfigReadsFrozen
<1>10. QED
    BY <1>2, <1>3, <1>4, <1>5, <1>6, <1>7, <1>8, <1>9 DEF Next

\* A value a component reads through Config<T> (Config::validate,
\* try_validate, get_param) always comes from a slot that is locked and stays
\* locked, for every set of components and configuration types, provided no
\* entry point takes a tuple parameter (whose validate is TRUE) and the
\* dispatcher initializes every component before it runs any
\* (ConfigMut::init_state unlocks unconditionally).
THEOREM ConfigReadsFrozenHolds ==
    ASSUME ~LateInit, NoTupleMembers
    PROVE  Spec => []ConfigReadsFrozen
<1>1. Init => ReadsInv
    BY ReadsInit
<1>2. ReadsInv /\ [Next]_vars => ReadsInv'
    BY ReadsInvInductive
<1>3. ReadsInv => ConfigReadsFrozen
    BY DEF ReadsInv
<1>4. QED
    BY <1>1, <1>2, <1>3, PTL DEF Spec

\* Under the same conditions, once dispatch began no step unlocks an
\* existing locked slot, and only apply_deferred (which empties the queue)
\* changes its value: entry points write only the slots their ConfigMut
\* validated as unlocked, and lock_configs only locks.
THEOREM LockedConfigStableHolds ==
    ASSUME ~LateInit, NoTupleMembers
    PROVE  Spec => LockedConfigStable
<1> DEFINE Stable ==
        dispatching =>
            \A c \in Cfg : exists[c] /\ locked[c] =>
                /\ locked'[c]
                /\ value'[c] = value[c] \/ Len(queue') < Len(queue)
<1>1. ReadsInv /\ [Next]_vars => Stable
    <2> SUFFICES ASSUME ReadsInv, [Next]_vars, dispatching,
                        NEW c \in Cfg, exists[c], locked[c]
                 PROVE  locked'[c] /\ (value'[c] = value[c] \/ Len(queue') < Len(queue))
        OBVIOUS
    <2>1. ASSUME NEW k \in Comp, Initialize(k) PROVE FALSE
        BY <2>1 DEF Initialize
    <2>2. ASSUME NEW k \in Comp, RunNotReady(k)
          PROVE  locked'[c] /\ (value'[c] = value[c] \/ Len(queue') < Len(queue))
        BY <2>2 DEF RunNotReady
    <2>3. ASSUME NEW k \in Comp, RunInvoke(k)
          PROVE  locked'[c] /\ (value'[c] = value[c] \/ Len(queue') < Len(queue))
        <3> DEFINE s == sig[k]
                   X == Extracted(s, locked, published)
                   W == WriteIds(s, X)
        <3>1. c \notin W
            BY <2>3, WritesUnlocked DEF RunInvoke, ReadsInv, TypeOK
        <3>2. CASE MissingService(s, X, published) \/ BorrowClash(s, X)
            BY <2>3, <3>2 DEF RunInvoke
        <3>3. CASE ~(MissingService(s, X, published) \/ BorrowClash(s, X))
            <4>1. PICK nv \in [W -> Val], lk \in SUBSET W :
                    /\ value' = [d \in Cfg |-> IF d \in W THEN nv[d] ELSE value[d]]
                    /\ locked' = [d \in Cfg |-> locked[d] \/ d \in lk]
                BY <2>3, <3>3 DEF RunInvoke
            <4>2. QED
                BY <3>1, <4>1
        <3>4. QED
            BY <3>2, <3>3
    <2>4. CASE StartDispatch
        BY <2>4 DEF StartDispatch
    <2>5. CASE ApplyDeferred
        <3>1. locked'[c]
            BY <2>5 DEF ApplyDeferred
        <3>2. Len(queue') < Len(queue)
            BY <2>5 DEF ApplyDeferred, ReadsInv, TypeOK
        <3>3. QED
            BY <3>1, <3>2
    <2>6. CASE LockConfigs
        BY <2>6 DEF LockConfigs
    <2>7. CASE UNCHANGED vars
        BY <2>7 DEF vars
    <2>8. ASSUME NEW k \in Comp, RetryFailed(k)
          PROVE  locked'[c] /\ (value'[c] = value[c] \/ Len(queue') < Len(queue))
        BY <2>8 DEF RetryFailed
    <2>9. QED
        BY <2>1, <2>2, <2>3, <2>4, <2>5, <2>6, <2>7, <2>8 DEF Next
<1>2. Spec => []ReadsInv
    BY ReadsInit, ReadsInvInductive, PTL DEF Spec
<1>3. QED
    BY <1>1, <1>2, PTL DEF Spec, LockedConfigStable

=============================================================================
