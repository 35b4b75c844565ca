------------------------------- MODULE Params -------------------------------
(***************************************************************************)
(* The parameter capability abstraction of patina's component model        *)
(* (src/sdk/patina/src/component/params.rs, service.rs).                   *)
(*                                                                         *)
(* A component's entry point takes up to five parameters; the function's   *)
(* Param type is the tuple of them, and a member may itself be a tuple     *)
(* (a "group") of parameters.  A leaf parameter is Config<T>,              *)
(* ConfigMut<T>, Commands or Service<S>, possibly wrapped in Option.  A    *)
(* signature is a sequence of members; a member is a single leaf or a      *)
(* group of leaves, optionally wrapped in Option as a whole.  Deeper        *)
(* nesting is not modelled.                                                *)
(*                                                                         *)
(* A position <<i, j>> names the j-th leaf of the i-th member; positions   *)
(* are ordered lexicographically, which is the order in which the          *)
(* tuple implementations call init_state and get_param.                    *)
(***************************************************************************)
EXTENDS Naturals, Sequences

CONSTANTS
    Cfg,        \* configuration types (one slot per type)
    Svc,        \* service interfaces
    NoId,       \* the id of a leaf that names no slot (Commands)
    MaxParams,  \* members of an entry point (impl_param_function!, 5)
    MaxGroup    \* leaves of a tuple member (impl_component_param_tuple!, 5)

ASSUME ParamsAssumption ==
    /\ NoId \notin Cfg \cup Svc
    /\ Cfg \cap Svc = {}
    /\ MaxParams \in Nat
    /\ MaxGroup \in Nat \ {0}

Kinds == {"Config", "ConfigMut", "Commands", "Service"}

Leaf ==
    [kind : {"Config", "ConfigMut"}, id : Cfg, opt : BOOLEAN]
      \cup [kind : {"Service"}, id : Svc, opt : BOOLEAN]
      \cup [kind : {"Commands"}, id : {NoId}, opt : BOOLEAN]

\* A non-group member has exactly one leaf, which carries its own Option.
Member == [group : BOOLEAN, opt : BOOLEAN, leaves : Seq(Leaf)]

IsSignature(s) ==
    /\ s \in Seq(Member)
    /\ Len(s) <= MaxParams
    /\ \A i \in 1..Len(s) :
          /\ Len(s[i].leaves) <= MaxGroup
          /\ ~s[i].group => Len(s[i].leaves) = 1 /\ ~s[i].opt

Positions(s) ==
    UNION {{<<i, j>> : j \in 1..Len(s[i].leaves)} : i \in 1..Len(s)}

LeafAt(s, p) == s[p[1]].leaves[p[2]]

Before(p, q) == p[1] < q[1] \/ (p[1] = q[1] /\ p[2] < q[2])

-----------------------------------------------------------------------------
(***************************************************************************)
(* Registration (Param::init_state).  The access record (MetaData's       *)
(* Access) holds the config ids read, the ids written and the deferred     *)
(* flag; each leaf checks itself against what the earlier leaves recorded *)
(* (debug_assert!) and then records its own access.                        *)
(***************************************************************************)
Footprint(s, P) ==
    [reads    |-> {LeafAt(s, p).id : p \in {q \in P : LeafAt(s, q).kind = "Config"}},
     writes   |-> {LeafAt(s, p).id : p \in {q \in P : LeafAt(s, q).kind = "ConfigMut"}},
     deferred |-> \E p \in P : LeafAt(s, p).kind = "Commands"]

\* Config::init_state: conflicts with an earlier ConfigMut of the same type.
ConfigInitConflict(l, fp) == l.id \in fp.writes

\* Mutation variant: the has_config_read assertion dropped.
ConfigMutInitConflictNoRead(l, fp) == l.id \in fp.writes

\* ConfigMut::init_state: conflicts with an earlier Config or ConfigMut of
\* the same type.
ConfigMutInitConflict(l, fp) == l.id \in fp.writes \/ l.id \in fp.reads

\* Commands::init_state: conflicts with an earlier Commands.
CommandsInitConflict(l, fp) == fp.deferred

\* The debug_assert! checks of one leaf's init_state against the record of
\* the leaves before it; Option<P> delegates to P, Service records nothing.
ConflictsWith(l, fp) ==
    CASE l.kind = "Config"    -> ConfigInitConflict(l, fp)
      [] l.kind = "ConfigMut" -> ConfigMutInitConflict(l, fp)
      [] l.kind = "Commands"  -> CommandsInitConflict(l, fp)
      [] l.kind = "Service"   -> FALSE

Earlier(s, p) == {q \in Positions(s) : Before(q, p)}

\* The positions whose init_state would fail its debug_assert!.
AbortPositions(s) ==
    {p \in Positions(s) : ConflictsWith(LeafAt(s, p), Footprint(s, Earlier(s, p)))}

\* The leaves whose init_state runs: all of them, or those up to the first
\* failing one when the assertions are compiled in.
Registered(s, debug) ==
    IF debug /\ AbortPositions(s) # {}
    THEN {p \in Positions(s) :
            \E a \in AbortPositions(s) : ~Before(a, p)
                /\ \A b \in AbortPositions(s) : ~Before(b, a)}
    ELSE Positions(s)

\* Config ids whose slot init_state creates (add_config_default_if_not_present)
\* and those it unlocks (ConfigMut::init_state, unlock_config).
CreatedIds(s, P) ==
    {LeafAt(s, p).id : p \in {q \in P : LeafAt(s, q).kind \in {"Config", "ConfigMut"}}}

UnlockedIds(s, P) == Footprint(s, P).writes

-----------------------------------------------------------------------------
(***************************************************************************)
(* Validation and extraction.  locked is the per-slot locked flag,         *)
(* published the set of services present in storage.                      *)
(***************************************************************************)
\* Mutation variants: the is_locked test dropped.
ConfigValidNoLock(l, locked) == TRUE

ConfigMutValidNoLock(l, locked) == TRUE

\* Config::validate: only a locked datum can be read.
ConfigValid(l, locked) == locked[l.id]

\* ConfigMut::validate: only an unlocked datum can be written.
ConfigMutValid(l, locked) == ~locked[l.id]

\* Commands::validate is the constant TRUE.
CommandsValid(l) == TRUE

\* Mutation variant: Service::validate without the storage lookup.
ServiceValidUnchecked(l, published) == TRUE

\* Service::validate: the service has been published.
ServiceValid(l, published) == l.id \in published

KindValid(l, locked, published) ==
    CASE l.kind = "Config"    -> ConfigValid(l, locked)
      [] l.kind = "ConfigMut" -> ConfigMutValid(l, locked)
      [] l.kind = "Commands"  -> CommandsValid(l)
      [] l.kind = "Service"   -> ServiceValid(l, published)

\* Param::validate of a member: Option is always valid, and so is a tuple,
\* whose validate is the constant TRUE.
MemberValid(m, locked, published) ==
    \/ m.group
    \/ m.leaves[1].opt
    \/ KindValid(m.leaves[1], locked, published)

\* The entry point's try_validate: the index of the first member that fails
\* validate, or 0 when all pass.
InvalidMembers(s, locked, published) ==
    {i \in 1..Len(s) : ~MemberValid(s[i], locked, published)}

FirstInvalid(s, locked, published) ==
    IF InvalidMembers(s, locked, published) = {} THEN 0
    ELSE CHOOSE i \in InvalidMembers(s, locked, published) :
            \A j \in InvalidMembers(s, locked, published) : i <= j

\* Mutation variant: Option<P>::get_param without its P::validate test.
ExtractedIgnoringOption(s, locked, published) == Positions(s)

\* get_param: the positions that yield a handle.  An Option leaf yields None
\* when its inner parameter is invalid; every other leaf is fetched without
\* a further check.
Extracted(s, locked, published) ==
    {p \in Positions(s) : ~LeafAt(s, p).opt \/ KindValid(LeafAt(s, p), locked, published)}

\* Service::get_param on an unpublished service panics.
MissingService(s, X, published) ==
    \E p \in X : LeafAt(s, p).kind = "Service" /\ LeafAt(s, p).id \notin published

\* Two RefCell borrows of one slot, at least one of them mutable, panic.
BorrowClash(s, X) ==
    \E p, q \in X :
        /\ p # q
        /\ LeafAt(s, p).kind \in {"Config", "ConfigMut"}
        /\ LeafAt(s, q).kind = "ConfigMut"
        /\ LeafAt(s, p).id = LeafAt(s, q).id

ReadIds(s, X) == Footprint(s, X).reads

WriteIds(s, X) == Footprint(s, X).writes

HasCommands(s, X) == Footprint(s, X).deferred

-----------------------------------------------------------------------------
(***************************************************************************)
(* Reference definition of a conflicting signature (spec 3 and 4.2): two    *)
(* distinct leaves whose accesses may not coexist, whatever their order.   *)
(***************************************************************************)
Clash(l1, l2) ==
    \/ /\ l1.kind \in {"Config", "ConfigMut"} /\ l2.kind \in {"Config", "ConfigMut"}
       /\ "ConfigMut" \in {l1.kind, l2.kind}
       /\ l1.id = l2.id
    \/ l1.kind = "Commands" /\ l2.kind = "Commands"

PairwiseConflict(s) ==
    \E p, q \in Positions(s) : p # q /\ Clash(LeafAt(s, p), LeafAt(s, q))

=============================================================================
