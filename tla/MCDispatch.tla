----------------------------- MODULE MCDispatch -----------------------------
(***************************************************************************)
(* Instances of Dispatch for TLC.  Leaves and members are built by the     *)
(* operators below; each run's cfg picks the signatures of its components. *)
(***************************************************************************)
EXTENDS Dispatch, TLC

CONSTANTS c1, c2, s1

MCCfg == {c1}
MCSvc == {s1}
MCComp == {"producer", "consumer", "watcher"}
MCVal == {0, 1}

L(kind, id) == [kind |-> kind, id |-> id, opt |-> FALSE]
Opt(l) == [l EXCEPT !.opt = TRUE]
One(l) == [group |-> FALSE, opt |-> FALSE, leaves |-> <<l>>]
Group(ls) == [group |-> TRUE, opt |-> FALSE, leaves |-> ls]

\* The spec's scenario (8): a producer holding ConfigMut<u32> and Commands,
\* a consumer of Config<u32> and the service the producer publishes, and a
\* repeatable component with optional parameters.
Producer == <<One(L("ConfigMut", c1)), One(L("Commands", NoId))>>
Consumer == <<One(L("Config", c1)), One(L("Service", s1))>>
Watcher  == <<One(Opt(L("ConfigMut", c1))), One(Opt(L("Service", s1)))>>

MCSigScenario == [k \in Comp |->
    CASE k = "producer" -> {Producer}
      [] k = "consumer" -> {Consumer}
      [] k = "watcher"  -> {Watcher}]

MCModeScenario == [k \in Comp |-> IF k = "watcher" THEN "RunMany" ELSE "RunOnce"]

\* Every signature of at most two members over one config and one service,
\* a member being a leaf, an optional leaf or a pair of leaves.
MCLeaves == {L("Config", c1), L("ConfigMut", c1), L("Commands", NoId), L("Service", s1)}
MCMembers == {One(l) : l \in MCLeaves \cup {Opt(x) : x \in MCLeaves}}
               \cup {Group(<<x, y>>) : x, y \in MCLeaves}
MCAllSigs == {<<>>} \cup {<<m>> : m \in MCMembers} \cup {<<m, n>> : m, n \in MCMembers}

\* The consumer's parameters grouped in a tuple, as in params.rs's own
\* example of grouping (lines 44-50).
GroupedConsumer == <<Group(<<L("Config", c1), L("Commands", NoId)>>)>>
MCSigGrouped == [MCSigScenario EXCEPT !["consumer"] = {GroupedConsumer}]

\* A producer that declares ConfigMut<u32> twice.
DoubleProducer == <<One(L("ConfigMut", c1)), One(L("ConfigMut", c1))>>
MCSigDouble == [MCSigScenario EXCEPT !["producer"] = {DoubleProducer}]

\* The scenario without the repeatable component.
MCCompPair == {"producer", "consumer"}

\* Two components each writing the config the other reads.
MCCfgTwo == {c1, c2}
CrossA == <<One(L("ConfigMut", c1)), One(L("Config", c2))>>
CrossB == <<One(L("ConfigMut", c2)), One(L("Config", c1))>>
MCCompCross == {"a", "b"}
MCSigCross == [k \in Comp |-> IF k = "a" THEN {CrossA} ELSE {CrossB}]
MCModeOnce == [k \in Comp |-> "RunOnce"]

MCCompOne == {"k"}
MCSigAll == [k \in Comp |-> MCAllSigs]
MCModeAll == [k \in Comp |-> "RunOnce"]

=============================================================================
