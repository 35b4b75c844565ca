--------------------------- MODULE MCServiceHandle ---------------------------
(* ServiceHandle with two interfaces, two service objects and three        *)
(* handles: two of interface t1 (a static to be replaced and a parameter), *)
(* one of t2.                                                              *)
EXTENDS ServiceHandle, TLC

CONSTANTS t1, t2, i1, i2, h1, h2, h3

MCHandleTy == (h1 :> t1) @@ (h2 :> t1) @@ (h3 :> t2)

\* A caller that hands Service::from only a &'static T of the handle's T.
MCForeignTyped == [h \in Handle |-> {Ref(HandleTy[h], i) : i \in Inst}]

\* A caller that hands Service::from a &'static of any interface.
MCForeignAny == [h \in Handle |-> {Ref(t, i) : t \in Ty, i \in Inst}]
====
