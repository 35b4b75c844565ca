--------------------------- MODULE ServiceBinding ---------------------------
(***************************************************************************)
(* What a Service<T> handle promises (service.rs, the docs of new_uninit,  *)
(* replace and Deref), with the Any, the downcast and storage hidden.      *)
(*                                                                         *)
(* A handle is bound to at most one service object, and once bound it      *)
(* stays bound to it.  replace binds an unbound handle to the object of    *)
(* an initialized one of the same interface and panics otherwise; a deref  *)
(* of a bound handle yields its object, of an unbound one panics.  There   *)
(* is no third outcome: no deref is undefined behaviour.                   *)
(***************************************************************************)

CONSTANTS
    Ty,         \* service interfaces
    Inst,       \* service objects
    Handle,     \* Service<T> values
    HandleTy    \* HandleTy[h]: the T of handle h

VARIABLES
    created,    \* the handles that exist
    bound,      \* bound[h]: the object h derefs to, as a set of at most one
    outcome     \* "ok" until a step panics, then "panic"

Running == outcome = "ok"

Init ==
    /\ created = {}
    /\ bound = [h \in Handle |-> {}]
    /\ outcome = "ok"

\* A handle comes into being bound to some object, or unbound.
New(h, b) ==
    /\ Running
    /\ h \notin created
    /\ b \in {{}} \cup {{i} : i \in Inst}
    /\ created' = created \cup {h}
    /\ bound' = [bound EXCEPT ![h] = b]
    /\ outcome' = "ok"

\* replace: binds h to o's object, or panics if o is unbound or h is bound.
Bind(h, o) ==
    /\ Running
    /\ {h, o} \subseteq created
    /\ HandleTy[h] = HandleTy[o]
    /\ IF bound[o] = {} \/ bound[h] # {}
       THEN outcome' = "panic" /\ UNCHANGED bound
       ELSE bound' = [bound EXCEPT ![h] = bound[o]] /\ outcome' = "ok"
    /\ UNCHANGED created

\* Deref: the bound object, or a panic if there is none.
Use(h) ==
    /\ Running
    /\ h \in created
    /\ outcome' = IF bound[h] = {} THEN "panic" ELSE "ok"
    /\ UNCHANGED <<created, bound>>

Next ==
    \E h \in Handle :
        \/ \E b \in SUBSET Inst : New(h, b)
        \/ \E o \in Handle : Bind(h, o)
        \/ Use(h)

Spec == Init /\ [][Next]_<<created, bound, outcome>>

====
