---------------------------- MODULE ServiceHandle ----------------------------
(***************************************************************************)
(* Service<T> handles of src/sdk/patina/src/component/service.rs.          *)
(*                                                                         *)
(* A handle wraps a OnceCell<&'static dyn Any>; Deref downcasts the Any to *)
(* &'static T and, if that fails, reaches unreachable_unchecked (undefined *)
(* behaviour).  A OnceCell is modelled as a set of at most one payload.  A *)
(* payload is the concrete type behind the dyn Any: "ref" for &'static S,  *)
(* "box" for Box<dyn S>, with the service interface S and the instance     *)
(* (which leaked object it points to).  Handles are created by new_uninit, *)
(* mock, From<&'static dyn Any>, clone, and get_param from storage's       *)
(* service slot, which IntoService::register fills (the slot is not under  *)
(* src/: it is published once and read-only thereafter, spec section 2).   *)
(***************************************************************************)

CONSTANTS
    Ty,             \* service interfaces
    Inst,           \* service objects (leaked allocations)
    Handle,         \* Service<T> values
    HandleTy,       \* HandleTy[h]: the T of handle h
    RegisterForms,  \* the Any forms an IntoService::register passes to register_service
    ForeignAny      \* ForeignAny[h]: the &'static dyn Any a caller may give Service::from

Payload == [kind : {"ref", "box"}, ty : Ty, inst : Inst]

\* &'static S as a dyn Any: what Deref expects for S.
Ref(t, i) == [kind |-> "ref", ty |-> t, inst |-> i]

ASSUME ServiceHandleAssumption ==
    /\ HandleTy \in [Handle -> Ty]
    /\ RegisterForms \subseteq {"ref", "box"}
    /\ ForeignAny \in [Handle -> SUBSET Payload]

VARIABLES
    live,   \* the handles created so far
    cell,   \* cell[h]: the OnceCell of handle h
    slot,   \* slot[t]: storage's service slot for interface t
    last    \* outcome of the last step: "none", "ok", "panic" or "ub"

vars == <<live, cell, slot, last>>

Init ==
    /\ live = {}
    /\ cell = [h \in Handle |-> {}]
    /\ slot = [t \in Ty |-> {}]
    /\ last = "none"

\* A panic or undefined behaviour ends the program.
Running == last \in {"none", "ok"}

\* Create handle h with cell content c.
Create(h, c) ==
    /\ Running
    /\ h \notin live
    /\ live' = live \cup {h}
    /\ cell' = [cell EXCEPT ![h] = c]
    /\ last' = "ok"
    /\ UNCHANGED slot

\* Service::new_uninit: an empty OnceCell.
NewUninit(h) == Create(h, {})

\* Mutation variant: mock leaking the Box<T> itself as the Any.
MockBoxed(h, i) == Create(h, {[kind |-> "box", ty |-> HandleTy[h], inst |-> i]})

\* Service::mock: Box::leak(value) gives &'static T, which is boxed and
\* leaked again as the &'static dyn Any.
Mock(h, i) == Create(h, {Ref(HandleTy[h], i)})

\* From<&'static dyn Any>: whatever Any the caller holds.
FromAny(h, p) == Create(h, {p})

\* Clone: a new OnceCell with the same content.
CloneHandle(h, o) ==
    /\ o \in live
    /\ HandleTy[h] = HandleTy[o]
    /\ Create(h, cell[o])

\* Service's Param::get_param after validate (get_raw_service is Some):
\* Service::from the slot's reference.
GetParam(h) ==
    /\ slot[HandleTy[h]] # {}
    /\ Create(h, slot[HandleTy[h]])

\* IntoService::register -> register_service::<S>: register_service and
\* insert_service publish the leaked Any in S's slot.
Register(t, i) ==
    /\ Running
    /\ \E k \in RegisterForms :
        slot' = [slot EXCEPT ![t] = IF slot[t] = {} THEN {[kind |-> k, ty |-> t, inst |-> i]}
                                    ELSE slot[t]]
    /\ last' = "ok"
    /\ UNCHANGED <<live, cell>>

\* Mutation variant: OnceCell::set's "already initialized" check dropped.
ReplaceOverwriting(h, o) ==
    /\ Running
    /\ {h, o} \subseteq live
    /\ HandleTy[h] = HandleTy[o]
    /\ IF cell[o] = {} THEN /\ last' = "panic" /\ UNCHANGED cell
       ELSE /\ cell' = [cell EXCEPT ![h] = cell[o]] /\ last' = "ok"
    /\ UNCHANGED <<live, slot>>

\* Service::replace(&self, service): panics if service is uninitialized,
\* then OnceCell::set panics if self is already initialized.
Replace(h, o) ==
    /\ Running
    /\ {h, o} \subseteq live
    /\ HandleTy[h] = HandleTy[o]
    /\ IF cell[o] = {} \/ cell[h] # {} THEN /\ last' = "panic" /\ UNCHANGED cell
       ELSE /\ cell' = [cell EXCEPT ![h] = cell[o]] /\ last' = "ok"
    /\ UNCHANGED <<live, slot>>

\* The payload held by a non-empty OnceCell.
Value(h) == CHOOSE p \in cell[h] : TRUE

\* Deref: unreachable! on an empty cell; downcast_ref::<&'static T>, and
\* unreachable_unchecked when the Any is not a &'static T.
Deref(h) ==
    /\ Running
    /\ h \in live
    /\ last' = IF cell[h] = {} THEN "panic"
               ELSE IF Value(h).kind = "ref" /\ Value(h).ty = HandleTy[h] THEN "ok"
               ELSE "ub"
    /\ UNCHANGED <<live, cell, slot>>

Next ==
    \/ \E h \in Handle :
        \/ NewUninit(h) \/ GetParam(h) \/ Deref(h)
        \/ \E i \in Inst : Mock(h, i)
        \/ \E p \in ForeignAny[h] : FromAny(h, p)
        \/ \E o \in Handle : CloneHandle(h, o) \/ Replace(h, o)
    \/ \E t \in Ty, i \in Inst : Register(t, i)

Spec == Init /\ [][Next]_vars

-----------------------------------------------------------------------------
\* A OnceCell, and a service slot, hold at most one value.
AtMostOne(S) == \A x, y \in S : x = y

\* Every OnceCell and every service slot holds at most one well-formed value.
TypeOK ==
    /\ live \subseteq Handle
    /\ cell \in [Handle -> SUBSET Payload] /\ \A h \in Handle : AtMostOne(cell[h])
    /\ slot \in [Ty -> SUBSET Payload] /\ \A t \in Ty : AtMostOne(slot[t])
    /\ last \in {"none", "ok", "panic", "ub"}

\* Deref never reaches unreachable_unchecked: the downcast of every
\* initialized handle succeeds (the SAFETY comment of Deref: "this downcast
\* is valid and will never fail").
DerefNeverUB == last # "ub"

-----------------------------------------------------------------------------
\* The object each handle's OnceCell points to, whatever Any wraps it.
Binding == [h \in Handle |-> {p.inst : p \in cell[h]}]

\* The program has not stopped ("none" and "ok" alike), or how it stopped.
Outcome == IF last = "none" THEN "ok" ELSE last

SB == INSTANCE ServiceBinding WITH created <- live, bound <- Binding, outcome <- Outcome

\* Service<T> implements the promise of ServiceBinding: a handle is bound at
\* most once (new_uninit, then replace, whose OnceCell::set panics on a
\* bound handle), replace panics exactly when the docs say, and Deref
\* yields the bound object or panics, never reaching unreachable_unchecked.
ImplementsBinding == SB!Spec

====
