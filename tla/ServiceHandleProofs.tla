------------------------ MODULE ServiceHandleProofs ------------------------
(***************************************************************************)
(* Proofs about ServiceHandle: Deref never reaches unreachable_unchecked   *)
(* as long as every dyn Any that enters a Service is a &'static T of the   *)
(* handle's T, and under the same condition Service<T> implements the      *)
(* abstract ServiceBinding.                                                *)
(***************************************************************************)
EXTENDS ServiceHandle, TLAPS

\* The code outside this module keeps to Deref's contract: an IntoService
\* impl publishes a &'static S (not the Box<dyn S> of register_service's
\* doc), and Service::from is given a &'static T.
TypedSources ==
    /\ RegisterForms \subseteq {"ref"}
    /\ \A h \in Handle : \A p \in ForeignAny[h] : p.kind = "ref" /\ p.ty = HandleTy[h]

\* p is what Deref's downcast to &'static t accepts.
WellTyped(p, t) == p.kind = "ref" /\ p.ty = t

\* The inductive invariant: every cell and every slot holds only values
\* that downcast to the interface they are typed with.
Inv ==
    /\ TypeOK
    /\ DerefNeverUB
    /\ \A h \in Handle : \A p \in cell[h] : WellTyped(p, HandleTy[h])
    /\ \A t \in Ty : \A p \in slot[t] : WellTyped(p, t)

-----------------------------------------------------------------------------
\* Init states the empty handles and slots, which satisfy the invariant.
LEMMA InitInv == Init => Inv
  BY DEF Init, Inv, TypeOK, AtMostOne, DerefNeverUB

\* Creating a handle with a well-typed cell of at most one value keeps the
\* invariant: the step shared by new_uninit, mock, from, clone and get_param.
LEMMA CreateInv ==
  ASSUME Inv, NEW h \in Handle, NEW c \in SUBSET Payload, AtMostOne(c),
         \A p \in c : WellTyped(p, HandleTy[h]), Create(h, c)
  PROVE  Inv'
  BY DEF Create, Running, Inv, TypeOK, DerefNeverUB, AtMostOne

\* Every step keeps the invariant when the sources are typed.
LEMMA StepInv ==
  ASSUME TypedSources
  PROVE  Inv /\ [Next]_vars => Inv'
<1> SUFFICES ASSUME Inv, [Next]_vars PROVE Inv'
  OBVIOUS
<1> USE ServiceHandleAssumption
<1>1. ASSUME NEW h \in Handle, NewUninit(h) PROVE Inv'
  <2>1. AtMostOne({}) /\ {} \in SUBSET Payload
    BY DEF AtMostOne
  <2> QED BY <1>1, <2>1, CreateInv DEF NewUninit
<1>2. ASSUME NEW h \in Handle, NEW i \in Inst, Mock(h, i) PROVE Inv'
  <2>1. /\ {Ref(HandleTy[h], i)} \in SUBSET Payload
        /\ AtMostOne({Ref(HandleTy[h], i)})
        /\ \A p \in {Ref(HandleTy[h], i)} : WellTyped(p, HandleTy[h])
    BY DEF Ref, Payload, AtMostOne, WellTyped
  <2> QED BY <1>2, <2>1, CreateInv DEF Mock
<1>3. ASSUME NEW h \in Handle, NEW p \in ForeignAny[h], FromAny(h, p) PROVE Inv'
  <2>1. /\ {p} \in SUBSET Payload /\ AtMostOne({p})
        /\ \A q \in {p} : WellTyped(q, HandleTy[h])
    BY DEF TypedSources, AtMostOne, WellTyped
  <2> QED BY <1>3, <2>1, CreateInv DEF FromAny
<1>4. ASSUME NEW h \in Handle, NEW o \in Handle, CloneHandle(h, o) PROVE Inv'
  <2>1. /\ cell[o] \in SUBSET Payload /\ AtMostOne(cell[o])
        /\ \A q \in cell[o] : WellTyped(q, HandleTy[h])
    BY <1>4 DEF CloneHandle, Inv, TypeOK
  <2> QED BY <1>4, <2>1, CreateInv DEF CloneHandle
<1>5. ASSUME NEW h \in Handle, GetParam(h) PROVE Inv'
  <2>1. /\ slot[HandleTy[h]] \in SUBSET Payload /\ AtMostOne(slot[HandleTy[h]])
        /\ \A q \in slot[HandleTy[h]] : WellTyped(q, HandleTy[h])
    BY DEF Inv, TypeOK
  <2> QED BY <1>5, <2>1, CreateInv DEF GetParam
<1>6. ASSUME NEW h \in Handle, NEW o \in Handle, Replace(h, o) PROVE Inv'
  BY <1>6 DEF Replace, Running, Inv, TypeOK, DerefNeverUB, AtMostOne
<1>7. ASSUME NEW h \in Handle, Deref(h) PROVE Inv'
  <2>1. CASE cell[h] = {}
    BY <1>7, <2>1 DEF Deref, Inv, TypeOK, DerefNeverUB
  <2>2. CASE cell[h] # {}
    <3>1. Value(h) \in cell[h]
      BY <2>2 DEF Value
    <3>2. WellTyped(Value(h), HandleTy[h])
      BY <3>1 DEF Inv
    <3> QED BY <1>7, <2>2, <3>2 DEF Deref, Inv, TypeOK, DerefNeverUB, WellTyped
  <2> QED BY <2>1, <2>2
<1>8. ASSUME NEW t \in Ty, NEW i \in Inst, Register(t, i) PROVE Inv'
  BY <1>8 DEF Register, Running, TypedSources, Inv, TypeOK, DerefNeverUB, AtMostOne,
             WellTyped, Payload
<1>9. CASE UNCHANGED vars
  BY <1>9 DEF vars, Inv, TypeOK, DerefNeverUB
<1> QED BY <1>1, <1>2, <1>3, <1>4, <1>5, <1>6, <1>7, <1>8, <1>9 DEF Next

\* Deref's SAFETY comment holds whenever every Any entering a Service is a
\* &'static T of its T: no behaviour reaches unreachable_unchecked.
THEOREM DerefSafe ==
  ASSUME TypedSources
  PROVE  Spec => []DerefNeverUB
<1>1. Inv /\ [Next]_vars => Inv'
  BY StepInv
<1>2. Inv => DerefNeverUB
  BY DEF Inv
<1> QED BY InitInv, <1>1, <1>2, PTL DEF Spec

-----------------------------------------------------------------------------
(***************************************************************************)
(* Refinement: the OnceCells, seen through Binding, behave as the bindings *)
(* of ServiceBinding.  Creating a handle is New, replace is Bind, Deref is *)
(* Use, and a publication in a slot is a stutter.                          *)
(***************************************************************************)
LEMMA InitRefines == Init => SB!Init
  BY DEF Init, SB!Init, Binding, Outcome

\* A cell of at most one payload is seen as a binding of at most one object.
LEMMA BindingShape ==
  ASSUME NEW c \in SUBSET Payload, AtMostOne(c)
  PROVE  {p.inst : p \in c} \in {{}} \cup {{i} : i \in Inst}
<1>1. CASE c = {}
  BY <1>1
<1>2. CASE c # {}
  <2>1. PICK x \in c : c = {x}
    BY <1>2 DEF AtMostOne
  <2> QED BY <2>1 DEF Payload
<1> QED BY <1>1, <1>2

\* The step shared by new_uninit, mock, from, clone and get_param is New.
LEMMA CreateRefines ==
  ASSUME TypeOK, NEW h \in Handle, NEW c \in SUBSET Payload, AtMostOne(c), Create(h, c)
  PROVE  SB!New(h, {p.inst : p \in c})
<1>1. {p.inst : p \in c} \in {{}} \cup {{i} : i \in Inst}
  BY BindingShape
<1>2. Binding' = [Binding EXCEPT ![h] = {p.inst : p \in c}]
  BY DEF Create, Binding, TypeOK
<1> QED BY <1>1, <1>2 DEF Create, Running, SB!New, SB!Running, Outcome

\* Every step of Service<T> is a step of ServiceBinding or leaves the
\* bindings and the outcome alone, when the sources are typed.
LEMMA StepRefines ==
  ASSUME TypedSources
  PROVE  Inv /\ [Next]_vars => [SB!Next]_<<live, Binding, Outcome>>
<1> SUFFICES ASSUME Inv, [Next]_vars PROVE [SB!Next]_<<live, Binding, Outcome>>
  OBVIOUS
<1> USE ServiceHandleAssumption
<1>1. ASSUME NEW h \in Handle, NEW c \in SUBSET Payload, AtMostOne(c), Create(h, c)
      PROVE  SB!Next
  <2>1. SB!New(h, {p.inst : p \in c})
    BY <1>1, CreateRefines DEF Inv
  <2>2. {p.inst : p \in c} \in SUBSET Inst
    BY DEF Payload
  <2> QED BY <2>1, <2>2 DEF SB!Next
<1>2. ASSUME NEW h \in Handle, NewUninit(h) PROVE SB!Next
  BY <1>2, <1>1 DEF NewUninit, AtMostOne
<1>3. ASSUME NEW h \in Handle, NEW i \in Inst, Mock(h, i) PROVE SB!Next
  <2>1. {Ref(HandleTy[h], i)} \in SUBSET Payload /\ AtMostOne({Ref(HandleTy[h], i)})
    BY DEF Ref, Payload, AtMostOne
  <2> QED BY <1>3, <1>1, <2>1 DEF Mock
<1>4. ASSUME NEW h \in Handle, NEW p \in ForeignAny[h], FromAny(h, p) PROVE SB!Next
  <2>1. {p} \in SUBSET Payload /\ AtMostOne({p})
    BY DEF AtMostOne
  <2> QED BY <1>4, <1>1, <2>1 DEF FromAny
<1>5. ASSUME NEW h \in Handle, NEW o \in Handle, CloneHandle(h, o) PROVE SB!Next
  BY <1>5, <1>1 DEF CloneHandle, Inv, TypeOK
<1>6. ASSUME NEW h \in Handle, GetParam(h) PROVE SB!Next
  BY <1>6, <1>1 DEF GetParam, Inv, TypeOK
<1>7. ASSUME NEW h \in Handle, NEW o \in Handle, Replace(h, o) PROVE SB!Next
  <2>1. SB!Running /\ {h, o} \subseteq live /\ HandleTy[h] = HandleTy[o]
    BY <1>7 DEF Replace, Running, SB!Running, Outcome
  <2>2. (Binding[o] = {} \/ Binding[h] # {}) <=> (cell[o] = {} \/ cell[h] # {})
    BY DEF Binding
  <2>3. SB!Bind(h, o)
    <3>1. CASE cell[o] = {} \/ cell[h] # {}
      <4>1. Outcome' = "panic" /\ UNCHANGED Binding
        BY <1>7, <3>1 DEF Replace, Outcome, Binding
      <4> QED BY <1>7, <2>1, <2>2, <3>1, <4>1 DEF Replace, SB!Bind
    <3>2. CASE ~(cell[o] = {} \/ cell[h] # {})
      <4>1. cell' = [cell EXCEPT ![h] = cell[o]] /\ last' = "ok"
        BY <1>7, <3>2 DEF Replace
      <4>2. Binding' = [Binding EXCEPT ![h] = Binding[o]] /\ Outcome' = "ok"
        BY <4>1 DEF Binding, Outcome, Inv, TypeOK
      <4> QED BY <1>7, <2>1, <2>2, <3>2, <4>2 DEF Replace, SB!Bind
    <3> QED BY <3>1, <3>2
  <2> QED BY <2>3 DEF SB!Next
<1>8. ASSUME NEW h \in Handle, Deref(h) PROVE SB!Next
  <2>1. CASE cell[h] = {}
    <3>1. SB!Use(h)
      BY <1>8, <2>1 DEF Deref, Running, SB!Use, SB!Running, Binding, Outcome
    <3> QED BY <3>1 DEF SB!Next
  <2>2. CASE cell[h] # {}
    <3>1. WellTyped(Value(h), HandleTy[h])
      BY <2>2 DEF Value, Inv
    <3>2. last' = "ok" /\ Binding[h] # {}
      BY <1>8, <2>2, <3>1 DEF Deref, WellTyped, Binding
    <3>3. SB!Use(h)
      BY <1>8, <3>2 DEF Deref, Running, SB!Use, SB!Running, Binding, Outcome
    <3> QED BY <3>3 DEF SB!Next
  <2> QED BY <2>1, <2>2
<1>9. ASSUME NEW t \in Ty, NEW i \in Inst, Register(t, i)
      PROVE  UNCHANGED <<live, Binding, Outcome>>
  BY <1>9 DEF Register, Running, Binding, Outcome
<1>10. CASE UNCHANGED vars
  BY <1>10 DEF vars, Binding, Outcome
<1> QED BY <1>2, <1>3, <1>4, <1>5, <1>6, <1>7, <1>8, <1>9, <1>10 DEF Next

\* Service<T> implements ServiceBinding whenever every Any entering a
\* Service is a &'static T of its T: handles are bound once, replace
\* panics as documented, and a deref yields the bound object or panics.
THEOREM RefinesBinding ==
  ASSUME TypedSources
  PROVE  Spec => ImplementsBinding
<1>1. Spec => []Inv
  BY InitInv, StepInv, PTL DEF Spec
<1>2. Inv /\ [Next]_vars => [SB!Next]_<<live, Binding, Outcome>>
  BY StepRefines
<1> QED BY <1>1, <1>2, InitRefines, PTL DEF Spec, ImplementsBinding, SB!Spec

====
