------------------------- MODULE MemberBindingProofs -------------------------
(* The promise of MemberBinding is kept for every number of chats, members  *)
(* and addresses.                                                           *)
EXTENDS MemberBinding, TLAPS

(* The bindings keep their type and stay exclusive: a step changes one      *)
(* member of one chat, to an address that is free there or to none.         *)
THEOREM BindingIsExclusive == Spec => [](TypeOK /\ Exclusive)
<1>1. Init => TypeOK /\ Exclusive
  BY DEF Init, TypeOK, Exclusive
<1>2. TypeOK /\ Exclusive /\ [Next]_bound => TypeOK' /\ Exclusive'
  <2> SUFFICES ASSUME TypeOK, Exclusive, [Next]_bound PROVE TypeOK' /\ Exclusive'
    OBVIOUS
  <2>1. ASSUME NEW c \in Chats, NEW u \in Users, NEW a \in Addrs, Bind(c, u, a)
        PROVE  TypeOK' /\ Exclusive'
    BY <2>1 DEF TypeOK, Exclusive, Bind, Free
  <2>2. ASSUME NEW c \in Chats, NEW u \in Users, Unbind(c, u)
        PROVE  TypeOK' /\ Exclusive'
    BY <2>2 DEF TypeOK, Exclusive, Unbind
  <2>3. CASE UNCHANGED bound
    BY <2>3 DEF TypeOK, Exclusive
  <2> QED
    BY <2>1, <2>2, <2>3 DEF Next
<1> QED
  BY <1>1, <1>2, PTL DEF Spec
=============================================================================
