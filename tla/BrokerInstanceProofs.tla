------------------------- MODULE BrokerInstanceProofs -------------------------
(***************************************************************************)
(* Proofs about BrokerInstance, for any number of handlers.                *)
(***************************************************************************)
EXTENDS BrokerInstance, FiniteSetTheorems, TLAPS

\* Once m_instance is set it is never null again, and no handler comes past
\* the test, but to make a broker, before it is set.
InstanceStays ==
  /\ instance = made
  /\ \A h \in Handlers : pc[h] \in {"return", "act"} => instance # nullptr
  /\ \A h \in racers : instance = nullptr => pc[h] = "create"

\* Brokers are made while others are being made, and then no more.
SettledInv ==
  /\ settled # {} => Creating = {} /\ instance # nullptr
  /\ SettledCallsAgree

\* A handler gets no older broker than it has got before, and a subscriber
\* is made before it is listed.
ListInv ==
  /\ \A b \in 1..made, h \in Handlers : <<b, h>> \in listed => b <= got[h]
  /\ \A h \in Handlers :
       op[h] = "AddSubscription" /\ pc[h] \in {"check", "create", "return", "act"}
         => h \in alive
  /\ CurrentListsLiving

Inv == TypeOK /\ InstanceStays /\ SettledInv /\ ListInv

LEMMA StepCases ==
  ASSUME [Next]_vars
  PROVE  \/ \E h \in Handlers, o \in {"EnqueueMessage", "AddSubscription", "Unsubscribe"} :
              Call(h, o)
         \/ \E h \in Handlers : Check(h) \/ Create(h) \/ Return(h) \/ Act(h)
         \/ UNCHANGED vars
  BY DEF Next

LEMMA InitInv == Init => Inv
<1>. SUFFICES ASSUME Init PROVE Inv
  OBVIOUS
<1>1. TypeOK
  BY DEF Init, TypeOK, nullptr
<1>2. InstanceStays /\ SettledInv
  <2>1. /\ instance = made
        /\ racers = {}
        /\ settled = {}
        /\ \A h \in Handlers : pc[h] = "serve"
    BY DEF Init, nullptr
  <2>. QED
    BY <2>1 DEF InstanceStays, SettledInv, SettledCallsAgree
<1>3. ListInv
  BY DEF Init, ListInv, CurrentListsLiving
<1>. QED
  BY <1>1, <1>2, <1>3 DEF Inv

LEMMA NextInv == Inv /\ [Next]_vars => Inv'
<1>. SUFFICES ASSUME Inv, [Next]_vars
              PROVE  Inv'
  OBVIOUS
<1>. USE DEF Inv, TypeOK, InstanceStays, SettledInv, SettledCallsAgree, ListInv,
             CurrentListsLiving, Creating, Goto, nullptr
<1>1. ASSUME NEW h \in Handlers,
             NEW o \in {"EnqueueMessage", "AddSubscription", "Unsubscribe"}, Call(h, o)
      PROVE  Inv'
  BY <1>1 DEF Call
<1>2. ASSUME NEW h \in Handlers, Check(h)
      PROVE  Inv'
  BY <1>2 DEF Check, Decide
<1>3. ASSUME NEW h \in Handlers, Create(h)
      PROVE  Inv'
  <2>1. pc[h] = "create" /\ settled = {} /\ instance' = made + 1 /\ made' = made + 1
    BY <1>3 DEF Create
  <2>2. \A b \in 1..made', c \in Handlers : <<b, c>> \in listed => b \in 1..made
    BY <2>1
  <2>. QED
    BY <1>3, <2>1, <2>2 DEF Create
<1>4. ASSUME NEW h \in Handlers, Return(h)
      PROVE  Inv'
  BY <1>4 DEF Return
<1>5. ASSUME NEW h \in Handlers, Act(h)
      PROVE  Inv'
  <2>1. got[h] \in 1..made /\ pc[h] = "act"
    BY <1>5 DEF Act, Finish
  <2>2. CASE op[h] = "AddSubscription"
    <3>1. listed' = listed \cup {<<got[h], h>>} /\ h \in alive /\ alive' = alive
      BY <1>5, <2>1, <2>2 DEF Act, Finish
    <3>. QED
      BY <1>5, <2>1, <3>1 DEF Act, Finish
  <2>3. CASE op[h] = "Unsubscribe"
    <3>1. listed' = listed \ {<<got[h], h>>} /\ alive' = alive \ {h}
      BY <1>5, <2>3 DEF Act, Finish
    <3>2. <<instance, h>> \notin listed'
      BY <2>1, <3>1
    <3>. QED
      BY <1>5, <2>1, <3>1, <3>2 DEF Act, Finish
  <2>4. CASE op[h] = "EnqueueMessage"
    <3>1. listed' = listed /\ alive' = alive
      BY <1>5, <2>4 DEF Act, Finish
    <3>. QED
      BY <1>5, <2>1, <3>1 DEF Act, Finish
  <2>. QED
    BY <2>2, <2>3, <2>4
<1>6. CASE UNCHANGED vars
  BY <1>6 DEF vars
<1>. QED
  BY <1>1, <1>2, <1>3, <1>4, <1>5, <1>6, StepCases

LEMMA Invariant == Spec => []Inv
  BY InitInv, NextInv, PTL DEF Spec

(* getInstance returns a broker that has been made, never null.             *)
THEOREM TypeCorrect == Spec => []TypeOK
<1>1. Inv => TypeOK
  BY DEF Inv
<1>. QED
  BY <1>1, Invariant, PTL

(* All calls that begin when no broker is being made reach the same one.    *)
THEOREM CallsAgree == Spec => []SettledCallsAgree
<1>1. Inv => SettledCallsAgree
  BY DEF Inv, SettledInv
<1>. QED
  BY <1>1, Invariant, PTL

(* The broker in use never lists a deleted subscriber, though others may.   *)
THEOREM ListedAreLiving == Spec => []CurrentListsLiving
<1>1. Inv => CurrentListsLiving
  BY DEF Inv, ListInv
<1>. QED
  BY <1>1, Invariant, PTL

-----------------------------------------------------------------------------
(* Counting brokers.                                                       *)

LEMMA NextOnePerRacer == Inv /\ OneBrokerPerRacer /\ [Next]_vars => OneBrokerPerRacer'
<1>. SUFFICES ASSUME Inv, OneBrokerPerRacer, [Next]_vars
              PROVE  OneBrokerPerRacer'
  OBVIOUS
<1>inv. /\ pc \in [Handlers -> {"serve", "check", "create", "return", "act", "gone"}]
        /\ made \in Nat /\ instance' = made'
        /\ IsFiniteSet(Creating) /\ IsFiniteSet(racers)
        /\ Cardinality(Creating) \in Nat /\ Cardinality(racers) \in Nat
  <2>1. Creating \subseteq Handlers /\ racers \subseteq Handlers
    BY DEF Creating, Inv, TypeOK
  <2>2. Inv'
    BY NextInv
  <2>. QED
    BY <2>1, <2>2, HandlersFinite, FS_Subset, FS_CardinalityType
    DEF Inv, TypeOK, InstanceStays
<1>1. ASSUME NEW h \in Handlers, Check(h), instance = nullptr
      PROVE  OneBrokerPerRacer'
  <2>1. Creating' = Creating \cup {h} /\ h \notin Creating /\ made' = made
    BY <1>1, <1>inv DEF Check, Decide, Goto, Creating
  <2>2. racers' = racers \cup {h} /\ h \notin racers
    BY <1>1 DEF Check, Decide, Inv, InstanceStays
  <2>3. Cardinality(Creating') = Cardinality(Creating) + 1
    BY <2>1, <1>inv, FS_AddElement
  <2>4. Cardinality(racers') = Cardinality(racers) + 1
    BY <2>2, <1>inv, FS_AddElement
  <2>. QED
    BY <1>inv, <2>1, <2>3, <2>4 DEF OneBrokerPerRacer
<1>2. ASSUME NEW h \in Handlers, Create(h)
      PROVE  OneBrokerPerRacer'
  <2>1. Creating' = Creating \ {h} /\ h \in Creating /\ made' = made + 1 /\ racers' = racers
    BY <1>2, <1>inv DEF Create, Goto, Creating
  <2>2. Cardinality(Creating') = Cardinality(Creating) - 1
    BY <2>1, <1>inv, FS_RemoveElement
  <2>. QED
    BY <1>inv, <2>1, <2>2 DEF OneBrokerPerRacer
<1>3. ASSUME Creating' = Creating, UNCHANGED <<made, racers>>
      PROVE  OneBrokerPerRacer'
  BY <1>3, <1>inv DEF OneBrokerPerRacer
<1>4. ASSUME NEW h \in Handlers, Check(h), instance # nullptr
      PROVE  OneBrokerPerRacer'
  BY <1>3, <1>4, <1>inv DEF Check, Decide, Goto, Creating
<1>5. ASSUME NEW h \in Handlers,
             \/ \E o \in {"EnqueueMessage", "AddSubscription", "Unsubscribe"} : Call(h, o)
             \/ Return(h) \/ Act(h)
      PROVE  OneBrokerPerRacer'
  <2>1. Creating' = Creating
    BY <1>5, <1>inv DEF Call, Return, Act, Finish, Goto, Creating
  <2>2. UNCHANGED <<made, racers>>
    BY <1>5 DEF Call, Return, Act, Finish
  <2>. QED
    BY <1>3, <2>1, <2>2
<1>6. CASE UNCHANGED vars
  BY <1>3, <1>6 DEF vars, Creating
<1>. QED
  BY <1>1, <1>2, <1>4, <1>5, <1>6, StepCases

(* There is one broker for each handler that found none.                    *)
THEOREM OneEach == Spec => []OneBrokerPerRacer
<1>1. ASSUME Init
      PROVE  OneBrokerPerRacer
  <2>1. made = 0 /\ instance = made /\ racers = {}
    BY <1>1 DEF Init, nullptr
  <2>2. Creating = {}
    BY <1>1 DEF Init, Creating
  <2>3. Cardinality({}) = 0
    BY FS_EmptySet
  <2>. QED
    BY <2>1, <2>2, <2>3 DEF OneBrokerPerRacer
<1>. QED
  BY <1>1, NextOnePerRacer, Invariant, PTL DEF Spec
=============================================================================
