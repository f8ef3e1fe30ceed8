------------------------- MODULE PublishSlot_proofs -------------------------
(***************************************************************************)
(* Theorems about PublishSlot for any set of requests: types, that only    *)
(* the resolver in the slot serves, and that the slot has its waiter.      *)
(***************************************************************************)
EXTENDS PublishSlot, TLAPS

(* Where the handler is tells what its request may own: only an installed  *)
(* request is in the slot, only a returned one has a goroutine, and the    *)
(* goroutine reaches the slot after it has closed its resolver.            *)
Phases ==
    \A r \in Request :
        /\ publishResolver = r => WasInstalled(r)
        /\ waiter[r] # "none" => pc[r] = "returned"
        /\ pc[r] = "returned" => waiter[r] # "none"
        /\ waiter[r] \in {"closed", "ended"} => host[r] # "open" /\ ctx[r] # "live"
        /\ waiter[r] = "ended" => publishResolver # r

SlotPaired == publishCancel = publishResolver

IInv == TypeOK /\ Phases /\ SlotPaired /\ OnlyTheSlotServes

LEMMA InitIInv == Init => IInv
  BY PublishAssumption
  DEF Init, IInv, TypeOK, Phases, SlotPaired, OnlyTheSlotServes, WasInstalled

LEMMA NextKeepsIInv == IInv /\ [Next]_vars => IInv'
<1> SUFFICES ASSUME IInv, [Next]_vars PROVE IInv'
  OBVIOUS
<1> USE PublishAssumption DEF IInv, TypeOK, Phases, SlotPaired, OnlyTheSlotServes, WasInstalled
<1>1. ASSUME NEW r \in Request, LoadIdentity(r) PROVE IInv'
  BY <1>1 DEF LoadIdentity
<1>2. ASSUME NEW r \in Request, NewResolver(r) PROVE IInv'
  BY <1>2 DEF NewResolver
<1>3. ASSUME NEW r \in Request, NewResolverFails(r) PROVE IInv'
  BY <1>3 DEF NewResolverFails
<1>4. ASSUME NEW r \in Request, PublishState(r) PROVE IInv'
  BY <1>4 DEF PublishState
<1>5. ASSUME NEW r \in Request, PublishStateFails(r) PROVE IInv'
  BY <1>5 DEF PublishStateFails, CloseResolver
<1>6. ASSUME NEW r \in Request, Install(r) PROVE IInv'
  BY <1>6 DEF Install
<1>7. ASSUME NEW r \in Request, StartWaiter(r) PROVE IInv'
  BY <1>7 DEF StartWaiter
<1>8. ASSUME NEW r \in Request, Expire(r) PROVE IInv'
  BY <1>8 DEF Expire
<1>9. ASSUME NEW r \in Request, WaiterCloses(r) PROVE IInv'
  BY <1>9 DEF WaiterCloses, CloseResolver
<1>10. ASSUME NEW r \in Request, WaiterEmptiesSlot(r) PROVE IInv'
  BY <1>10 DEF WaiterEmptiesSlot
<1>11. CASE UNCHANGED vars
  BY <1>11 DEF vars
<1> QED
  BY <1>1, <1>2, <1>3, <1>4, <1>5, <1>6, <1>7, <1>8, <1>9, <1>10, <1>11
  DEF Next, Handler, Waiter

-----------------------------------------------------------------------------
(* The variables keep their types, whatever requests overlap.              *)
THEOREM TypeCorrect == Spec => []TypeOK
<1>1. IInv => TypeOK
  BY DEF IInv
<1> QED BY <1>1, InitIInv, NextKeepsIInv, PTL DEF Spec

(* StartPublish ends the installed resolver in the critical section that   *)
(* installs its own, and a late goroutine leaves a successor's slot alone: *)
(* at most one publication is ever on line.                                *)
THEOREM AtMostOneServes == Spec => []OnlyTheSlotServes
<1>1. IInv => OnlyTheSlotServes
  BY DEF IInv
<1> QED BY <1>1, InitIInv, NextKeepsIInv, PTL DEF Spec

(* Nothing stays in the slot for want of a goroutine to take it out.       *)
THEOREM SlotIsWatched == Spec => []SlotHasAWaiter
<1>1. IInv => SlotHasAWaiter
  BY PublishAssumption DEF IInv, TypeOK, Phases, SlotPaired, SlotHasAWaiter, WasInstalled
<1> QED BY <1>1, InitIInv, NextKeepsIInv, PTL DEF Spec

-----------------------------------------------------------------------------
(* What is over stays over.                                                *)

(* A request has no context and no host before NewResolver, a leaked host  *)
(* belongs to nobody, and only who listens has joined a topic.             *)
Stages ==
    \A r \in Request :
        /\ pc[r] \in {"start", "loaded"} => ctx[r] = "none" /\ host[r] = "none"
        /\ pc[r] \in {"built", "published", "installed", "returned"} =>
              ctx[r] # "none" /\ host[r] \in {"open", "closed"}
        /\ pc[r] \in {"built", "published"} => host[r] = "open"
        /\ pc[r] = "failed" => ctx[r] = "done" /\ host[r] # "open"
        /\ topic[r] => host[r] = "open"

LEMMA InitStages == Init => Stages
  BY DEF Init, Stages

LEMMA NextKeepsStages == IInv /\ Stages /\ [Next]_vars => Stages'
<1> SUFFICES ASSUME IInv, Stages, [Next]_vars PROVE Stages'
  OBVIOUS
<1> USE PublishAssumption DEF IInv, TypeOK, Phases, SlotPaired, WasInstalled, Stages
<1>1. ASSUME NEW r \in Request, LoadIdentity(r) PROVE Stages'
  BY <1>1 DEF LoadIdentity
<1>2. ASSUME NEW r \in Request, NewResolver(r) \/ NewResolverFails(r) PROVE Stages'
  BY <1>2 DEF NewResolver, NewResolverFails
<1>3. ASSUME NEW r \in Request, PublishState(r) \/ PublishStateFails(r) PROVE Stages'
  BY <1>3 DEF PublishState, PublishStateFails, CloseResolver
<1>4. ASSUME NEW r \in Request, Install(r) PROVE Stages'
  BY <1>4 DEF Install
<1>5. ASSUME NEW r \in Request, StartWaiter(r) \/ Expire(r) PROVE Stages'
  BY <1>5 DEF StartWaiter, Expire
<1>6. ASSUME NEW r \in Request, WaiterCloses(r) \/ WaiterEmptiesSlot(r) PROVE Stages'
  BY <1>6 DEF WaiterCloses, WaiterEmptiesSlot, CloseResolver
<1>7. CASE UNCHANGED vars
  BY <1>7 DEF vars
<1> QED BY <1>1, <1>2, <1>3, <1>4, <1>5, <1>6, <1>7 DEF Next, Handler, Waiter

OverIsOver ==
    [][\A r \in Request :
         /\ host[r] \in {"closed", "leaked"} => host'[r] = host[r]
         /\ ctx[r] = "done" => ctx'[r] = "done"
         /\ host'[r] # "open" => ~topic'[r]]_vars

(* However requests, timers and goroutines overlap, and although the same  *)
(* resolver may be closed twice, by the next request and by its own        *)
(* goroutine, a publication that has ended never comes back: no context is *)
(* revived, no host listens again, no topic outlives its host              *)
(* (StartPublish 595-637, Resolver.Close).                                 *)
THEOREM EndedForGood == Spec => OverIsOver
<1> DEFINE Stays == \A r \in Request :
              /\ host[r] \in {"closed", "leaked"} => host'[r] = host[r]
              /\ ctx[r] = "done" => ctx'[r] = "done"
              /\ host'[r] # "open" => ~topic'[r]
<1>1. IInv /\ Stages /\ [Next]_vars => [Stays]_vars
  <2> SUFFICES ASSUME IInv, Stages, Next PROVE Stays
    OBVIOUS
  <2>1. ASSUME NEW r \in Request, host'[r] # "open" PROVE ~topic'[r]
    BY <2>1, NextKeepsStages, NextKeepsIInv DEF Stages, IInv, TypeOK
  <2> USE PublishAssumption DEF IInv, TypeOK, Phases, SlotPaired, WasInstalled, Stages
  <2> DEFINE Kept == \A r \in Request :
                /\ host[r] \in {"closed", "leaked"} => host'[r] = host[r]
                /\ ctx[r] = "done" => ctx'[r] = "done"
  <2>2. ASSUME NEW r \in Request, LoadIdentity(r) \/ StartWaiter(r) \/ Expire(r) PROVE Kept
    BY <2>2 DEF LoadIdentity, StartWaiter, Expire
  <2>3. ASSUME NEW r \in Request, NewResolver(r) \/ NewResolverFails(r) PROVE Kept
    BY <2>3 DEF NewResolver, NewResolverFails
  <2>4. ASSUME NEW r \in Request, PublishState(r) \/ PublishStateFails(r) PROVE Kept
    BY <2>4 DEF PublishState, PublishStateFails, CloseResolver
  <2>5. ASSUME NEW r \in Request, Install(r) PROVE Kept
    BY <2>5 DEF Install
  <2>6. ASSUME NEW r \in Request, WaiterCloses(r) \/ WaiterEmptiesSlot(r) PROVE Kept
    BY <2>6 DEF WaiterCloses, WaiterEmptiesSlot, CloseResolver
  <2>7. Kept
    BY <2>2, <2>3, <2>4, <2>5, <2>6 DEF Next, Handler, Waiter
  <2> QED BY <2>1, <2>7
<1> HIDE DEF Stays
<1>2. IInv /\ Stages /\ [Next]_vars => [Stays]_vars
  BY <1>1
<1>3. OverIsOver <=> [][Stays]_vars
  BY PTL DEF OverIsOver, Stays
<1> QED BY <1>2, <1>3, InitIInv, NextKeepsIInv, InitStages, NextKeepsStages, PTL DEF Spec

ListenersAreWatched ==
    \A r \in Request : host[r] = "open" =>
        \/ pc[r] \in {"built", "published"}
        \/ publishResolver = r /\ (pc[r] = "installed" \/ waiter[r] = "waiting")

(* No host listens with nobody left to close it, but one NewResolver       *)
(* leaked: its handler is still at work on it, or it is in the slot and its*)
(* goroutine waits or is about to start.  What is left of                  *)
(* EveryPublicationEnds is that they get their turn.                       *)
THEOREM ListenersWatched == Spec => []ListenersAreWatched
<1>1. IInv /\ Stages => ListenersAreWatched
  BY PublishAssumption
  DEF IInv, TypeOK, Phases, OnlyTheSlotServes, WasInstalled, Stages, ListenersAreWatched
<1> QED BY <1>1, InitIInv, NextKeepsIInv, InitStages, NextKeepsStages, PTL DEF Spec

=============================================================================
