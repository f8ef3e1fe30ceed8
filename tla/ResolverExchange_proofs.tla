---------------------- MODULE ResolverExchange_proofs ----------------------
(***************************************************************************)
(* Theorems about ResolverExchange for any number of resolvers, identities *)
(* and versions: types, what caches and answers may hold, and that the     *)
(* resolvers implement StateExchange.                                      *)
(***************************************************************************)
EXTENDS ResolverExchange, TLAPS

Pair(state) == <<state.id, state.version>>

(* Nothing is published that the owner's file did not hold.                *)
PublishedWasCurrent == \A i \in Identity, v \in Version : <<i, v>> \in published => v <= current[i]

(* A publication loads before it stores, and is published once stored.     *)
LoadedIsPublished ==
    \A n \in Node :
        /\ publishing[n] # "idle" => loaded[n] # None
        /\ loaded[n] # None => loaded[n].version <= current[loaded[n].id]
        /\ publishing[n] \in {"stored", "published", "failed"} => Pair(loaded[n]) \in published

InflightPublished == \A msg \in inflight : Pair(msg.state) \in published

(* A question names its peer and identity; one that was answered with a    *)
(* state still has it, and one that was not has none.                      *)
QuestionKnown ==
    \A n \in Node :
        /\ ask[n].phase # "idle" => ask[n].peer \in Node /\ ask[n].id \in Identity
        /\ ask[n].phase \in {"received", "shown", "refused"} => ask[n].answer # None
        /\ ask[n].phase \in {"idle", "asked", "failed"} => ask[n].answer = None

IInv ==
    /\ Typed
    /\ PublishedWasCurrent /\ LoadedIsPublished /\ InflightPublished
    /\ CacheHoldsPublished /\ QuestionKnown /\ AnswerIsWhatWasAsked

(* What a member of the set of states is.                                  *)
LEMMA StateShape ==
  /\ None \notin SignedIdentityState
  /\ \A state \in SignedIdentityState : state.id \in Identity /\ state.version \in Version
  BY ExchangeAssumption DEF SignedIdentityState, Version

(* What a stream or a topic delivers is a state like the one sent.         *)
LEMMA UnmarshalKeepsState ==
  ASSUME NEW state \in SignedIdentityState
  PROVE  /\ unmarshalState(state) \in SignedIdentityState
         /\ unmarshalState(state).id = state.id
         /\ unmarshalState(state).version = state.version
  BY DEF unmarshalState, SignedIdentityState

LEMMA InitIInv == Init => IInv
<1> SUFFICES ASSUME Init PROVE IInv
  OBVIOUS
<1>1. Typed
  <2>1. 1 \in Version
    <3>1. MaxVersion \in Nat /\ MaxVersion # 0
      BY ExchangeAssumption
    <3> QED BY <3>1 DEF Version
  <2>2. current \in [Identity -> Version]
    BY <2>1 DEF Init
  <2>3. ask \in [Node -> [phase : Phases, peer : Node \cup {None}, id : Identity \cup {None},
                        answer : SignedIdentityState \cup {None}]]
    BY DEF Init, Phases
  <2> QED BY <2>2, <2>3 DEF Init, Typed
<1>2. PublishedWasCurrent /\ LoadedIsPublished /\ InflightPublished
  BY DEF Init, PublishedWasCurrent, LoadedIsPublished, InflightPublished
<1>3. CacheHoldsPublished /\ QuestionKnown /\ AnswerIsWhatWasAsked
  BY DEF Init, CacheHoldsPublished, QuestionKnown, AnswerIsWhatWasAsked, Asking
<1> QED BY <1>1, <1>2, <1>3 DEF IInv

LEMMA NextKeepsIInv == IInv /\ [Next]_vars => IInv'
<1> SUFFICES ASSUME IInv, [Next]_vars PROVE IInv'
  OBVIOUS
<1> USE DEF IInv
<1>1. ASSUME NEW i \in Identity, Change(i) PROVE IInv'
  <2>1. Typed'
    <3>1. current' \in [Identity -> Version]
      <4>1. current[i] \in Version /\ current[i] < MaxVersion /\ MaxVersion \in Nat
        BY <1>1, ExchangeAssumption DEF Change, Typed
      <4>2. current[i] + 1 \in Version
        BY <4>1 DEF Version
      <4> QED BY <1>1, <4>2 DEF Change, Typed
    <3> QED BY <3>1, <1>1 DEF Change, Typed
  <2>2. PublishedWasCurrent'
    BY <1>1, StateShape DEF Change, PublishedWasCurrent, Typed, Version
  <2>3. LoadedIsPublished'
    BY <1>1, StateShape DEF Change, LoadedIsPublished, Typed, Pair, Version
  <2>4. InflightPublished'
    BY <1>1 DEF Change, InflightPublished, Pair
  <2>5. CacheHoldsPublished'
    BY <1>1, StateShape DEF Change, CacheHoldsPublished, Typed, Version, PublishedWasCurrent, Pair
  <2>6. QuestionKnown'
    BY <1>1 DEF Change, QuestionKnown, Asking
  <2>7. AnswerIsWhatWasAsked'
    BY <1>1 DEF Change, AnswerIsWhatWasAsked
  <2> QED BY <2>1, <2>2, <2>3, <2>4, <2>5, <2>6, <2>7
<1>2. ASSUME NEW n \in Node, NEW i \in Identity, LoadIdentity(n, i) PROVE IInv'
  <2> DEFINE state == [id |-> i, version |-> current[i], attributes |-> "map[string]string"]
  <2>0. /\ state \in SignedIdentityState /\ state.id = i /\ state.version = current[i]
        /\ publishing[n] = "idle"
        /\ publishing' = [publishing EXCEPT ![n] = "loaded"]
        /\ loaded' = [loaded EXCEPT ![n] = state]
        /\ UNCHANGED <<current, states, subscribed, inflight, open, ask, published>>
    BY <1>2 DEF LoadIdentity, SignedIdentityState, Typed
  <2> HIDE DEF state
  <2>1. Typed'
    <3>1. publishing' \in [Node -> {"idle", "loaded", "stored", "published", "failed"}]
      BY <2>0, StateShape DEF Typed
    <3>2. loaded' \in [Node -> SignedIdentityState \cup {None}]
      BY <2>0, StateShape DEF Typed
    <3> QED BY <3>1, <3>2, <2>0, StateShape DEF Typed
  <2>2. PublishedWasCurrent'
    BY <2>0 DEF PublishedWasCurrent
  <2>3. LoadedIsPublished'
    <3>1. /\ loaded'[n] = state /\ publishing'[n] = "loaded"
          /\ \A m \in Node \ {n} : loaded'[m] = loaded[m] /\ publishing'[m] = publishing[m]
      BY <2>0 DEF Typed
    <3>2. state # None /\ state.version <= current[state.id]
      <4>1. state.version \in Int
        BY <2>0, StateShape DEF Version
      <4> QED BY <2>0, <4>1, StateShape
    <3> QED BY <2>0, <3>1, <3>2 DEF LoadedIsPublished, Pair
  <2>4. InflightPublished'
    BY <2>0 DEF InflightPublished, Pair
  <2>5. CacheHoldsPublished'
    BY <2>0 DEF CacheHoldsPublished
  <2>6. QuestionKnown'
    BY <2>0 DEF QuestionKnown, Asking
  <2>7. AnswerIsWhatWasAsked'
    BY <2>0 DEF AnswerIsWhatWasAsked
  <2> QED BY <2>1, <2>2, <2>3, <2>4, <2>5, <2>6, <2>7
<1>3. ASSUME NEW n \in Node, StoreState(n) PROVE IInv'
  <2> DEFINE state == loaded[n]
  <2>0. /\ state \in SignedIdentityState /\ publishing[n] = "loaded" /\ loaded[n] = state
        /\ state.version <= current[state.id]
        /\ publishing' = [publishing EXCEPT ![n] = "stored"]
        /\ states' = [states EXCEPT ![n][state.id] = state]
        /\ published' = published \cup {<<state.id, state.version>>}
        /\ UNCHANGED <<current, loaded, subscribed, inflight, open, ask>>
    BY <1>3 DEF StoreState, LoadedIsPublished, Typed
  <2> HIDE DEF state
  <2>1. Typed'
    <3>1. publishing' \in [Node -> {"idle", "loaded", "stored", "published", "failed"}]
      BY <2>0, StateShape DEF Typed
    <3>2. states' \in [Node -> [Identity -> SignedIdentityState \cup {None}]]
      BY <2>0, StateShape DEF Typed
    <3>3. published' \subseteq Identity \X Version
      BY <2>0, StateShape DEF Typed
    <3> QED BY <3>1, <3>2, <3>3, <2>0, StateShape DEF Typed
  <2>2. PublishedWasCurrent'
    BY <2>0, StateShape DEF PublishedWasCurrent, Typed
  <2>3. LoadedIsPublished'
    BY <2>0, StateShape DEF LoadedIsPublished, Typed, Pair
  <2>4. InflightPublished'
    BY <2>0, StateShape DEF InflightPublished, Typed, Pair
  <2>5. CacheHoldsPublished'
    BY <2>0, StateShape DEF CacheHoldsPublished, Typed, PublishedWasCurrent, Pair
  <2>6. QuestionKnown'
    BY <2>0 DEF QuestionKnown, Asking
  <2>7. AnswerIsWhatWasAsked'
    BY <2>0, StateShape DEF AnswerIsWhatWasAsked, Typed, Becomes
  <2> QED BY <2>1, <2>2, <2>3, <2>4, <2>5, <2>6, <2>7
<1>4. ASSUME NEW n \in Node, PublishTopic(n) PROVE IInv'
  <2> DEFINE state == loaded[n]
             sent == {[to |-> m, state |-> state] : m \in {m \in open : state.id \in subscribed[m]}}
  <2>00. /\ state \in SignedIdentityState /\ publishing[n] = "stored"
         /\ Pair(state) \in published
    BY <1>4 DEF PublishTopic, LoadedIsPublished, Typed
  <2>01. \A msg \in sent : msg \in [to : Node, state : SignedIdentityState] /\ msg.state = state
    BY <2>00 DEF Typed
  <2>02. /\ publishing' = [publishing EXCEPT ![n] = "published"]
         /\ inflight' = inflight \cup sent
         /\ UNCHANGED <<current, loaded, states, subscribed, open, ask, published>>
    BY <1>4 DEF PublishTopic
  <2> HIDE DEF state, sent
  <2>1. Typed'
    <3>1. publishing' \in [Node -> {"idle", "loaded", "stored", "published", "failed"}]
      BY <2>00, <2>01, <2>02, StateShape DEF Typed
    <3>2. inflight' \subseteq [to : Node, state : SignedIdentityState]
      BY <2>00, <2>01, <2>02, StateShape DEF Typed
    <3> QED BY <3>1, <3>2, <2>00, <2>01, <2>02, StateShape DEF Typed
  <2>2. PublishedWasCurrent'
    BY <2>00, <2>01, <2>02 DEF PublishedWasCurrent
  <2>3. LoadedIsPublished'
    BY <2>00, <2>01, <2>02, StateShape DEF LoadedIsPublished, Typed, Pair
  <2>4. InflightPublished'
    BY <2>00, <2>01, <2>02, StateShape DEF InflightPublished, Typed, Pair
  <2>5. CacheHoldsPublished'
    BY <2>00, <2>01, <2>02 DEF CacheHoldsPublished
  <2>6. QuestionKnown'
    BY <2>00, <2>01, <2>02 DEF QuestionKnown, Asking
  <2>7. AnswerIsWhatWasAsked'
    BY <2>00, <2>01, <2>02 DEF AnswerIsWhatWasAsked
  <2> QED BY <2>1, <2>2, <2>3, <2>4, <2>5, <2>6, <2>7
<1>5. ASSUME NEW n \in Node, PublishFails(n) PROVE IInv'
  <2>1. Typed'
    <3>1. publishing' \in [Node -> {"idle", "loaded", "stored", "published", "failed"}]
      BY <1>5 DEF PublishFails, Typed
    <3>2. open' \subseteq Node
      BY <1>5 DEF PublishFails, Typed
    <3> QED BY <3>1, <3>2, <1>5 DEF PublishFails, Typed
  <2>2. PublishedWasCurrent'
    BY <1>5 DEF PublishFails, PublishedWasCurrent
  <2>3. LoadedIsPublished'
    BY <1>5, StateShape DEF PublishFails, LoadedIsPublished, Typed, Pair
  <2>4. InflightPublished'
    BY <1>5 DEF PublishFails, InflightPublished, Pair
  <2>5. CacheHoldsPublished'
    BY <1>5 DEF PublishFails, CacheHoldsPublished
  <2>6. QuestionKnown'
    BY <1>5 DEF PublishFails, QuestionKnown, Asking
  <2>7. AnswerIsWhatWasAsked'
    BY <1>5 DEF PublishFails, AnswerIsWhatWasAsked
  <2> QED BY <2>1, <2>2, <2>3, <2>4, <2>5, <2>6, <2>7
<1>6. ASSUME NEW n \in Node, NEW i \in Identity, SubscribeIdentity(n, i) PROVE IInv'
  <2>1. Typed'
    <3>1. subscribed' \in [Node -> SUBSET Identity]
      BY <1>6 DEF SubscribeIdentity, Typed
    <3> QED BY <3>1, <1>6 DEF SubscribeIdentity, Typed
  <2>2. PublishedWasCurrent'
    BY <1>6 DEF SubscribeIdentity, PublishedWasCurrent
  <2>3. LoadedIsPublished'
    BY <1>6 DEF SubscribeIdentity, LoadedIsPublished, Pair
  <2>4. InflightPublished'
    BY <1>6 DEF SubscribeIdentity, InflightPublished, Pair
  <2>5. CacheHoldsPublished'
    BY <1>6 DEF SubscribeIdentity, CacheHoldsPublished
  <2>6. QuestionKnown'
    BY <1>6 DEF SubscribeIdentity, QuestionKnown, Asking
  <2>7. AnswerIsWhatWasAsked'
    BY <1>6 DEF SubscribeIdentity, AnswerIsWhatWasAsked
  <2> QED BY <2>1, <2>2, <2>3, <2>4, <2>5, <2>6, <2>7
<1>7. ASSUME NEW msg \in inflight, ConsumeSubscription(msg) PROVE IInv'
  <2> DEFINE state == unmarshalState(msg.state)
             m == msg.to
  <2>0. /\ state \in SignedIdentityState /\ Pair(state) \in published /\ m \in Node
        /\ inflight' \subseteq inflight
        /\ states' = [states EXCEPT ![m][state.id] = state]
        /\ UNCHANGED <<current, publishing, loaded, subscribed, open, ask, published>>
    <3>1. msg \in [to : Node, state : SignedIdentityState] /\ Pair(msg.state) \in published
      BY DEF Typed, InflightPublished
    <3>2. state \in SignedIdentityState /\ state.id = msg.state.id /\ state.version = msg.state.version
      BY <3>1, UnmarshalKeepsState
    <3> HIDE DEF state
    <3> QED BY <3>1, <3>2, <1>7 DEF ConsumeSubscription, Pair, state
  <2> HIDE DEF state, m
  <2>1. Typed'
    <3>1. inflight' \subseteq [to : Node, state : SignedIdentityState]
      BY <2>0, StateShape DEF Typed
    <3>2. states' \in [Node -> [Identity -> SignedIdentityState \cup {None}]]
      BY <2>0, StateShape DEF Typed
    <3> QED BY <3>1, <3>2, <2>0, StateShape DEF Typed
  <2>2. PublishedWasCurrent'
    BY <2>0 DEF PublishedWasCurrent
  <2>3. LoadedIsPublished'
    BY <2>0 DEF LoadedIsPublished, Pair
  <2>4. InflightPublished'
    BY <2>0, StateShape DEF InflightPublished, Typed, Pair
  <2>5. CacheHoldsPublished'
    BY <2>0, StateShape DEF CacheHoldsPublished, Typed, PublishedWasCurrent, Pair
  <2>6. QuestionKnown'
    BY <2>0 DEF QuestionKnown, Asking
  <2>7. AnswerIsWhatWasAsked'
    BY <2>0 DEF AnswerIsWhatWasAsked
  <2> QED BY <2>1, <2>2, <2>3, <2>4, <2>5, <2>6, <2>7
<1>8. ASSUME NEW msg \in inflight, LoseMessage(msg) PROVE IInv'
  <2>1. Typed'
    <3>1. inflight' \subseteq [to : Node, state : SignedIdentityState]
      BY <1>8 DEF LoseMessage, Typed
    <3> QED BY <3>1, <1>8 DEF LoseMessage, Typed
  <2>2. PublishedWasCurrent'
    BY <1>8 DEF LoseMessage, PublishedWasCurrent
  <2>3. LoadedIsPublished'
    BY <1>8 DEF LoseMessage, LoadedIsPublished, Pair
  <2>4. InflightPublished'
    BY <1>8, StateShape DEF LoseMessage, InflightPublished, Typed, Pair
  <2>5. CacheHoldsPublished'
    BY <1>8 DEF LoseMessage, CacheHoldsPublished
  <2>6. QuestionKnown'
    BY <1>8 DEF LoseMessage, QuestionKnown, Asking
  <2>7. AnswerIsWhatWasAsked'
    BY <1>8 DEF LoseMessage, AnswerIsWhatWasAsked
  <2> QED BY <2>1, <2>2, <2>3, <2>4, <2>5, <2>6, <2>7
<1>9. ASSUME NEW n \in Node, NEW p \in Node, NEW i \in Identity, Ask(n, p, i) PROVE IInv'
  <2>1. Typed'
    <3>1. ask' \in [Node -> [phase : Phases, peer : Node \cup {None}, id : Identity \cup {None},
                           answer : SignedIdentityState \cup {None}]]
      BY <1>9 DEF Ask, Typed, Becomes, Phases
    <3> QED BY <3>1, <1>9 DEF Ask, Typed
  <2>2. PublishedWasCurrent'
    BY <1>9 DEF Ask, PublishedWasCurrent
  <2>3. LoadedIsPublished'
    BY <1>9 DEF Ask, LoadedIsPublished, Pair
  <2>4. InflightPublished'
    BY <1>9 DEF Ask, InflightPublished, Pair
  <2>5. CacheHoldsPublished'
    BY <1>9 DEF Ask, CacheHoldsPublished
  <2>6. QuestionKnown'
    BY <1>9, StateShape DEF Ask, QuestionKnown, Typed, Asking, Becomes
  <2>7. AnswerIsWhatWasAsked'
    BY <1>9, StateShape DEF Ask, AnswerIsWhatWasAsked, Typed, Becomes
  <2> QED BY <2>1, <2>2, <2>3, <2>4, <2>5, <2>6, <2>7
<1>10. ASSUME NEW n \in Node, HandleStateStream(n) PROVE IInv'
  <2> DEFINE answer == states[ask[n].peer][ask[n].id]
  <2>0. /\ answer \in SignedIdentityState \cup {None}
        /\ answer # None => answer.id = ask[n].id /\ <<ask[n].id, answer.version>> \in published
        /\ ask[n].phase = "asked"
        /\ Becomes(n, "answered", answer)
        /\ UNCHANGED <<current, publishing, loaded, states, subscribed, inflight, open, published>>
    BY <1>10 DEF HandleStateStream, QuestionKnown, Asking, CacheHoldsPublished, Typed
  <2> HIDE DEF answer
  <2>1. Typed'
    <3>1. ask' \in [Node -> [phase : Phases, peer : Node \cup {None}, id : Identity \cup {None},
                           answer : SignedIdentityState \cup {None}]]
      BY <2>0 DEF Typed, Becomes, Phases
    <3> QED BY <3>1, <2>0 DEF Typed
  <2>2. PublishedWasCurrent'
    BY <2>0 DEF PublishedWasCurrent
  <2>3. LoadedIsPublished'
    BY <2>0 DEF LoadedIsPublished, Pair
  <2>4. InflightPublished'
    BY <2>0 DEF InflightPublished, Pair
  <2>5. CacheHoldsPublished'
    BY <2>0 DEF CacheHoldsPublished
  <2>6. QuestionKnown'
    BY <2>0, StateShape DEF QuestionKnown, Typed, Asking, Becomes
  <2>7. AnswerIsWhatWasAsked'
    BY <2>0, StateShape DEF AnswerIsWhatWasAsked, Typed, Becomes
  <2> QED BY <2>1, <2>2, <2>3, <2>4, <2>5, <2>6, <2>7
<1>11. ASSUME NEW n \in Node, StreamBreaks(n) PROVE IInv'
  <2>1. Typed'
    <3>1. ask' \in [Node -> [phase : Phases, peer : Node \cup {None}, id : Identity \cup {None},
                           answer : SignedIdentityState \cup {None}]]
      BY <1>11 DEF StreamBreaks, Typed, Becomes, Phases
    <3> QED BY <3>1, <1>11 DEF StreamBreaks, Typed
  <2>2. PublishedWasCurrent'
    BY <1>11 DEF StreamBreaks, PublishedWasCurrent
  <2>3. LoadedIsPublished'
    BY <1>11 DEF StreamBreaks, LoadedIsPublished, Pair
  <2>4. InflightPublished'
    BY <1>11 DEF StreamBreaks, InflightPublished, Pair
  <2>5. CacheHoldsPublished'
    BY <1>11 DEF StreamBreaks, CacheHoldsPublished
  <2>6. QuestionKnown'
    BY <1>11, StateShape DEF StreamBreaks, QuestionKnown, Typed, Asking, Becomes
  <2>7. AnswerIsWhatWasAsked'
    BY <1>11, StateShape DEF StreamBreaks, AnswerIsWhatWasAsked, Typed, Becomes
  <2> QED BY <2>1, <2>2, <2>3, <2>4, <2>5, <2>6, <2>7
<1>12. ASSUME NEW n \in Node, ReceiveNothing(n) PROVE IInv'
  <2>1. Typed'
    <3>1. ask' \in [Node -> [phase : Phases, peer : Node \cup {None}, id : Identity \cup {None},
                           answer : SignedIdentityState \cup {None}]]
      BY <1>12 DEF ReceiveNothing, Typed, Becomes, Phases
    <3> QED BY <3>1, <1>12 DEF ReceiveNothing, Typed
  <2>2. PublishedWasCurrent'
    BY <1>12 DEF ReceiveNothing, PublishedWasCurrent
  <2>3. LoadedIsPublished'
    BY <1>12 DEF ReceiveNothing, LoadedIsPublished, Pair
  <2>4. InflightPublished'
    BY <1>12 DEF ReceiveNothing, InflightPublished, Pair
  <2>5. CacheHoldsPublished'
    BY <1>12 DEF ReceiveNothing, CacheHoldsPublished
  <2>6. QuestionKnown'
    BY <1>12, StateShape DEF ReceiveNothing, QuestionKnown, Typed, Asking, Becomes
  <2>7. AnswerIsWhatWasAsked'
    BY <1>12, StateShape DEF ReceiveNothing, AnswerIsWhatWasAsked, Typed, Becomes
  <2> QED BY <2>1, <2>2, <2>3, <2>4, <2>5, <2>6, <2>7
<1>13. ASSUME NEW n \in Node, ReceiveState(n) PROVE IInv'
  <2> DEFINE state == unmarshalState(ask[n].answer)
  <2>0. /\ state \in SignedIdentityState /\ state # None /\ ask[n].phase = "answered"
        /\ state.id = ask[n].id /\ Pair(state) \in published
        /\ states' = [states EXCEPT ![n][state.id] = state]
        /\ Becomes(n, "received", state)
        /\ UNCHANGED <<current, publishing, loaded, subscribed, inflight, open, published>>
    <3>1. /\ ask[n].answer \in SignedIdentityState /\ ask[n].answer.id = ask[n].id
          /\ Pair(ask[n].answer) \in published
      BY <1>13 DEF ReceiveState, Readable, AnswerIsWhatWasAsked, Typed, Pair
    <3>2. /\ state \in SignedIdentityState /\ state.id = ask[n].answer.id
          /\ state.version = ask[n].answer.version
      BY <3>1, UnmarshalKeepsState
    <3> HIDE DEF state
    <3> QED BY <3>1, <3>2, <1>13, StateShape DEF ReceiveState, Pair, state
  <2> HIDE DEF state
  <2>1. Typed'
    <3>1. states' \in [Node -> [Identity -> SignedIdentityState \cup {None}]]
      BY <2>0, StateShape DEF Typed
    <3>2. ask' \in [Node -> [phase : Phases, peer : Node \cup {None}, id : Identity \cup {None},
                           answer : SignedIdentityState \cup {None}]]
      BY <2>0, StateShape DEF Typed, Becomes, Phases
    <3> QED BY <3>1, <3>2, <2>0, StateShape DEF Typed
  <2>2. PublishedWasCurrent'
    BY <2>0 DEF PublishedWasCurrent
  <2>3. LoadedIsPublished'
    BY <2>0 DEF LoadedIsPublished, Pair
  <2>4. InflightPublished'
    BY <2>0 DEF InflightPublished, Pair
  <2>5. CacheHoldsPublished'
    BY <2>0, StateShape DEF CacheHoldsPublished, Typed, PublishedWasCurrent, Pair
  <2>6. QuestionKnown'
    BY <2>0, StateShape DEF QuestionKnown, Typed, Asking, Becomes
  <2>7. AnswerIsWhatWasAsked'
    BY <2>0, StateShape DEF AnswerIsWhatWasAsked, Typed, Becomes, Pair
  <2> QED BY <2>1, <2>2, <2>3, <2>4, <2>5, <2>6, <2>7
<1>14. ASSUME NEW n \in Node, ResolveState(n) PROVE IInv'
  <2>1. Typed'
    <3>1. ask' \in [Node -> [phase : Phases, peer : Node \cup {None}, id : Identity \cup {None},
                           answer : SignedIdentityState \cup {None}]]
      BY <1>14 DEF ResolveState, Typed, Becomes, Phases
    <3> QED BY <3>1, <1>14 DEF ResolveState, Typed
  <2>2. PublishedWasCurrent'
    BY <1>14 DEF ResolveState, PublishedWasCurrent
  <2>3. LoadedIsPublished'
    BY <1>14 DEF ResolveState, LoadedIsPublished, Pair
  <2>4. InflightPublished'
    BY <1>14 DEF ResolveState, InflightPublished, Pair
  <2>5. CacheHoldsPublished'
    BY <1>14 DEF ResolveState, CacheHoldsPublished
  <2>6. QuestionKnown'
    BY <1>14, StateShape DEF ResolveState, QuestionKnown, Typed, Asking, Becomes
  <2>7. AnswerIsWhatWasAsked'
    BY <1>14, StateShape DEF ResolveState, AnswerIsWhatWasAsked, Typed, Becomes
  <2> QED BY <2>1, <2>2, <2>3, <2>4, <2>5, <2>6, <2>7
<1>15. ASSUME NEW n \in Node, RunResolve(n) PROVE IInv'
  <2>1. Typed'
    <3>1. ask' \in [Node -> [phase : Phases, peer : Node \cup {None}, id : Identity \cup {None},
                           answer : SignedIdentityState \cup {None}]]
      BY <1>15 DEF RunResolve, Typed, Becomes, Phases
    <3> QED BY <3>1, <1>15 DEF RunResolve, Typed
  <2>2. PublishedWasCurrent'
    BY <1>15 DEF RunResolve, PublishedWasCurrent
  <2>3. LoadedIsPublished'
    BY <1>15 DEF RunResolve, LoadedIsPublished, Pair
  <2>4. InflightPublished'
    BY <1>15 DEF RunResolve, InflightPublished, Pair
  <2>5. CacheHoldsPublished'
    BY <1>15 DEF RunResolve, CacheHoldsPublished
  <2>6. QuestionKnown'
    BY <1>15, StateShape DEF RunResolve, QuestionKnown, Typed, Asking, Becomes
  <2>7. AnswerIsWhatWasAsked'
    BY <1>15, StateShape DEF RunResolve, AnswerIsWhatWasAsked, Typed, Becomes
  <2> QED BY <2>1, <2>2, <2>3, <2>4, <2>5, <2>6, <2>7
<1>16. ASSUME NEW n \in Node, Close(n) PROVE IInv'
  <2>1. Typed'
    <3>1. open' \subseteq Node
      BY <1>16 DEF Close, Typed
    <3> QED BY <3>1, <1>16 DEF Close, Typed
  <2>2. PublishedWasCurrent'
    BY <1>16 DEF Close, PublishedWasCurrent
  <2>3. LoadedIsPublished'
    BY <1>16 DEF Close, LoadedIsPublished, Pair
  <2>4. InflightPublished'
    BY <1>16 DEF Close, InflightPublished, Pair
  <2>5. CacheHoldsPublished'
    BY <1>16 DEF Close, CacheHoldsPublished
  <2>6. QuestionKnown'
    BY <1>16 DEF Close, QuestionKnown, Asking
  <2>7. AnswerIsWhatWasAsked'
    BY <1>16 DEF Close, AnswerIsWhatWasAsked
  <2> QED BY <2>1, <2>2, <2>3, <2>4, <2>5, <2>6, <2>7
<1>17. CASE UNCHANGED vars
  BY <1>17
  DEF vars, Typed, PublishedWasCurrent, LoadedIsPublished, InflightPublished,
      CacheHoldsPublished, QuestionKnown, AnswerIsWhatWasAsked, Asking
<1> QED
  BY <1>1, <1>2, <1>3, <1>4, <1>5, <1>6, <1>7, <1>8, <1>9, <1>10, <1>11, <1>12, <1>13,
     <1>14, <1>15, <1>16, <1>17
  DEF Next, Exchange

-----------------------------------------------------------------------------
(* The variables keep their types, for any nodes, identities and versions. *)
THEOREM TypeCorrect == Spec => []ExchangeTypeOK
<1>1. IInv => ExchangeTypeOK
  BY ExchangeAssumption DEF IInv, ExchangeTypeOK, LoadedIsPublished, QuestionKnown
<1> QED BY <1>1, InitIInv, NextKeepsIInv, PTL DEF Spec

(* However messages and answers cross, and however often a state is handed *)
(* on, caches hold what was published, under the identity it is of.        *)
THEOREM CachesArePublished == Spec => []CacheHoldsPublished
<1>1. IInv => CacheHoldsPublished
  BY DEF IInv
<1> QED BY <1>1, InitIInv, NextKeepsIInv, PTL DEF Spec

(* ResolveRemote need not compare identities, among resolvers of this code.*)
THEOREM AnswersMatchQuestions == Spec => []AnswerIsWhatWasAsked
<1>1. IInv => AnswerIsWhatWasAsked
  BY DEF IInv
<1> QED BY <1>1, InitIInv, NextKeepsIInv, PTL DEF Spec

-----------------------------------------------------------------------------
(* What an answer has become on its way.                                   *)

HasAnswer(n) == ask[n].phase \in {"received", "shown", "refused"}

(* ResolveRemote returns what unmarshalState made of the bytes it read.    *)
AnswersAreDecoded ==
    \A n \in Node : HasAnswer(n) => ask[n].answer.attributes = "map[string]interface{}"

LEMMA AnswersDecodedStepHolds == IInv /\ AnswersAreDecoded /\ [Next]_vars => AnswersAreDecoded'
<1> SUFFICES ASSUME IInv, AnswersAreDecoded, [Next]_vars PROVE AnswersAreDecoded'
  OBVIOUS
<1> DEFINE Decoded(answer) == answer.attributes = "map[string]interface{}"
<1>1. ASSUME NEW n \in Node, NEW phase, NEW answer, Becomes(n, phase, answer),
             phase \in {"received", "shown", "refused"} => Decoded(answer)
      PROVE  AnswersAreDecoded'
  <2>1. /\ ask'[n].phase = phase /\ ask'[n].answer = answer
        /\ \A m \in Node \ {n} : ask'[m] = ask[m]
    BY <1>1 DEF Becomes, IInv, Typed
  <2> QED BY <1>1, <2>1 DEF AnswersAreDecoded, HasAnswer
<1>2. ASSUME NEW n \in Node, Exchange(n) PROVE AnswersAreDecoded'
  <2>1. CASE HandleStateStream(n)
    BY <2>1, <1>1 DEF HandleStateStream
  <2>2. CASE StreamBreaks(n)
    BY <2>2, <1>1 DEF StreamBreaks
  <2>3. CASE ReceiveNothing(n)
    BY <2>3, <1>1 DEF ReceiveNothing
  <2>4. CASE ReceiveState(n)
    <3>1. Decoded(unmarshalState(ask[n].answer))
      BY DEF unmarshalState
    <3> QED BY <2>4, <3>1, <1>1 DEF ReceiveState
  <2>5. CASE ResolveState(n) \/ RunResolve(n)
    <3>1. /\ ask[n].phase = "received"
          /\ \E phase : Becomes(n, phase, ask[n].answer)
      BY <2>5 DEF ResolveState, RunResolve
    <3>2. Decoded(ask[n].answer)
      BY <3>1 DEF AnswersAreDecoded, HasAnswer
    <3> QED BY <3>1, <3>2, <1>1
  <2> QED BY <1>2, <2>1, <2>2, <2>3, <2>4, <2>5 DEF Exchange
<1>3. ASSUME NEW n \in Node, NEW p \in Node, NEW i \in Identity, Ask(n, p, i)
      PROVE  AnswersAreDecoded'
  <2>1. ask'[n].phase = "asked" /\ \A m \in Node \ {n} : ask'[m] = ask[m]
    BY <1>3 DEF Ask, IInv, Typed
  <2> QED BY <2>1 DEF AnswersAreDecoded, HasAnswer
<1>4. ASSUME UNCHANGED ask PROVE AnswersAreDecoded'
  BY <1>4 DEF AnswersAreDecoded, HasAnswer
<1> QED
  BY <1>2, <1>3, <1>4
  DEF Next, Change, LoadIdentity, StoreState, PublishTopic, PublishFails, SubscribeIdentity,
      ConsumeSubscription, LoseMessage, Close, vars

NoAnswerVerifies == \A n \in Node : HasAnswer(n) => ~VerifyState(ask[n].answer)

(* The web console accepts no answer of any peer, ever, although nobody    *)
(* lied: identity.New and UpdateProfile sign a map[string]string           *)
(* (events.go 68 and 496), ResolveRemote decodes a map[string]interface{}, *)
(* and normalize prints that one as a list.                                *)
THEOREM ConsoleRefusesEveryAnswer == Spec => []NoAnswerVerifies
<1>1. Init => AnswersAreDecoded
  <2> SUFFICES ASSUME Init, NEW n \in Node PROVE ~HasAnswer(n)
    BY DEF AnswersAreDecoded
  <2>1. ask[n] = [phase |-> "idle", peer |-> None, id |-> None, answer |-> None]
    BY DEF Init
  <2>2. ask[n].phase = "idle"
    BY <2>1
  <2> QED BY <2>2 DEF HasAnswer
<1>2. AnswersAreDecoded => NoAnswerVerifies
  BY DEF AnswersAreDecoded, NoAnswerVerifies, VerifyState, CanonicalJSON
<1> QED BY <1>1, <1>2, InitIInv, NextKeepsIInv, AnswersDecodedStepHolds, PTL DEF Spec

(* Nothing is lost for good by it: printed to a file and loaded again, the *)
(* same answer verifies and is the state its owner published, whatever type*)
(* it had on the way: normalizeEventPayload gives the attributes their own *)
(* type back (keys.go 101-131).                                            *)
THEOREM PrintedAnswersVerify == Spec => []RelayedStateStillVerifies
<1>1. IInv => RelayedStateStillVerifies
  BY DEF IInv, CacheHoldsPublished, AnswerIsWhatWasAsked, RelayedStateStillVerifies, VerifyState,
         UnmarshalSignedState, CanonicalJSON
<1> QED BY <1>1, InitIInv, NextKeepsIInv, PTL DEF Spec

-----------------------------------------------------------------------------
(* How a question goes on.                                                 *)

Rank(phase) ==
    CASE phase = "asked" -> 1
      [] phase = "answered" -> 2
      [] phase = "received" -> 3
      [] OTHER -> 4

QuestionsOnlyAdvance ==
    [][\A n \in Node : Asking(n) =>
          \/ ask'[n] = ask[n]
          \/ /\ ask'[n].peer = ask[n].peer /\ ask'[n].id = ask[n].id
             /\ Rank(ask'[n].phase) > Rank(ask[n].phase)]_vars

(* A question that is out keeps its peer and its identity and never goes   *)
(* back: whatever else happens, at most three steps end it.  What is left  *)
(* of AskEnds is that the steps are taken.                                 *)
THEOREM QuestionsAdvance == Spec => QuestionsOnlyAdvance
<1> DEFINE Advance == \A n \in Node : Asking(n) =>
              \/ ask'[n] = ask[n]
              \/ /\ ask'[n].peer = ask[n].peer /\ ask'[n].id = ask[n].id
                 /\ Rank(ask'[n].phase) > Rank(ask[n].phase)
<1>1. ASSUME IInv, [Next]_vars PROVE Advance
  <2>1. ASSUME NEW n \in Node, NEW phase, NEW answer, Becomes(n, phase, answer),
               Rank(phase) > Rank(ask[n].phase)
        PROVE  Advance
    <3>1. /\ ask'[n].phase = phase /\ ask'[n].peer = ask[n].peer /\ ask'[n].id = ask[n].id
          /\ \A m \in Node \ {n} : ask'[m] = ask[m]
      BY <2>1, <1>1 DEF Becomes, IInv, Typed
    <3> QED BY <2>1, <3>1
  <2>2. ASSUME NEW n \in Node, Exchange(n) PROVE Advance
    <3>1. CASE HandleStateStream(n) \/ StreamBreaks(n) \/ ReceiveNothing(n)
      BY <3>1, <2>1 DEF HandleStateStream, StreamBreaks, ReceiveNothing, Rank
    <3>2. CASE ReceiveState(n)
      BY <3>2, <2>1 DEF ReceiveState, Rank
    <3>3. CASE ResolveState(n) \/ RunResolve(n)
      BY <3>3, <2>1 DEF ResolveState, RunResolve, Rank
    <3> QED BY <2>2, <3>1, <3>2, <3>3 DEF Exchange
  <2>3. ASSUME NEW n \in Node, NEW p \in Node, NEW i \in Identity, Ask(n, p, i) PROVE Advance
    <3>1. ~Asking(n) /\ \A m \in Node \ {n} : ask'[m] = ask[m]
      BY <2>3, <1>1 DEF Ask, IInv, Typed
    <3> QED BY <3>1
  <2>4. ASSUME UNCHANGED ask PROVE Advance
    BY <2>4
  <2> HIDE DEF Advance
  <2> QED
    BY <1>1, <2>2, <2>3, <2>4
    DEF Next, Change, LoadIdentity, StoreState, PublishTopic, PublishFails, SubscribeIdentity,
        ConsumeSubscription, LoseMessage, Close, vars
<1>2. IInv /\ [Next]_vars => [Advance]_vars
  BY <1>1
<1> HIDE DEF Advance
<1>3. QuestionsOnlyAdvance <=> [][Advance]_vars
  BY PTL DEF QuestionsOnlyAdvance, Advance
<1> QED BY <1>2, <1>3, InitIInv, NextKeepsIInv, PTL DEF Spec

-----------------------------------------------------------------------------
(* The refinement.                                                         *)

Known == [n \in Node |-> [i \in Identity |-> Held(states[n][i])]]
ToldAll == [n \in Node |-> Told(n)]

LEMMA InitImplements == Init => Abstract!Init
  BY DEF Init, Abstract!Init, Held, Told

(* A cache that takes a state in knows its version afterwards.             *)
LEMMA CacheTakes ==
  ASSUME Typed, NEW n \in Node, NEW state \in SignedIdentityState,
         states' = [states EXCEPT ![n][state.id] = state]
  PROVE  Known' = [Known EXCEPT ![n][state.id] = state.version]
<1>1. state # None /\ state.id \in Identity
  BY StateShape
<1>2. Held(state) = state.version
  BY <1>1 DEF Held
<1>3. states \in [Node -> [Identity -> SignedIdentityState \cup {None}]]
  BY DEF Typed
<1>4. \A m \in Node, i \in Identity :
        states'[m][i] = IF m = n /\ i = state.id THEN state ELSE states[m][i]
  BY <1>1, <1>3
<1>5. \A m \in Node, i \in Identity :
        Held(states'[m][i]) = IF m = n /\ i = state.id THEN state.version ELSE Held(states[m][i])
  BY <1>2, <1>4
<1>6. Known' = [m \in Node |-> [i \in Identity |-> Held(states'[m][i])]]
  BY DEF Known, Held
<1> QED BY <1>1, <1>5, <1>6 DEF Known

(* A question in a phase with no answer tells nothing, one with an answer  *)
(* tells its version.                                                      *)
LEMMA QuestionTells ==
  ASSUME Typed, NEW n \in Node, NEW phase, NEW answer, Becomes(n, phase, answer)
  PROVE  ToldAll' = [ToldAll EXCEPT ![n] =
           [i \in Identity |-> IF phase \in {"received", "shown", "refused"} /\ ask[n].id = i
                              THEN answer.version ELSE 0]]
<1>1. /\ ask'[n].phase = phase /\ ask'[n].id = ask[n].id /\ ask'[n].answer = answer
      /\ \A m \in Node \ {n} : ask'[m] = ask[m]
  BY DEF Becomes, Typed
<1>2. \A m \in Node \ {n} : Told(m)' = Told(m)
  BY <1>1 DEF Told
<1>3. Told(n)' = [i \in Identity |-> IF phase \in {"received", "shown", "refused"} /\ ask[n].id = i
                                    THEN answer.version ELSE 0]
  BY <1>1 DEF Told
<1> QED BY <1>2, <1>3 DEF ToldAll

LEMMA NextImplements == IInv /\ [Next]_vars => [Abstract!Next]_(Abstract!vars)
<1> SUFFICES ASSUME IInv, [Next]_vars PROVE [Abstract!Next]_(Abstract!vars)
  OBVIOUS
<1> USE DEF IInv
<1>0. /\ Abstract!vars = <<current, published, Known, ToldAll>>
      /\ UNCHANGED states => UNCHANGED Known
      /\ UNCHANGED ask => UNCHANGED ToldAll
  BY DEF Abstract!vars, Known, ToldAll, Told, Held
<1>00. UNCHANGED <<current, published, Known, ToldAll>> => UNCHANGED (Abstract!vars)
  BY DEF Abstract!vars, Known, ToldAll
<1>1. ASSUME NEW i \in Identity, Change(i) PROVE Abstract!Next
  <2>1. UNCHANGED <<published, Known, ToldAll>>
    BY <1>1, <1>0 DEF Change
  <2>2. Abstract!Change(i)
    BY <1>1, <2>1 DEF Change, Abstract!Change, Known, ToldAll
  <2> QED BY <2>2 DEF Abstract!Next
<1>2. ASSUME NEW n \in Node, StoreState(n) PROVE Abstract!Next
  <2> DEFINE state == loaded[n]
  <2>1. /\ state \in SignedIdentityState /\ state.version <= current[state.id]
        /\ states' = [states EXCEPT ![n][state.id] = state]
        /\ published' = published \cup {<<state.id, state.version>>}
        /\ UNCHANGED <<current, ask>>
    BY <1>2 DEF StoreState, LoadedIsPublished, Typed
  <2> HIDE DEF state
  <2>2. state.id \in Identity /\ state.version \in 1..current[state.id]
    <3>1. state.id \in Identity /\ state.version \in Version
      BY <2>1, StateShape
    <3>2. current[state.id] \in Version
      BY <3>1 DEF Typed
    <3>3. MaxVersion \in Nat
      BY ExchangeAssumption
    <3>4. state.version \in Int /\ state.version >= 1 /\ current[state.id] \in Int
      BY <3>1, <3>2, <3>3 DEF Version
    <3> QED BY <2>1, <3>1, <3>4
  <2>3. Known' = [Known EXCEPT ![n][state.id] = state.version] /\ UNCHANGED ToldAll
    BY <2>1, <1>0, CacheTakes
  <2>4. Abstract!Publish(n, state.id)
    BY <2>1, <2>2, <2>3 DEF Abstract!Publish, Known, ToldAll
  <2> QED BY <2>2, <2>4 DEF Abstract!Next
<1>3. ASSUME NEW msg \in inflight, ConsumeSubscription(msg) PROVE Abstract!Next
  <2> DEFINE state == unmarshalState(msg.state)
             n == msg.to
  <2>1. /\ state \in SignedIdentityState /\ n \in Node /\ Pair(state) \in published
        /\ states' = [states EXCEPT ![n][state.id] = state]
        /\ UNCHANGED <<current, ask, published>>
    <3>1. msg \in [to : Node, state : SignedIdentityState] /\ Pair(msg.state) \in published
      BY DEF Typed, InflightPublished
    <3>2. state \in SignedIdentityState /\ state.id = msg.state.id /\ state.version = msg.state.version
      BY <3>1, UnmarshalKeepsState
    <3> HIDE DEF state
    <3> QED BY <3>1, <3>2, <1>3 DEF ConsumeSubscription, Pair, state
  <2> HIDE DEF state, n
  <2>2. Known' = [Known EXCEPT ![n][state.id] = state.version] /\ UNCHANGED ToldAll
    BY <2>1, <1>0, CacheTakes
  <2>3. state.id \in Identity /\ state.version \in Abstract!Version
    BY <2>1, StateShape DEF Version, Abstract!Version
  <2>4. Abstract!Hear(n, state.id)
    BY <2>1, <2>2, <2>3 DEF Abstract!Hear, Known, ToldAll, Pair
  <2> QED BY <2>1, <2>3, <2>4 DEF Abstract!Next
<1>4. ASSUME NEW n \in Node, NEW p \in Node, NEW i \in Identity, Ask(n, p, i) PROVE Abstract!Next
  <2>1. /\ ask'[n].phase = "asked"
        /\ \A m \in Node \ {n} : ask'[m] = ask[m]
        /\ UNCHANGED <<current, published, states>>
    BY <1>4 DEF Ask, Typed
  <2>2. /\ \A m \in Node \ {n} : Told(m)' = Told(m)
        /\ Told(n)' = [j \in Identity |-> 0]
    BY <2>1 DEF Told
  <2>3. ToldAll' = [ToldAll EXCEPT ![n] = [j \in Identity |-> 0]] /\ UNCHANGED Known
    BY <2>1, <2>2, <1>0 DEF ToldAll
  <2>4. Abstract!Ask(n)
    BY <2>1, <2>3 DEF Abstract!Ask, Known, ToldAll
  <2> QED BY <2>4 DEF Abstract!Next
<1>5. ASSUME NEW n \in Node, ReceiveState(n) PROVE Abstract!Next
  <2> DEFINE state == unmarshalState(ask[n].answer)
  <2>1. /\ state \in SignedIdentityState /\ state.id = ask[n].id /\ Pair(state) \in published
        /\ states' = [states EXCEPT ![n][state.id] = state]
        /\ Becomes(n, "received", state)
        /\ UNCHANGED <<current, published>>
    <3>1. /\ ask[n].answer \in SignedIdentityState /\ ask[n].answer.id = ask[n].id
          /\ Pair(ask[n].answer) \in published
      BY <1>5 DEF ReceiveState, Readable, AnswerIsWhatWasAsked, Typed, Pair
    <3>2. /\ state \in SignedIdentityState /\ state.id = ask[n].answer.id
          /\ state.version = ask[n].answer.version
      BY <3>1, UnmarshalKeepsState
    <3> HIDE DEF state
    <3> QED BY <3>1, <3>2, <1>5 DEF ReceiveState, Pair, state
  <2> HIDE DEF state
  <2>2. Known' = [Known EXCEPT ![n][state.id] = state.version]
    BY <2>1, CacheTakes
  <2>3. ToldAll' = [ToldAll EXCEPT ![n] =
                      [i \in Identity |-> IF i = state.id THEN state.version ELSE 0]]
    BY <2>1, QuestionTells
  <2>4. state.id \in Identity /\ state.version \in Abstract!Version
    BY <2>1, StateShape DEF Version, Abstract!Version
  <2>5. Abstract!Learn(n, state.id)
    BY <2>1, <2>2, <2>3, <2>4 DEF Abstract!Learn, Known, ToldAll, Pair
  <2> QED BY <2>4, <2>5 DEF Abstract!Next
<1>6. ASSUME NEW n \in Node, ResolveState(n) \/ RunResolve(n) PROVE UNCHANGED (Abstract!vars)
  <2>1. PICK phase \in {"shown", "refused"} : Becomes(n, phase, ask[n].answer)
    BY <1>6 DEF ResolveState, RunResolve
  <2>2. ask[n].phase = "received" /\ UNCHANGED <<current, published, states>>
    BY <1>6 DEF ResolveState, RunResolve
  <2>3. ToldAll' = [ToldAll EXCEPT ![n] = Told(n)]
    BY <2>1, <2>2, QuestionTells DEF Told
  <2> QED BY <2>2, <2>3, <1>0, <1>00 DEF ToldAll
<1>7. ASSUME NEW n \in Node, HandleStateStream(n) \/ StreamBreaks(n) \/ ReceiveNothing(n)
      PROVE  UNCHANGED (Abstract!vars)
  <2>1. /\ ask[n].phase \in {"asked", "answered"}
        /\ \E answer : \E phase \in {"answered", "failed"} : Becomes(n, phase, answer)
        /\ UNCHANGED <<current, published, states>>
    BY <1>7 DEF HandleStateStream, StreamBreaks, ReceiveNothing
  <2>2. ToldAll' = [ToldAll EXCEPT ![n] = [i \in Identity |-> 0]]
    BY <2>1, QuestionTells
  <2>3. Told(n) = [i \in Identity |-> 0]
    BY <2>1 DEF Told
  <2> QED BY <2>1, <2>2, <2>3, <1>0, <1>00 DEF ToldAll
<1>8. ASSUME NEW n \in Node,
             \/ PublishTopic(n) \/ PublishFails(n) \/ Close(n)
             \/ \E i \in Identity : LoadIdentity(n, i) \/ SubscribeIdentity(n, i)
      PROVE  UNCHANGED (Abstract!vars)
  BY <1>8, <1>0, <1>00 DEF PublishTopic, PublishFails, Close, LoadIdentity, SubscribeIdentity
<1>9. ASSUME NEW msg \in inflight, LoseMessage(msg) PROVE UNCHANGED (Abstract!vars)
  BY <1>9, <1>0, <1>00 DEF LoseMessage
<1>10. CASE UNCHANGED vars
  BY <1>10, <1>0, <1>00 DEF vars
<1> QED
  BY <1>1, <1>2, <1>3, <1>4, <1>5, <1>6, <1>7, <1>8, <1>9, <1>10 DEF Next, Exchange

(* The resolvers, with their streams, topics and failures, exchange states *)
(* as StateExchange says.                                                  *)
THEOREM ResolversImplementExchange == Spec => ImplementsStateExchange
<1> QED
  BY InitImplements, NextImplements, InitIInv, NextKeepsIInv, PTL
  DEF Spec, ImplementsStateExchange, Abstract!Spec

=============================================================================
