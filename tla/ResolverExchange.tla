------------------------- MODULE ResolverExchange -------------------------
(***************************************************************************)
(* The exchange of signed states between resolvers                         *)
(* (internal/p2p/resolver.go and codec.go), with its callers: StartPublish *)
(* and ResolveState (internal/app/service.go 589-675), runPublish and      *)
(* runResolve (internal/cli/node.go 342-383).                              *)
(*                                                                         *)
(* A node is a resolver with a host of its own.  It publishes at most one  *)
(* state, loaded from the owner's file some time before; it may subscribe  *)
(* to the topic of an identity and consume its messages, which arrive late,*)
(* in any order, or never; it asks a peer over a stream, and answers from  *)
(* its cache those who ask it.  A state stands for its identity, its       *)
(* version (the number of accepted events) and the Go type of the          *)
(* attributes in its profile payloads, on which the bytes that were signed *)
(* depend.                                                                 *)
(***************************************************************************)
EXTENDS Integers

CONSTANTS
    Node,             \* the resolvers
    Identity,         \* the identities
    None,             \* no state, no question
    Changing,         \* bound: the identities whose owner changes them
    MaxVersion,       \* bound on the changes of an identity
    MaxObjectSize,    \* the versions whose JSON fits in maxObjectSize bytes
    Publisher, Asker  \* the nodes that may publish, and that may ask

ASSUME ExchangeAssumption ==
    /\ MaxVersion \in Nat \ {0}
    /\ MaxObjectSize \in Nat
    /\ Publisher \subseteq Node /\ Asker \subseteq Node
    /\ None \notin Identity \cup Node
    /\ None \notin [id : Identity, version : 1..MaxVersion,
                    attributes : {"map[string]string", "map[string]interface{}"}]

VARIABLES
    current,      \* the version of each identity in its owner's file
    publishing,   \* how far a node's publication is
    loaded,       \* the state it loaded for it
    states,       \* Resolver.states: a cache, by identity
    subscribed,   \* the identities whose topic it has subscribed to
    inflight,     \* messages on their way to a subscriber
    open,         \* the nodes whose host is not closed
    ask,          \* a node's question to a peer, and what came of it
    published     \* history: <<identity, version>> of every state published

vars == <<current, publishing, loaded, states, subscribed, inflight, open, ask, published>>

Version == 1..MaxVersion

SignedIdentityState ==
    [id : Identity, version : Version,
     attributes : {"map[string]string", "map[string]interface{}"}]

-----------------------------------------------------------------------------
(* The codec.                                                              *)

(* normalize turns a map[string]interface{} into the list of its keys and  *)
(* values and leaves a map[string]string to json.Marshal.                  *)
CanonicalJSON(attributes) ==
    IF attributes = "map[string]interface{}" THEN "list" ELSE "object"

(* identity.New and UpdateProfile sign attributes of type map[string]string.*)
VerifyState(state) ==
    CanonicalJSON(state.attributes) = CanonicalJSON("map[string]string")

(* The JSON of a state is the same for both types.                         *)
unmarshalState(state) ==
    [id |-> state.id, version |-> state.version, attributes |-> "map[string]interface{}"]

(* Mutant of UnmarshalSignedState: the payloads as json.Unmarshal made them.*)
UnmarshalSignedStateAsIs(state) == unmarshalState(state)

(* What loadSignedState makes of a file a resolved state was printed to.   *)
UnmarshalSignedState(state) ==
    [id |-> state.id, version |-> state.version, attributes |-> "map[string]string"]

-----------------------------------------------------------------------------
(* Publishing.                                                             *)

(* A change of the owner's file.                                           *)
Change(i) ==
    /\ i \in Changing /\ current[i] < MaxVersion
    /\ current' = [current EXCEPT ![i] = @ + 1]
    /\ UNCHANGED <<publishing, loaded, states, subscribed, inflight, open, ask, published>>

(* loadIdentityWithPath, before there is a resolver.                       *)
LoadIdentity(n, i) ==
    /\ n \in Publisher /\ publishing[n] = "idle" /\ n \in open
    /\ publishing' = [publishing EXCEPT ![n] = "loaded"]
    /\ loaded' = [loaded EXCEPT ![n] =
         [id |-> i, version |-> current[i], attributes |-> "map[string]string"]]
    /\ UNCHANGED <<current, states, subscribed, inflight, open, ask, published>>

(* Mutant of StoreState: the file as it is by now.                         *)
StoreStateReloaded(n) ==
    /\ publishing[n] = "loaded" /\ n \in open
    /\ publishing' = [publishing EXCEPT ![n] = "stored"]
    /\ states' = [states EXCEPT ![n][loaded[n].id] =
                     [loaded[n] EXCEPT !.version = current[loaded[n].id]]]
    /\ published' = published \cup {<<loaded[n].id, loaded[n].version>>}
    /\ UNCHANGED <<current, loaded, subscribed, inflight, open, ask>>

(* The first half of PublishState: from here on peers can get the state.   *)
StoreState(n) ==
    /\ publishing[n] = "loaded" /\ n \in open
    /\ publishing' = [publishing EXCEPT ![n] = "stored"]
    /\ states' = [states EXCEPT ![n][loaded[n].id] = loaded[n]]
    /\ published' = published \cup {<<loaded[n].id, loaded[n].version>>}
    /\ UNCHANGED <<current, loaded, subscribed, inflight, open, ask>>

(* topic.Publish: to whoever has subscribed by now, itself included.       *)
PublishTopic(n) ==
    /\ publishing[n] = "stored" /\ n \in open
    /\ publishing' = [publishing EXCEPT ![n] = "published"]
    /\ inflight' = inflight \cup
         {[to |-> m, state |-> loaded[n]] :
             m \in {m \in open : loaded[n].id \in subscribed[m]}}
    /\ UNCHANGED <<current, loaded, states, subscribed, open, ask, published>>

(* Joining the topic or publishing fails: the caller closes the resolver.  *)
PublishFails(n) ==
    /\ publishing[n] = "stored" /\ n \in open
    /\ publishing' = [publishing EXCEPT ![n] = "failed"]
    /\ open' = open \ {n}
    /\ UNCHANGED <<current, loaded, states, subscribed, inflight, ask, published>>

SubscribeIdentity(n, i) ==
    /\ n \in open /\ i \notin subscribed[n]
    /\ subscribed' = [subscribed EXCEPT ![n] = @ \cup {i}]
    /\ UNCHANGED <<current, publishing, loaded, states, inflight, open, ask, published>>

(* Whatever arrives is cached under the identity it says it is of, over    *)
(* whatever was there.                                                     *)
ConsumeSubscription(msg) ==
    /\ msg.to \in open
    /\ inflight' = inflight \ {msg}
    /\ states' = [states EXCEPT ![msg.to][msg.state.id] = unmarshalState(msg.state)]
    /\ UNCHANGED <<current, publishing, loaded, subscribed, open, ask, published>>

(* FloodSub promises nothing.                                              *)
LoseMessage(msg) ==
    /\ inflight' = inflight \ {msg}
    /\ UNCHANGED <<current, publishing, loaded, states, subscribed, open, ask, published>>

-----------------------------------------------------------------------------
(* Asking.                                                                 *)

Asking(n) == ask[n].phase \in {"asked", "answered", "received"}

(* The question of n reaches a phase, with an answer or None.              *)
Becomes(n, phase, answer) ==
    ask' = [ask EXCEPT ![n] = [phase |-> phase, peer |-> ask[n].peer, id |-> ask[n].id,
                               answer |-> answer]]

(* DialPeer, NewStream and the query, closed for writing.                  *)
Ask(n, p, i) ==
    /\ n \in Asker /\ n \in open /\ p \in open \ {n} /\ ~Asking(n)
    /\ ask' = [ask EXCEPT ![n] = [phase |-> "asked", peer |-> p, id |-> i, answer |-> None]]
    /\ UNCHANGED <<current, publishing, loaded, states, subscribed, inflight, open, published>>

(* Mutants of HandleStateStream: any state at hand will do, and a stream   *)
(* left open when there is nothing to say.                                 *)
HandleStateStreamAnyState(n) ==
    /\ ask[n].phase = "asked" /\ ask[n].peer \in open
    /\ \E i \in Identity :
         Becomes(n, "answered", states[ask[n].peer][i])
    /\ UNCHANGED <<current, publishing, loaded, states, subscribed, inflight, open, published>>
HandleStateStreamLeftOpen(n) ==
    /\ ask[n].phase = "asked" /\ ask[n].peer \in open
    /\ states[ask[n].peer][ask[n].id] # None
    /\ Becomes(n, "answered", states[ask[n].peer][ask[n].id])
    /\ UNCHANGED <<current, publishing, loaded, states, subscribed, inflight, open, published>>

(* The peer's side: what it has under this identity, or nothing, and the   *)
(* stream closed in either case.                                           *)
HandleStateStream(n) ==
    /\ ask[n].phase = "asked" /\ ask[n].peer \in open
    /\ Becomes(n, "answered", states[ask[n].peer][ask[n].id])
    /\ UNCHANGED <<current, publishing, loaded, states, subscribed, inflight, open, published>>

(* The peer's host is closed before the answer was read.                   *)
StreamBreaks(n) ==
    /\ ask[n].phase \in {"asked", "answered"} /\ ask[n].peer \notin open
    /\ Becomes(n, "failed", None)
    /\ UNCHANGED <<current, publishing, loaded, states, subscribed, inflight, open, published>>

(* No byte means not found; an answer cut at maxObjectSize is refused.     *)
Readable(answer) == answer # None /\ answer.version <= MaxObjectSize

(* Mutant of ReceiveNothing: an empty answer is not told from a state.     *)
ReceiveNothingAsState(n) ==
    /\ ask[n].phase = "answered" /\ ~Readable(ask[n].answer)
    /\ Becomes(n, "received", None)
    /\ UNCHANGED <<current, publishing, loaded, states, subscribed, inflight, open, published>>

ReceiveNothing(n) ==
    /\ ask[n].phase = "answered" /\ ~Readable(ask[n].answer)
    /\ Becomes(n, "failed", None)
    /\ UNCHANGED <<current, publishing, loaded, states, subscribed, inflight, open, published>>

(* Mutant of ReceiveState: the answer is returned and not cached.          *)
ReceiveStateUncached(n) ==
    /\ ask[n].phase = "answered" /\ Readable(ask[n].answer)
    /\ Becomes(n, "received", unmarshalState(ask[n].answer))
    /\ UNCHANGED <<current, publishing, loaded, states, subscribed, inflight, open, published>>

(* The rest of ResolveRemote: cached as it is, before anybody verifies it. *)
ReceiveState(n) ==
    /\ ask[n].phase = "answered" /\ Readable(ask[n].answer)
    /\ LET state == unmarshalState(ask[n].answer) IN
         /\ states' = [states EXCEPT ![n][state.id] = state]
         /\ Becomes(n, "received", state)
    /\ UNCHANGED <<current, publishing, loaded, subscribed, inflight, open, published>>

(* The web console verifies what it got and shows it or an error.          *)
ResolveState(n) ==
    /\ ask[n].phase = "received"
    /\ Becomes(n, IF VerifyState(ask[n].answer) THEN "shown" ELSE "refused", ask[n].answer)
    /\ UNCHANGED <<current, publishing, loaded, states, subscribed, inflight, open, published>>

(* The command prints it as it came.                                       *)
RunResolve(n) ==
    /\ ask[n].phase = "received"
    /\ Becomes(n, "shown", ask[n].answer)
    /\ UNCHANGED <<current, publishing, loaded, states, subscribed, inflight, open, published>>

(* A caller closes its resolver when it has published for long enough, or  *)
(* has its answer.  A closed host reads and answers nothing.               *)
Close(n) ==
    /\ n \in open /\ ~Asking(n) /\ publishing[n] \notin {"loaded", "stored"}
    /\ open' = open \ {n}
    /\ UNCHANGED <<current, publishing, loaded, states, subscribed, inflight, ask, published>>

-----------------------------------------------------------------------------
Init ==
    /\ current = [i \in Identity |-> 1]
    /\ publishing = [n \in Node |-> "idle"]
    /\ loaded = [n \in Node |-> None]
    /\ states = [n \in Node |-> [i \in Identity |-> None]]
    /\ subscribed = [n \in Node |-> {}]
    /\ inflight = {}
    /\ open = Node
    /\ ask = [n \in Node |-> [phase |-> "idle", peer |-> None, id |-> None, answer |-> None]]
    /\ published = {}

(* What the asker and its peer do by themselves once the question is out.  *)
Exchange(n) ==
    \/ HandleStateStream(n) \/ StreamBreaks(n)
    \/ ReceiveNothing(n) \/ ReceiveState(n)
    \/ ResolveState(n) \/ RunResolve(n)

Next ==
    \/ \E i \in Identity : Change(i)
    \/ \E n \in Node :
         \/ StoreState(n) \/ PublishTopic(n) \/ PublishFails(n)
         \/ Exchange(n) \/ Close(n)
         \/ \E i \in Identity :
              \/ LoadIdentity(n, i) \/ SubscribeIdentity(n, i)
              \/ \E p \in Node : Ask(n, p, i)
    \/ \E msg \in inflight : ConsumeSubscription(msg) \/ LoseMessage(msg)

Fairness == \A n \in Node : WF_vars(Exchange(n))

Spec == Init /\ [][Next]_vars /\ Fairness

-----------------------------------------------------------------------------
(* Properties.                                                             *)

Phases == {"idle", "asked", "answered", "received", "shown", "refused", "failed"}

Typed ==
    /\ current \in [Identity -> Version]
    /\ publishing \in [Node -> {"idle", "loaded", "stored", "published", "failed"}]
    /\ loaded \in [Node -> SignedIdentityState \cup {None}]
    /\ states \in [Node -> [Identity -> SignedIdentityState \cup {None}]]
    /\ subscribed \in [Node -> SUBSET Identity]
    /\ inflight \subseteq [to : Node, state : SignedIdentityState]
    /\ open \subseteq Node
    /\ ask \in [Node -> [phase : Phases, peer : Node \cup {None}, id : Identity \cup {None},
                         answer : SignedIdentityState \cup {None}]]
    /\ published \subseteq Identity \X Version

(* The types, and what goes with how far a node is: who publishes has      *)
(* loaded a state, a question is about an identity and put to a peer, and  *)
(* what is returned as an answer is a state (resolver.go 193-216).         *)
ExchangeTypeOK ==
    /\ Typed
    /\ \A n \in Node :
         /\ publishing[n] # "idle" => loaded[n] # None
         /\ ask[n].phase # "idle" => ask[n].peer # None /\ ask[n].id # None
         /\ ask[n].phase \in {"received", "shown", "refused"} => ask[n].answer # None
         /\ ask[n].phase \in {"idle", "asked", "failed"} => ask[n].answer = None

(* Whoever holds a state holds one its owner published, filed under its own*)
(* identity, however it came there: stored, heard on a topic, or answered  *)
(* by a peer that had it from another (resolver.go 104-110, 160-174, 214). *)
CacheHoldsPublished ==
    \A n \in Node, i \in Identity :
        LET state == states[n][i] IN
        state # None =>
            /\ state.id = i /\ <<i, state.version>> \in published
            /\ state.version <= current[i]

(* ResolveRemote takes the identity from the answer and never compares it  *)
(* with the one it asked for: the caches of the peers must make up for it. *)
AnswerIsWhatWasAsked ==
    \A n \in Node :
        ask[n].answer # None =>
            ask[n].answer.id = ask[n].id /\ <<ask[n].id, ask[n].answer.version>> \in published

(* However many resolvers a state went through, its file verifies and is   *)
(* what its owner published: what runResolve printed is accepted by        *)
(* verify -state (keys.go 101-131).                                        *)
RelayedStateStillVerifies ==
    LET Loads(i, state) ==
          LET printed == UnmarshalSignedState(state)
          IN  VerifyState(printed) /\ printed.id = i /\ <<i, printed.version>> \in published
    IN  \A n \in Node :
          /\ ask[n].answer # None => Loads(ask[n].id, ask[n].answer)
          /\ \A i \in Identity : states[n][i] # None => Loads(i, states[n][i])

(* ResolveRemote reads without a deadline: what ends a question is that    *)
(* the peer's handler closes the stream on every path, or its host closes. *)
AskEnds == \A n \in Node : Asking(n) ~> ~Asking(n)

(* The web console shows the state a peer answered with: "the state fetched*)
(* is fully verified and shown once confirmed" (doc/产品使用说明.md:161).  *)
ResolvedStateIsShown == \A n \in Node : ask[n].phase # "refused"

(* Resolvers, topics and streams implement the plain exchange of states.   *)
Held(state) == IF state = None THEN 0 ELSE state.version
Told(n) == [i \in Identity |->
              IF ask[n].phase \in {"received", "shown", "refused"} /\ ask[n].id = i
              THEN ask[n].answer.version ELSE 0]

Abstract == INSTANCE StateExchange WITH
    known <- [n \in Node |-> [i \in Identity |-> Held(states[n][i])]],
    told <- [n \in Node |-> Told(n)]

ImplementsStateExchange == Abstract!Spec

=============================================================================
