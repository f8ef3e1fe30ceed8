---------------------------- MODULE PublishSlot ----------------------------
(***************************************************************************)
(* The life of published states in the web console: Service.StartPublish   *)
(* (internal/app/service.go 589-639) with the resolver it builds           *)
(* (internal/p2p/resolver.go NewResolver, PublishState, Close).            *)
(*                                                                         *)
(* Every request builds a resolver of its own, outside Service.mu, and     *)
(* then installs it in the single slot (publishResolver, publishCancel)    *)
(* under the lock, ending the one installed before.  A goroutine per       *)
(* installed resolver waits for its context, closes it and empties the     *)
(* slot if it is still the one there.  A request stands for its resolver,  *)
(* its context and its goroutine.  A step under the lock is one action.    *)
(***************************************************************************)
CONSTANTS
    Request,      \* the publish requests
    NoRequest     \* an empty slot

ASSUME PublishAssumption == NoRequest \notin Request

VARIABLES
    pc,               \* where the request's handler is
    ctx,              \* the request's context: none, live, done
    host,             \* its libp2p host: none, open, closed, leaked
    topic,            \* whether the resolver has joined its topic
    waiter,           \* its goroutine: none, waiting, closed, ended
    publishResolver,  \* the slot: the resolver, and the cancel function,
    publishCancel     \*   of the request installed last

vars == <<pc, ctx, host, topic, waiter, publishResolver, publishCancel>>

(* A file that does not load ends the request with nothing done.           *)
LoadIdentity(r) ==
    /\ pc[r] = "start"
    /\ pc' = [pc EXCEPT ![r] = "loaded"]
    /\ UNCHANGED <<ctx, host, topic, waiter, publishResolver, publishCancel>>

(* context.WithTimeout, then NewResolver.                                  *)
NewResolver(r) ==
    /\ pc[r] = "loaded"
    /\ pc' = [pc EXCEPT ![r] = "built"]
    /\ ctx' = [ctx EXCEPT ![r] = "live"]
    /\ host' = [host EXCEPT ![r] = "open"]
    /\ UNCHANGED <<topic, waiter, publishResolver, publishCancel>>

(* It fails before there is a host, or after: the DHT or the pubsub could  *)
(* not be made, and nobody closes the host that already listens.           *)
NewResolverFails(r) ==
    /\ pc[r] = "loaded"
    /\ pc' = [pc EXCEPT ![r] = "failed"]
    /\ ctx' = [ctx EXCEPT ![r] = "done"]
    /\ \E h \in {"none", "leaked"} : host' = [host EXCEPT ![r] = h]
    /\ UNCHANGED <<topic, waiter, publishResolver, publishCancel>>

(* Resolver.Close may be called twice: by the next request and the waiter. *)
CloseResolver(r) ==
    /\ host' = [host EXCEPT ![r] = "closed"]
    /\ topic' = [topic EXCEPT ![r] = FALSE]

(* PublishState, StoreReferencedObjects, AddrStrings.                      *)
PublishState(r) ==
    /\ pc[r] = "built"
    /\ pc' = [pc EXCEPT ![r] = "published"]
    /\ topic' = [topic EXCEPT ![r] = TRUE]
    /\ UNCHANGED <<ctx, host, waiter, publishResolver, publishCancel>>

(* Mutant of PublishStateFails: the resolver is not closed.                *)
PublishStateFailsOpen(r) ==
    /\ pc[r] = "built"
    /\ pc' = [pc EXCEPT ![r] = "failed"]
    /\ ctx' = [ctx EXCEPT ![r] = "done"]
    /\ UNCHANGED <<host, topic, waiter, publishResolver, publishCancel>>

PublishStateFails(r) ==
    /\ pc[r] = "built"
    /\ pc' = [pc EXCEPT ![r] = "failed"]
    /\ ctx' = [ctx EXCEPT ![r] = "done"]
    /\ CloseResolver(r)
    /\ UNCHANGED <<waiter, publishResolver, publishCancel>>

(* The critical section of StartPublish: cancel and close what is in the   *)
(* slot, then put the new resolver there.                                  *)
Install(r) ==
    /\ pc[r] = "published"
    /\ pc' = [pc EXCEPT ![r] = "installed"]
    /\ ctx' = [q \in Request |-> IF q = publishCancel THEN "done" ELSE ctx[q]]
    /\ host' = [q \in Request |-> IF q = publishResolver THEN "closed" ELSE host[q]]
    /\ topic' = [q \in Request |-> IF q = publishResolver THEN FALSE ELSE topic[q]]
    /\ publishResolver' = r
    /\ publishCancel' = r
    /\ UNCHANGED waiter

(* Mutant of StartWaiter: none for a context that is over already.         *)
StartWaiterIfLive(r) ==
    /\ pc[r] = "installed"
    /\ pc' = [pc EXCEPT ![r] = "returned"]
    /\ waiter' = [waiter EXCEPT ![r] = IF ctx[r] = "live" THEN "waiting" ELSE "ended"]
    /\ UNCHANGED <<ctx, host, topic, publishResolver, publishCancel>>

(* go func() { <-ctx.Done() ... }, and the answer to the user.             *)
StartWaiter(r) ==
    /\ pc[r] = "installed"
    /\ pc' = [pc EXCEPT ![r] = "returned"]
    /\ waiter' = [waiter EXCEPT ![r] = "waiting"]
    /\ UNCHANGED <<ctx, host, topic, publishResolver, publishCancel>>

(* The wait the user asked for is over; it may be while still installing.  *)
Expire(r) ==
    /\ ctx[r] = "live"
    /\ ctx' = [ctx EXCEPT ![r] = "done"]
    /\ UNCHANGED <<pc, host, topic, waiter, publishResolver, publishCancel>>

WaiterCloses(r) ==
    /\ waiter[r] = "waiting" /\ ctx[r] = "done"
    /\ waiter' = [waiter EXCEPT ![r] = "closed"]
    /\ CloseResolver(r)
    /\ UNCHANGED <<pc, ctx, publishResolver, publishCancel>>

(* Mutant of WaiterEmptiesSlot: whoever is there.                          *)
WaiterEmptiesAnySlot(r) ==
    /\ waiter[r] = "closed"
    /\ waiter' = [waiter EXCEPT ![r] = "ended"]
    /\ publishResolver' = NoRequest /\ publishCancel' = NoRequest
    /\ UNCHANGED <<pc, ctx, host, topic>>

(* Mutant of WaiterEmptiesSlot: the cancel function is left in the slot.   *)
WaiterKeepsCancel(r) ==
    /\ waiter[r] = "closed"
    /\ waiter' = [waiter EXCEPT ![r] = "ended"]
    /\ publishResolver' = IF publishResolver = r THEN NoRequest ELSE publishResolver
    /\ UNCHANGED <<pc, ctx, host, topic, publishCancel>>

WaiterEmptiesSlot(r) ==
    /\ waiter[r] = "closed"
    /\ waiter' = [waiter EXCEPT ![r] = "ended"]
    /\ IF publishResolver = r
       THEN publishResolver' = NoRequest /\ publishCancel' = NoRequest
       ELSE UNCHANGED <<publishResolver, publishCancel>>
    /\ UNCHANGED <<pc, ctx, host, topic>>

-----------------------------------------------------------------------------
Init ==
    /\ pc = [r \in Request |-> "start"]
    /\ ctx = [r \in Request |-> "none"]
    /\ host = [r \in Request |-> "none"]
    /\ topic = [r \in Request |-> FALSE]
    /\ waiter = [r \in Request |-> "none"]
    /\ publishResolver = NoRequest
    /\ publishCancel = NoRequest

(* What runs on its own once a request is in: its handler, its timer and   *)
(* its goroutine.  A request itself need not be made.                      *)
Handler(r) ==
    \/ NewResolver(r) \/ NewResolverFails(r)
    \/ PublishState(r) \/ PublishStateFails(r)
    \/ Install(r) \/ StartWaiter(r)

Waiter(r) == WaiterCloses(r) \/ WaiterEmptiesSlot(r)

Next ==
    \E r \in Request : LoadIdentity(r) \/ Handler(r) \/ Expire(r) \/ Waiter(r)

Fairness ==
    \A r \in Request : WF_vars(Handler(r)) /\ WF_vars(Expire(r)) /\ WF_vars(Waiter(r))

Spec == Init /\ [][Next]_vars /\ Fairness

-----------------------------------------------------------------------------
(* Properties.                                                             *)

(* The types of the state of requests and of the slot; its two fields are  *)
(* filled and emptied together, so that whoever finds a resolver there     *)
(* finds a cancel function, and none that is left over (612-636).          *)
TypeOK ==
    /\ pc \in [Request -> {"start", "loaded", "built", "published", "installed",
                           "returned", "failed"}]
    /\ ctx \in [Request -> {"none", "live", "done"}]
    /\ host \in [Request -> {"none", "open", "closed", "leaked"}]
    /\ topic \in [Request -> BOOLEAN]
    /\ waiter \in [Request -> {"none", "waiting", "closed", "ended"}]
    /\ publishResolver \in Request \cup {NoRequest}
    /\ publishCancel \in Request \cup {NoRequest}
    /\ publishCancel = NoRequest <=> publishResolver = NoRequest

WasInstalled(r) == pc[r] \in {"installed", "returned"}

(* At most one publication is on line: an installed resolver that still    *)
(* listens, or whose timer still runs, is the one in the slot, where the   *)
(* next request will find it and end it (StartPublish 616-633).            *)
OnlyTheSlotServes ==
    \A r \in Request : WasInstalled(r) =>
        /\ host[r] = "open" => publishResolver = r
        /\ ctx[r] = "live" => publishCancel = r

(* Whoever is in the slot still has somebody to clean up after it: its     *)
(* handler about to start the goroutine, or the goroutine.                 *)
SlotHasAWaiter ==
    publishResolver # NoRequest =>
        /\ publishCancel = publishResolver
        /\ \/ pc[publishResolver] = "installed"
           \/ waiter[publishResolver] \in {"waiting", "closed"}

(* A host that listens is closed in the end and out of the slot: it        *)
(* expires, is replaced or its request fails.  (Not one that NewResolver   *)
(* leaked.)                                                                *)
EveryPublicationEnds ==
    \A r \in Request :
        host[r] = "open" ~> host[r] = "closed" /\ publishResolver # r

=============================================================================
