--------------------------- MODULE StateExchange ---------------------------
(***************************************************************************)
(* What the exchange of states promises, without resolvers, streams or     *)
(* topics: whoever knows a state of an identity knows one its owner        *)
(* published, and a question about an identity is answered with a state of *)
(* that identity.  Nothing is promised about its age.                      *)
(***************************************************************************)
EXTENDS Integers

CONSTANTS
    Node,         \* whoever holds or asks for states
    Identity,     \* the identities
    MaxVersion    \* bound on the changes of an identity

VARIABLES
    current,      \* the version the owner's file holds
    published,    \* <<identity, version>> of every state published so far
    known,        \* the version of each identity a node holds, 0 for none
    told          \* the answer to a node's last question, 0 for none

vars == <<current, published, known, told>>

Version == 1..MaxVersion

Init ==
    /\ current = [i \in Identity |-> 1]
    /\ published = {}
    /\ known = [n \in Node |-> [i \in Identity |-> 0]]
    /\ told = [n \in Node |-> [i \in Identity |-> 0]]

Change(i) ==
    /\ current[i] < MaxVersion
    /\ current' = [current EXCEPT ![i] = @ + 1]
    /\ UNCHANGED <<published, known, told>>

(* The owner publishes what its file held at some time.                    *)
Publish(n, i) ==
    \E v \in 1..current[i] :
        /\ published' = published \cup {<<i, v>>}
        /\ known' = [known EXCEPT ![n][i] = v]
        /\ UNCHANGED <<current, told>>

Hear(n, i) ==
    \E v \in Version :
        /\ <<i, v>> \in published
        /\ known' = [known EXCEPT ![n][i] = v]
        /\ UNCHANGED <<current, published, told>>

(* A new question drops the answer to the last one.                        *)
Ask(n) ==
    /\ told' = [told EXCEPT ![n] = [i \in Identity |-> 0]]
    /\ UNCHANGED <<current, published, known>>

Learn(n, i) ==
    \E v \in Version :
        /\ <<i, v>> \in published
        /\ known' = [known EXCEPT ![n][i] = v]
        /\ told' = [told EXCEPT ![n] = [j \in Identity |-> IF j = i THEN v ELSE 0]]
        /\ UNCHANGED <<current, published>>

Next ==
    \/ \E i \in Identity : Change(i)
    \/ \E n \in Node : Ask(n) \/ \E i \in Identity : Publish(n, i) \/ Hear(n, i) \/ Learn(n, i)

Spec == Init /\ [][Next]_vars

=============================================================================
