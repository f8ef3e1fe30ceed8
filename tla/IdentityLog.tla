---------------------------- MODULE IdentityLog ----------------------------
(***************************************************************************)
(* What the identity file promises its user, with no files in it: a chain  *)
(* that a change extends by one event, that creating an identity starts    *)
(* afresh, and that a restored backup puts back as it was when exported.   *)
(* README.md and the concept document call the chain append-only.  A write *)
(* that fails or is interrupted may cost the chain, all of it at once; it  *)
(* never leaves part of it.                                                *)
(***************************************************************************)
EXTENDS Integers, Sequences

CONSTANTS
    Event,
    MaxLosses    \* how many writes may fail

VARIABLES
    chain,    \* the identity's event chain; <<>>: there is no identity
    saved,    \* the chain in the last exported backup; <<>>: none
    losses    \* how many writes have failed

logVars == <<chain, saved, losses>>

Init == chain = <<>> /\ saved = <<>> /\ losses = 0

Change ==
    /\ chain # <<>>
    /\ \E e \in Event : chain' = Append(chain, e)
    /\ UNCHANGED <<saved, losses>>

Create == (\E e \in Event : chain' = <<e>>) /\ UNCHANGED <<saved, losses>>

(* After a failed write there may be nothing left to export.               *)
Export ==
    /\ chain # <<>> \/ losses > 0
    /\ saved' = chain
    /\ UNCHANGED <<chain, losses>>

Restore == saved # <<>> /\ chain' = saved /\ UNCHANGED <<saved, losses>>

Lose ==
    /\ losses < MaxLosses
    /\ losses' = losses + 1
    /\ chain' \in {chain, <<>>}
    /\ UNCHANGED saved

Next == Change \/ Create \/ Export \/ Restore \/ Lose

Spec == Init /\ [][Next]_logVars

=============================================================================
