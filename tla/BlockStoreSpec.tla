--------------------------- MODULE BlockStoreSpec ---------------------------
(***************************************************************************)
(* What the BlockStore promises its callers, without queue, runner or      *)
(* locks: a chain of verified, parent-linked blocks from first_block that  *)
(* only grows; a durable prefix of it; and an acknowledged prefix (what    *)
(* wait_until_persisted() reports) that never runs ahead of the durable    *)
(* one.  A crash forgets exactly the non-durable suffix.                   *)
(***************************************************************************)
EXTENDS Integers, Sequences, SequencesExt

CONSTANTS First, Blocks, None

VARIABLES
    chain,    \* accepted blocks, in number order
    durable,  \* length of the prefix the persistent store holds
    acked     \* length of the prefix reported as persisted

vars == <<chain, durable, acked>>

LinksTo(b, prev) ==
    b.parent /= None /\ <<b.number - 1, b.parent>> = <<prev.number, prev.id>>

Init == chain = <<>> /\ durable = 0 /\ acked = 0

\* A verified block extending the chain at the next number.
Accept(b) ==
    /\ b.valid
    /\ b.number = First + Len(chain)
    /\ chain /= <<>> => LinksTo(b, Last(chain))
    /\ chain' = Append(chain, b)
    /\ UNCHANGED <<durable, acked>>

Persist ==
    /\ durable < Len(chain)
    /\ durable' = durable + 1
    /\ UNCHANGED <<chain, acked>>

Ack ==
    /\ acked < durable
    /\ acked' = acked + 1
    /\ UNCHANGED <<chain, durable>>

Crash ==
    /\ chain' = SubSeq(chain, 1, durable)
    /\ acked' = durable
    /\ UNCHANGED durable

Next == (\E b \in Blocks : Accept(b)) \/ Persist \/ Ack \/ Crash

Spec == Init /\ [][Next]_vars

====
