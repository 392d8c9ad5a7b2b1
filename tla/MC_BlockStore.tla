--------------------------- MODULE MC_BlockStore ---------------------------
(* Model-checking instance of BlockStore: genesis.fork.first_block = 1,   *)
(* block numbers 0..3 (0 lies below first).  At each number there are two *)
(* competing valid blocks a and b naming parent a, a valid block naming   *)
(* parent b (the right parent after b, the wrong one after a), and a      *)
(* block verify() rejects.                                                 *)
EXTENDS BlockStore

CONSTANTS a, b

MCFirst == 1
MCNumbers == 0..3
Blk(n, id, parent, valid) ==
    [number |-> n, id |-> id, parent |-> parent, valid |-> valid]

MCBlocks ==
    {Blk(0, a, None, TRUE)} \cup
    UNION {{Blk(n, a, a, TRUE), Blk(n, b, a, TRUE),
            Blk(n, a, b, TRUE), Blk(n, b, a, FALSE)} : n \in 1..3}

====
