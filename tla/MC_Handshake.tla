---------------------------- MODULE MC_Handshake ----------------------------
(* Two honest validators A and B and a Byzantine node M.  c3 and c4 are   *)
(* direct connections A -> B and B -> A; c1 is A dialling what it takes   *)
(* to be B but reaching M, and c2 is M dialling B, so M can relay between *)
(* A and B.  Each honest dialler may expect its honest peer's key or M's; *)
(* each honest node runs either of two geneses.  A second Byzantine node *)
(* M2, colluding with M, dials B on c5, so that what A signs for M can be  *)
(* replayed to B by another node.  The relay run uses c1 and c5, the     *)
(* direct run c3 and c4.                                                   *)
EXTENDS Handshake, TLC

CONSTANTS A, B, M, M2, kA, kB, kM, kM2, G1, G2, c1, c2, c3, c4, c5

MCKeyOf == (A :> kA) @@ (B :> kB) @@ (M :> kM) @@ (M2 :> kM2)
MCSrc == (c1 :> A) @@ (c2 :> M) @@ (c3 :> A) @@ (c4 :> B) @@ (c5 :> M2)
MCDst == (c1 :> M) @@ (c2 :> B) @@ (c3 :> B) @@ (c4 :> A) @@ (c5 :> B)
MCPeers == (c1 :> {kB, kM}) @@ (c2 :> {kB}) @@ (c3 :> {kB, kM}) @@ (c4 :> {kA, kM}) @@ (c5 :> {kB})
====
