------------------------------ MODULE Handshake ------------------------------
(***************************************************************************)
(* The consensus handshake of                                              *)
(* node/actors/network/src/consensus/handshake/mod.rs: outbound() on the   *)
(* dialling side, inbound() on the accepting side, over a Noise stream     *)
(* whose id() is the same at both ends of one connection and different for *)
(* different connections.  Byzantine nodes are not bound to the code and  *)
(* collude: they send any handshake they can build (signatures by their   *)
(* keys, signatures any of them received, or signatures that fail         *)
(* verify()) and may drop the stream.  A connection is identified with its stream id, so a  *)
(* SessionId is a connection.  Both roles run under ctx.with_timeout(5s), *)
(* modelled as a timeout that may fire at any await.                       *)
(***************************************************************************)
EXTENDS Integers, Sequences

CONSTANTS
    Nodes,      \* honest and Byzantine nodes
    Byzantine,  \* the Byzantine ones
    KeyOf,      \* validator::SecretKey of each node (as its public key)
    Geneses,    \* genesis hashes
    Conns,      \* Noise connections (and so their stream ids)
    Src,        \* dialling node of each connection (runs outbound())
    Dst,        \* accepting node of each connection (runs inbound())
    Peers       \* Peers[c]: keys the dialler of c may expect to reach

Honest == Nodes \ Byzantine
Keys == {KeyOf[n] : n \in Nodes}
Roles == {"out", "in"}
Other(r) == IF r = "out" THEN "in" ELSE "out"
NodeAt(c, r) == IF r = "out" THEN Src[c] ELSE Dst[c]
HonestConns == {c \in Conns : Src[c] \in Honest /\ Dst[c] \in Honest}

\* validator::Signed<SessionId>: the message, the key it claims, and whether
\* its signature verifies under that key.
Signed == [msg: Conns, key: Keys, ok: BOOLEAN]
\* The Handshake message as it arrives: proto::Handshake has both fields
\* optional, and `missing` names the ones the frame lacks.
Fields == {"session_id", "genesis"}
Msg == [session_id: Signed, genesis: Geneses, missing: SUBSET Fields]

\* ProtoFmt::read: read_required fails on a missing field; recv_proto then
\* returns the error, which both roles map to Error::Stream.
ReadOk(h) == h.missing = {}

\* ProtoFmt::build: every frame a node builds has both fields set.
Build(s, g) == [session_id |-> s, genesis |-> g, missing |-> {}]

VARIABLES
    genesis,  \* genesis hash each honest node runs with
    expect,   \* `peer`: the validator key outbound() expects on a connection
    pipe,     \* pipe[c][r]: frames sent on c towards role r, not yet read
    ep,       \* ep[c][r]: program counter, result and returned peer key
    closed    \* closed[c]: roles whose end of the stream has been dropped

vars == <<genesis, expect, pipe, ep, closed>>

\* me.sign_msg(SessionId(stream.id().encode())) by node n on connection c.
Sign(n, c) == [msg |-> c, key |-> KeyOf[n], ok |-> TRUE]

MyHandshake(n, c) == Build(Sign(n, c), genesis[n])

Done(res) == [pc |-> "done", res |-> res, peer |-> "none"]

\* An endpoint returns: with an error its stream is dropped.
Finish(c, r, res) ==
    /\ ep' = [ep EXCEPT ![c][r] = [Done(res) EXCEPT !.peer = ep[c][r].peer]]
    /\ closed' = IF res = "ok" THEN closed
                 ELSE [closed EXCEPT ![c] = @ \cup {r}]

Init ==
    /\ genesis \in [Honest -> Geneses]
    /\ expect \in {f \in [Conns -> Keys] : \A c \in Conns : f[c] \in Peers[c]}
    /\ pipe = [c \in Conns |-> [r \in Roles |-> <<>>]]
    /\ ep = [c \in Conns |-> [r \in Roles |->
                [pc |-> IF NodeAt(c, r) \in Honest
                           THEN IF r = "out" THEN "send" ELSE "recv"
                           ELSE "byz",
                 res |-> "pending", peer |-> "none"]]]
    /\ closed = [c \in Conns |-> {}]

-----------------------------------------------------------------------------
(* frame::send_proto of our Handshake.  Writing to a stream the peer has  *)
(* dropped may fail (Error::Stream) or be buffered.                        *)

SendHandshake(c, r, then) ==
    LET n == NodeAt(c, r) IN
    \/ /\ pipe' = [pipe EXCEPT ![c][Other(r)] = Append(@, MyHandshake(n, c))]
       /\ ep' = then
       /\ UNCHANGED closed
    \/ /\ Other(r) \in closed[c]
       /\ Finish(c, r, "Stream")
       /\ UNCHANGED pipe

-----------------------------------------------------------------------------
(* outbound(): send, receive, then check genesis, session id, peer key and *)
(* signature, in this order.                                               *)

\* Mutant: outbound waits for the peer's frame before writing its own.
OutboundSendAfterRecv(c) ==
    /\ ep[c]["out"].pc = "send"
    /\ pipe[c]["out"] /= <<>>
    /\ SendHandshake(c, "out", [ep EXCEPT ![c]["out"].pc = "recv"])
    /\ UNCHANGED <<genesis, expect>>

OutboundSend(c) ==
    /\ ep[c]["out"].pc = "send"
    /\ SendHandshake(c, "out", [ep EXCEPT ![c]["out"].pc = "recv"])
    /\ UNCHANGED <<genesis, expect>>

\* Mutant: the `peer` comparison dropped.
OutboundCheckNoPeer(c, h) ==
    CASE h.genesis /= genesis[Src[c]]  -> "GenesisMismatch"
      [] h.session_id.msg /= c         -> "SessionIdMismatch"
      [] ~h.session_id.ok              -> "Signature"
      [] OTHER                         -> "ok"

OutboundCheck(c, h) ==
    CASE h.genesis /= genesis[Src[c]]  -> "GenesisMismatch"
      [] h.session_id.msg /= c         -> "SessionIdMismatch"
      [] h.session_id.key /= expect[c] -> "PeerMismatch"
      [] ~h.session_id.ok              -> "Signature"
      [] OTHER                         -> "ok"

OutboundRecv(c) ==
    /\ ep[c]["out"].pc = "recv"
    /\ pipe[c]["out"] /= <<>>
    /\ pipe' = [pipe EXCEPT ![c]["out"] = Tail(@)]
    /\ Finish(c, "out", IF ReadOk(Head(pipe[c]["out"]))
                           THEN OutboundCheck(c, Head(pipe[c]["out"])) ELSE "Stream")
    /\ UNCHANGED <<genesis, expect>>

-----------------------------------------------------------------------------
(* inbound(): receive, check genesis, session id and signature, then send *)
(* our Handshake and return the key the peer signed with.                 *)

\* Mutant: the session id comparison dropped.
InboundCheckNoSession(c, h) ==
    CASE h.genesis /= genesis[Dst[c]] -> "GenesisMismatch"
      [] ~h.session_id.ok             -> "Signature"
      [] OTHER                        -> "ok"

\* Mutant: the genesis comparison dropped.
InboundCheckNoGenesis(c, h) ==
    CASE h.session_id.msg /= c        -> "SessionIdMismatch"
      [] ~h.session_id.ok             -> "Signature"
      [] OTHER                        -> "ok"

InboundCheck(c, h) ==
    CASE h.genesis /= genesis[Dst[c]] -> "GenesisMismatch"
      [] h.session_id.msg /= c        -> "SessionIdMismatch"
      [] ~h.session_id.ok             -> "Signature"
      [] OTHER                        -> "ok"

InboundRecv(c) ==
    LET h == Head(pipe[c]["in"])
        res == IF ReadOk(h) THEN InboundCheck(c, h) ELSE "Stream"
    IN  /\ ep[c]["in"].pc = "recv"
        /\ pipe[c]["in"] /= <<>>
        /\ pipe' = [pipe EXCEPT ![c]["in"] = Tail(@)]
        /\ IF res = "ok"
              THEN /\ ep' = [ep EXCEPT ![c]["in"].pc = "send",
                                       ![c]["in"].peer = h.session_id.key]
                   /\ UNCHANGED closed
              ELSE Finish(c, "in", res)
        /\ UNCHANGED <<genesis, expect>>

InboundSend(c) ==
    /\ ep[c]["in"].pc = "send"
    /\ SendHandshake(c, "in", [ep EXCEPT ![c]["in"].pc = "done",
                                          ![c]["in"].res = "ok"])
    /\ UNCHANGED <<genesis, expect>>

-----------------------------------------------------------------------------
(* Failures of the stream under either role.                               *)

\* frame::recv_proto on a stream the peer dropped, with nothing left to read.
RecvEof(c, r) ==
    /\ ep[c][r].pc = "recv"
    /\ pipe[c][r] = <<>>
    /\ Other(r) \in closed[c]
    /\ Finish(c, r, "Stream")
    /\ UNCHANGED <<genesis, expect, pipe>>

\* ctx.with_timeout(TIMEOUT) expires at a send or a receive.
Timeout(c, r) ==
    /\ ep[c][r].pc \in {"send", "recv"}
    /\ Finish(c, r, "Stream")
    /\ UNCHANGED <<genesis, expect, pipe>>

-----------------------------------------------------------------------------
(* Byzantine endpoints, colluding: one adversary controls them all.  What *)
(* it can sign: any session id with any Byzantine key; what it can replay: *)
(* every Signed<SessionId> any Byzantine endpoint has received; and it can *)
(* claim any key for this session id with a signature that does not       *)
(* verify (one over another id fails the session id check before verify() *)
(* in both roles, as its own signatures do).                               *)

Received ==
    UNION {{pipe[c][r][i].session_id : i \in 1..Len(pipe[c][r])} :
              <<c, r>> \in {cr \in Conns \X Roles : NodeAt(cr[1], cr[2]) \in Byzantine}}

Forgeable(c) ==
    {Sign(m, d) : m \in Byzantine, d \in Conns}
    \cup {[msg |-> c, key |-> k, ok |-> FALSE] : k \in Keys}
    \cup Received

\* The honest side reads one frame; a Byzantine endpoint writes one while
\* that read is pending (a later frame would never be read).
ByzSend(c, r) ==
    /\ ep[c][r].pc = "byz"
    /\ r \notin closed[c]
    /\ pipe[c][Other(r)] = <<>>
    /\ ep[c][Other(r)].pc = "recv"
    /\ \/ \E s \in Forgeable(c), g \in Geneses :
             pipe' = [pipe EXCEPT ![c][Other(r)] =
                         Append(@, Build(s, g))]
       \/ \E ms \in SUBSET Fields \ {{}} :
             pipe' = [pipe EXCEPT ![c][Other(r)] =
                         Append(@, [session_id |-> Sign(NodeAt(c, r), c),
                                    genesis |-> CHOOSE g \in Geneses : TRUE,
                                    missing |-> ms])]
    /\ UNCHANGED <<genesis, expect, ep, closed>>

ByzClose(c, r) ==
    /\ ep[c][r].pc = "byz"
    /\ r \notin closed[c]
    /\ closed' = [closed EXCEPT ![c] = @ \cup {r}]
    /\ UNCHANGED <<genesis, expect, pipe, ep>>

Next ==
    \E c \in Conns :
        \/ OutboundSend(c) \/ OutboundRecv(c)
        \/ InboundRecv(c) \/ InboundSend(c)
        \/ \E r \in Roles : RecvEof(c, r) \/ Timeout(c, r)
                            \/ ByzSend(c, r) \/ ByzClose(c, r)

\* Each handshake is an async call its connection task keeps polling, and
\* Noise streams deliver what was written; the deadline is not assumed to
\* fire, so liveness below is the protocol's own, not the timeout's.
Fairness ==
    \A c \in HonestConns :
        /\ WF_vars(OutboundSend(c)) /\ WF_vars(OutboundRecv(c))
        /\ WF_vars(InboundRecv(c)) /\ WF_vars(InboundSend(c))
        /\ \A r \in Roles : WF_vars(RecvEof(c, r))

Spec == Init /\ [][Next]_vars /\ Fairness

-----------------------------------------------------------------------------
(* Properties.                                                             *)

\* Peer binding (outbound): when outbound() returns Ok, the node at the
\* other end of the stream owns the key the caller expected or, if it is
\* Byzantine, the key is one the colluding Byzantine nodes hold; an honest
\* node's key is never answered for by anyone else, whatever they relay or
\* replay.  If the other end is honest, it runs the same genesis.
ByzantineKeys == {KeyOf[m] : m \in Byzantine}

OutboundAuthenticated ==
    \A c \in Conns :
        Src[c] \in Honest /\ ep[c]["out"].res = "ok" =>
            /\ \/ KeyOf[Dst[c]] = expect[c]
               \/ Dst[c] \in Byzantine /\ expect[c] \in ByzantineKeys
            /\ Dst[c] \in Honest => genesis[Dst[c]] = genesis[Src[c]]

\* Replay resistance (inbound): the key inbound() returns belongs to the
\* node at the other end of this stream, or, if that node is Byzantine, to
\* one of the colluding Byzantine nodes: a signature an honest node made on
\* another connection is never accepted.  If the other end is honest, it
\* runs the same genesis.
InboundAuthenticated ==
    \A c \in Conns :
        Dst[c] \in Honest /\ ep[c]["in"].res = "ok" =>
            /\ \/ ep[c]["in"].peer = KeyOf[Src[c]]
               \/ Src[c] \in Byzantine /\ ep[c]["in"].peer \in ByzantineKeys
            /\ Src[c] \in Honest => genesis[Src[c]] = genesis[Dst[c]]

Finished(c) == \A r \in Roles : ep[c][r].pc = "done"
BothOk(c) == \A r \in Roles : ep[c][r].res = "ok"
StreamFailed(c) == \E r \in Roles : ep[c][r].res = "Stream"
Compatible(c) ==
    genesis[Src[c]] = genesis[Dst[c]] /\ expect[c] = KeyOf[Dst[c]]

\* Agreement between two honest nodes: the dialler accepts a connection
\* only after the acceptor has (inbound() checks, then sends, and outbound()
\* accepts only after reading that frame); and when the acceptor accepts
\* but the dialler does not, it is because the dialler expected another
\* validator or the stream failed or timed out: a genesis or signature
\* check never passes on one side and fails on the other.
HonestVerdictsAgree ==
    \A c \in HonestConns :
        /\ ep[c]["out"].res = "ok" => ep[c]["in"].res = "ok"
        /\ ep[c]["in"].res = "ok" /\ ep[c]["out"].res \notin {"pending", "ok"}
              => ep[c]["out"].res \in {"PeerMismatch", "Stream"}

\* Symmetry: between two honest nodes both handshakes terminate without the
\* deadline (outbound writes first, inbound reads first), and when the
\* geneses match and the dialler expects the acceptor's key both succeed,
\* unless a stream failed.
HonestHandshakeCompletes ==
    \A c \in HonestConns :
        /\ <>Finished(c)
        /\ Compatible(c) => <>(BothOk(c) \/ StreamFailed(c))

====
