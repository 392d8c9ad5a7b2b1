------------------------------- MODULE Forward -------------------------------
(***************************************************************************)
(* testonly::forward() of node/actors/network/src/testonly.rs: the loop    *)
(* that copies one stream into another through a fixed buffer, and shuts  *)
(* the write side down once the loop ends.                                 *)
(*                                                                         *)
(* The i-th byte the peer writes into the read side is the number i, so    *)
(* that a lost, repeated, reordered or stale byte is visible; the zeroes   *)
(* the buffer starts with (vec![0; 1024]) are 0.  The peer writes bytes    *)
(* and closes its side whenever it likes; every I/O call may fail.         *)
(***************************************************************************)
EXTENDS Naturals, Sequences

CONSTANTS
    BufSize,   \* length of buf (1024 in the code)
    MaxLen     \* bound on the bytes the peer writes

ASSUME BufSize \in Nat \ {0} /\ MaxLen \in Nat

VARIABLES
    sent,    \* bytes the peer has written into the read side: 1..sent
    eof,     \* the peer has closed the read side
    got,     \* bytes io::read() has consumed
    buf,     \* the buffer
    n,       \* the count the last read returned
    out,     \* what write_all() put on the write side, in order
    shut,    \* io::shutdown() of the write side succeeded
    failed,  \* an I/O call returned an error (or was cancelled)
    pc       \* "read", "write", "shutdown" or "done"

vars == <<sent, eof, got, buf, n, out, shut, failed, pc>>

Init ==
    /\ sent = 0 /\ eof = FALSE /\ got = 0
    /\ buf = [i \in 1..BufSize |-> 0]
    /\ n = 0 /\ out = <<>>
    /\ shut = FALSE /\ failed = FALSE
    /\ pc = "read"

\* The peer on the other end of the read side.
PeerWrite ==
    ~eof /\ sent < MaxLen /\ sent' = sent + 1
    /\ UNCHANGED <<eof, got, buf, n, out, shut, failed, pc>>
PeerClose ==
    ~eof /\ eof' = TRUE /\ UNCHANGED <<sent, got, buf, n, out, shut, failed, pc>>

\* Mutant: `return` at end of stream leaves forward() itself, skipping the
\* shutdown after the loop.
ReadReturnsEarly ==
    /\ pc = "read"
    /\ \/ \E k \in 1..BufSize :
            /\ k <= sent - got
            /\ buf' = [i \in 1..BufSize |-> IF i <= k THEN got + i ELSE buf[i]]
            /\ n' = k /\ got' = got + k
            /\ pc' = "write"
       \/ got = sent /\ eof /\ n' = 0 /\ pc' = "done" /\ UNCHANGED <<got, buf>>
    /\ UNCHANGED <<sent, eof, out, shut, failed>>

\* io::read(): k of the available bytes, at most the buffer's length, into
\* the front of buf; the rest of buf keeps what an earlier read left there.
\* At end of stream it returns 0 and the loop returns Ok.
Read ==
    /\ pc = "read"
    /\ \/ \E k \in 1..BufSize :
            /\ k <= sent - got
            /\ buf' = [i \in 1..BufSize |-> IF i <= k THEN got + i ELSE buf[i]]
            /\ n' = k /\ got' = got + k
            /\ pc' = "write"
       \/ got = sent /\ eof /\ n' = 0 /\ pc' = "shutdown" /\ UNCHANGED <<got, buf>>
    /\ UNCHANGED <<sent, eof, out, shut, failed>>

\* Mutant: write_all(&buf) instead of write_all(&buf[..n]).
WriteWholeBuffer ==
    /\ pc = "write"
    /\ out' = out \o buf
    /\ pc' = "read"
    /\ UNCHANGED <<sent, eof, got, buf, n, shut, failed>>

\* write_all(&buf[..n]) then flush().
Write ==
    /\ pc = "write"
    /\ out' = out \o [i \in 1..n |-> buf[i]]
    /\ pc' = "read"
    /\ UNCHANGED <<sent, eof, got, buf, n, shut, failed>>

\* The read, write_all or flush fails or the context is cancelled; the ??
\* leaves the loop.  write_all may have written part of the slice.
IoError ==
    /\ pc \in {"read", "write"}
    /\ \E k \in 0..n :
            out' = IF pc = "write" THEN out \o [i \in 1..k |-> buf[i]] ELSE out
    /\ failed' = TRUE /\ pc' = "shutdown"
    /\ UNCHANGED <<sent, eof, got, buf, n, shut>>

\* io::shutdown(), its result ignored.
Shutdown ==
    /\ pc = "shutdown"
    /\ \/ shut' = TRUE /\ UNCHANGED failed
       \/ failed' = TRUE /\ UNCHANGED shut
    /\ pc' = "done"
    /\ UNCHANGED <<sent, eof, got, buf, n, out>>

Next == PeerWrite \/ PeerClose \/ Read \/ Write \/ IoError \/ Shutdown

\* The forwarding task is polled while it can make progress; the peer and
\* the failures are not assumed to happen.
Spec == Init /\ [][Next]_vars /\ WF_vars(Read \/ Write \/ Shutdown)

-----------------------------------------------------------------------------
\* Every variable has its type; in particular the write side carries only
\* bytes of the stream, never the zero filler buf starts with.
TypeOK ==
    /\ sent \in 0..MaxLen /\ eof \in BOOLEAN /\ got \in 0..sent
    /\ buf \in [1..BufSize -> 0..MaxLen] /\ n \in 0..BufSize
    /\ out \in Seq(1..MaxLen)
    /\ shut \in BOOLEAN /\ failed \in BOOLEAN
    /\ pc \in {"read", "write", "shutdown", "done"}

\* The write side only ever carries bytes 1, 2, 3, ... of the read side, in
\* order, each once, and none that has not been read: no stale buffer
\* contents, no zero filler, whatever the chunking and failures.
CopyIsPrefix ==
    /\ Len(out) <= got
    /\ \A i \in 1..Len(out) : out[i] = i

\* Once the peer closes the read side, forward() finishes, and unless some
\* I/O call failed the write side holds the whole stream and has been shut
\* down (the code's comment: io::split keeps the stream alive, so it must
\* be shut down by hand).
EofForwarded ==
    eof ~> (pc = "done" /\ (failed \/ (Len(out) = sent /\ shut)))
==============================================================================
