\* A two-byte buffer (1024 in the code) against a peer writing up to four
\* bytes: reads of one and of two bytes, a short read after a long one
\* (stale bytes left in buf), and end of stream in any position.
CONSTANTS
    BufSize = 2
    MaxLen = 4
SPECIFICATION Spec
\* forward() returns once the loop ends and the write side is shut down.
CHECK_DEADLOCK FALSE
INVARIANTS
    
    CopyIsPrefix
PROPERTIES
    EofForwarded
