\* Spec section 5: a producer error reaches the consumer as a read error.
CONSTANTS
    NativePolls = 2
    Chunks = 3
SPECIFICATION Spec
INVARIANT NoTruncatedSnapshot
