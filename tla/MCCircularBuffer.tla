-------------------------- MODULE MCCircularBuffer --------------------------
EXTENDS CircularBufferSpec

CONSTANTS Pointers, MaxSize

MCEntries == [buffptr : Pointers, size : 0 .. MaxSize]

=============================================================================
