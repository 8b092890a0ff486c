-------------------------------- MODULE MCRing --------------------------------
(* TLC instance of the ring: three bytes of storage, so that every call      *)
(* length from empty to one too many occurs at every pair of indices.        *)
EXTENDS ByteCircularBufferCalls
===============================================================================
