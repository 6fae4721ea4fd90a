------------------------------ MODULE MCEpollIo ------------------------------
\* The instances of EpollIo that TLC checks.
EXTENDS EpollIo

CONSTANTS a, b,   (* coroutines            *)
          w          (* a thread of the pool  *)
=============================================================================
