----------------------------- MODULE MCBackends -----------------------------
\* The instance of Backends that TLC checks: two coroutines, so that two timeouts,
\* or the halves of two chains, are in flight together; a submission queue that
\* two chains overflow.
EXTENDS Backends

CONSTANTS a, b

\* Each class of operation alone, first or second of a chain.
UringExprs == {<<"recv">>, <<"nop">>, <<"recv", "nop">>}
IocpExprs == {<<"recv">>, <<"timeout">>, <<"recv", "timeout">>, <<"timeout", "read">>,
              <<"close", "recv">>}
=============================================================================
