---------------------------- MODULE MCThreadPool ----------------------------
(* Constants of the ThreadPool runs. *)
EXTENDS ThreadPool

\* No call of set_threads: the limits are those of init_session.
FixedLimits == {}

\* Calls that raise and lower both limits, one of them to a minimum of zero.
VariedLimits == {<<1, 2>>, <<2, 2>>, <<0, 1>>}

=============================================================================
