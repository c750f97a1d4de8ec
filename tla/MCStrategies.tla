---------------------------- MODULE MCStrategies ----------------------------
EXTENDS Strategies

MCHops == {<<"u1", "u2">>}
=============================================================================
