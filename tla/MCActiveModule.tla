--------------------------- MODULE MCActiveModule ---------------------------
\* A machine of three states with one user event: enough for a transition that
\* overwrites another, one asked for before EV_ENTRY and one on a timeout.
EXTENDS ActiveModule

MCState == {"Init", "Wait", "Config"}
MCEvents == {"TouchPress", "EffectEnd"}
MCMoves == { <<"Init", "EffectEnd", "Wait">>,
             <<"Wait", "TouchPress", "Config">>,
             <<"Config", "TIMED", "Wait">>,
             <<"Config", "EffectEnd", "Wait">> }
=============================================================================
