-------------------------- MODULE MCExtractionWorker --------------------------
EXTENDS ExtractionWorker

CONSTANTS k1, k2, w1, w2

MCKeys    == {k1, k2}
MCWorkers == {w1, w2}

\* VerifyFails and a fault in Extract do to a paper what is always done to the
\* other two forms.
MCSources ==
    {[key |-> k1, form |-> "paper"], [key |-> k1, form |-> "invalid"],
     [key |-> k2, form |-> "text"]}
=============================================================================
