------------------------------ MODULE MCAccess ------------------------------
EXTENDS Access, TLC

CONSTANTS c1, c2, w1, w2

MCSeeded == {"COMMUNITY_ADMIN", "GUARD"}
MCKinds == {"FAMILY_MEMBER"}

MCSymmetry == Permutations({c1, c2}) \cup Permutations({w1, w2})

\* Bound: codes are in play only before the person signs in anywhere, with one
\* role at most and no password.
CodesInPlay == recent # <<>> \/ \E k \in Codes : code[k] # Unsent

MCBound ==
  CodesInPlay =>
    /\ \A t \in Clients : client[t] = SignedOut
    /\ cache = NoContext
    /\ user \notin {"admin", "platform"}
    /\ Cardinality({p \in Communities \X SystemRole : p[2] \in roles[p[1]]}) <= 1
    /\ \A w \in Workers : req[w].op \notin {"clear", "flag", "drop"}
=============================================================================
