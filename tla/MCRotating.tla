----------------------------- MODULE MCRotating -----------------------------
EXTENDS Rotating

\* No request names a short-term key, so that only the long-term key's
\* SharedSecret is called.
MCNoShortTermClaims == {}

=============================================================================
