------------------------------ MODULE MCRatchet ------------------------------
EXTENDS Ratchet

\* Every public key the chain can reach within the clock bound, so that
\* callers present current, previous, expired and future keys.
MCClaims == {Pub(i) : i \in 0..((MaxT - StartTime0) \div RatchetTime + 1)}

=============================================================================
