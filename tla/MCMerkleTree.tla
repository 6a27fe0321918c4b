---------------------------- MODULE MCMerkleTree ----------------------------
EXTENDS MerkleTree

\* A small stand-in for 2^32: depth damage wraps the same way around it.
MCDepthWrap == 16

=============================================================================
