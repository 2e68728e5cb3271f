---------------------------- MODULE MCAtomicFile ----------------------------
EXTENDS AtomicFile, Bitwise
MCMix(i, c) == i ^^ c
=============================================================================
