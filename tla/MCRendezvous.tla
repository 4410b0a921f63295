---------------------------- MODULE MCRendezvous ----------------------------
EXTENDS Rendezvous, TLC

CONSTANTS i1, i2, i3, k1, k2

MCIds2 == {i1, i2}
MCIds3 == {i1, i2, i3}
MCCodes1 == {k1}
MCCodes2 == {k1, k2}
=============================================================================
