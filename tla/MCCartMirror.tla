---------------------------- MODULE MCCartMirror ----------------------------
EXTENDS CartMirror
==============================================================================
