-------------------------- MODULE MCSamplingControl --------------------------
EXTENDS HugeControl
=============================================================================
