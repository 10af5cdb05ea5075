------------------------------ MODULE MCLiveView ------------------------------
EXTENDS LiveView
=============================================================================
