----------------------------- MODULE MCService -----------------------------
EXTENDS Service

MCListeners == <<"https", "http", "internal">>
=============================================================================
