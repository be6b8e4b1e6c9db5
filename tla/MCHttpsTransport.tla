--------------------------- MODULE MCHttpsTransport ---------------------------
\* An instance of HttpsTransport in which the deadline falls into the third
\* attempt, into a sleep or past the last attempt, as the timers fall.
EXTENDS HttpsTransport

MCRetryDelays == <<2, 4>>
=============================================================================
