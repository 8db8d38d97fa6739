----------------------------- MODULE MCStreams -----------------------------
EXTENDS Streams

CONSTANTS NoFormat

\* Proxies: off with URLs set, on without any, on with one and with both.
\* Numbers: missing, no number, negative, zero, and in range.
MCEnvironments ==
  [format : {"leef", NoFormat}, interval : {Unset, -1, 0}, retries : {NoNumber, 0, 2},
   useProxy : BOOLEAN, urls : {{}, {"https"}, Schemes}]
=============================================================================
