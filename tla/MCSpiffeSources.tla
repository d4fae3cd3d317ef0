-------------------------- MODULE MCSpiffeSources ---------------------------
EXTENDS SpiffeSources

\* Two sources at two sockets, with one logger option in an array of four.
MCPath == [x509 |-> "a", jwt |-> "unix://b"]
MCExtra == <<[sets |-> "logger", to |-> "l"]>>
=============================================================================
