----------------------------- MODULE MCSocketIO -----------------------------
\* Session ids sort before namespace names here; the two are never compared.
EXTENDS SocketIO

MCSid2 == 1..2
MCSid3 == 1..3
MCRootOnly == {10}
MCNsp2 == {10, 11}
MCRoot == 10
MCUnknown == 12
MCRoom == {"lobby"}
MCRooms == {"lobby", "den"}
=============================================================================
