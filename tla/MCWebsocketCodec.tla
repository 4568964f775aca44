-------------------------- MODULE MCWebsocketCodec --------------------------
EXTENDS WebsocketCodec

\* No body and a short one, a short and a long length field.
MCBodies == {0, 2}
MCShortBody == {1}
MCLengthBytes == {0, 2}
MCShortLength == {0}
=============================================================================
