-------------------------- MODULE MCSocketioClient --------------------------
EXTENDS SocketioClient
CONSTANTS root, chat

MCNsp == {root, chat}
=============================================================================
