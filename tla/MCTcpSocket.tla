---------------------------- MODULE MCTcpSocket ----------------------------
EXTENDS TcpSocket
=============================================================================
