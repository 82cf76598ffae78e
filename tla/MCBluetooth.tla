---------------------------- MODULE MCBluetooth ----------------------------
EXTENDS Bluetooth

\* Requests that the programs cannot serve end them at any point of their
\* protocols, but never put commands out of order, nor make gatt notify a peer
\* that has not subscribed (att_write and its callers).
SafeWithAnyPeer == CommandsInOrder /\ GattFollowsConnection
=============================================================================
