-------------------------- MODULE MCPushChannels --------------------------
EXTENDS PushChannels
=============================================================================
