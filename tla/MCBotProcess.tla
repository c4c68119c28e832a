---------------------------- MODULE MCBotProcess ----------------------------
EXTENDS BotProcess

CONSTANTS t1, b1, x1, l1

MCMessages == <<"command", "command">>
MCNoMessages == <<>>
=============================================================================
