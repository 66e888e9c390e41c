----------------------- MODULE MCConversationStorage -----------------------
(* An instance of ConversationStorage: a server on memory, one that has the *)
(* file to itself, and two that share it.                                   *)
EXTENDS ConversationStorage

CONSTANTS t1, t2, p1, p2, chat, debug

MCDeployments ==
    {[setting |-> "memory", processes |-> {}, threads |-> {t1, t2}],
     [setting |-> "redis", processes |-> {}, threads |-> {t1}],
     [setting |-> "sqlite", processes |-> {p1}, threads |-> {t1, t2}],
     [setting |-> "sqlite", processes |-> {p1, p2}, threads |-> {t1}]}

MCThreads == {t1, t2}
MCProcesses == {p1, p2}
MCTools == {chat, debug}
=============================================================================
