------------------------------- MODULE MCMail --------------------------------
(***************************************************************************)
(* An instance of Mail for TLC: the life of one mailbox, some of its       *)
(* commands under two keys.                                                *)
(***************************************************************************)
EXTENDS Mail

CONSTANTS a, b, p1, p2, weak

Command(kind, local, password, quota, aliases) ==
    [kind |-> kind, local |-> local, password |-> password, quota |-> quota,
     aliases |-> aliases, key |-> 1]

Again(command) == [command EXCEPT !.key = 2]

MailboxCommands ==
    {Command("createDomain", a, None, 0, {}),
     Command("deleteDomain", a, None, 0, {}),
     Command("createMailbox", a, p1, 1, {}),
     Command("setPassword", a, p2, 0, {}),
     Command("setPassword", a, weak, 0, {}),
     Command("setQuota", a, None, 2, {}),
     Command("deleteMailbox", a, None, 0, {}),
     Again(Command("createMailbox", a, p1, 1, {})),
     Command("setAliases", a, None, 0, {b})}
=============================================================================
