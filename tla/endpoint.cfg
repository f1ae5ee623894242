\* Two daemons on one path that stop or crash three times, one m3-wait, one message.
SPECIFICATION FairSpec
CONSTANTS
  Daemons = {d1, d2}
  Messages = {m1}
  CmdCodes = {3, 300}
  MaxEnds = 3
INVARIANTS TypeOK ListenerIsReachable NothingForgotten ExitCodesDoNotLie
PROPERTIES AlwaysServedAgain MailIsRead
