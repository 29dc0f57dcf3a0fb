SPECIFICATION Spec
CONSTANTS
  Threads = {t1, t2}
  None = None
  MaxClicks = 3
  MaxOpen = 2
  MaxMail = 1
INVARIANTS
  TypeOK
  RepliesStayHome
  MailedTwiceUnknowingly
PROPERTIES
  PollKeepsReply
