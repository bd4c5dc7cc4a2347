SPECIFICATION Spec
CONSTANTS
  c1 = c1  c2 = c2  r1 = r1  r2 = r2
  Channels = {c1}
  Reports = {r1}
  Home <- HomeOf
  MaxLogins = 2
  MaxClicks = 6
  NoChannel = NoChannel  NoReport = NoReport
CHECK_DEADLOCK FALSE
INVARIANTS TypeOK ScreenMatchesSession ChangesAreByAdmins ConversationIsOwn
