SPECIFICATION Spec
CONSTANTS
  Friend = {"ann"}
  Refusable = {"request"}
  FriendStatus = {"online", "offline"}
  Choices = {"dnd"}
  MaxChanges = 1
  MaxEdits = 0
  MaxPicks = 0
  MaxRests = 0
  MaxDrops = 0
  MaxEvents = 5
INVARIANTS StatusIsLive
CHECK_DEADLOCK FALSE
