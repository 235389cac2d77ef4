SPECIFICATION Spec
CONSTANTS
  Friend = {"ann"}
  Refusable = {"request"}
  FriendStatus = {"online", "offline"}
  Choices = {"dnd"}
  MaxChanges = 2
  MaxEdits = 2
  MaxPicks = 1
  MaxRests = 1
  MaxDrops = 1
  MaxEvents = 5
INVARIANTS TypeOK PickStays OwnStatusArrives ChangesAreShown ListedAreKnown
CHECK_DEADLOCK FALSE
