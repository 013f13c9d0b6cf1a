SPECIFICATION Spec
CONSTANTS
  Slots = {p1, p2, p3, p4}
  MaxQueued = 3
INVARIANT ZombieNoticed
PROPERTIES DiesOnlyWhenFull SlotsComeBack RequestsTaken
CHECK_DEADLOCK FALSE
