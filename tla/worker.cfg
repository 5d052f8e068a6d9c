SPECIFICATION WorkerSpec
CONSTANTS
  e1 = e1
  e2 = e2
  e3 = e3
  Events <- Three
  Half = 5
  Lazy = 2
  MaxTimeout = 2
  Timeouts <- FromOne
  MaxLate = 1
  MaxBack = 1
  MaxNow = 11
  ls = ls
  c1 = c1
  c2 = c2
  Listening = ls
  Clients <- MCClients
  Methods = {"select", "poll", "devpoll", "kqueue"}
  MaxChanges = 2
  Slots = 3
  MaxSec = 3
  MaxTaken = 4
  MaxSetBack = 1
  Files <- MCFiles
  Sizes = {2, 3, 6}
  Commands <- MCCommands
INVARIANTS OrderIsTimely WaitsUntilFirst EventsAreWatched TimesAreWhole WordsAreWhole
PROPERTIES NeverEarly ServiceEnds
CHECK_DEADLOCK FALSE
