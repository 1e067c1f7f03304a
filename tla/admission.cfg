\* Two processes admit, import and rebuild; one of them may die.
SPECIFICATION Spec
CONSTANTS
  Processes = {p1, p2}
  None = None
  Tasks <- MCTasks
  Goals = {"g"}
  Keys = {"k"}
  Requests <- MCRequests
  Sources <- MCSources
  Operations = {"ready"}
  MaxEvents = 2
  MaxRebuilds = 2
  MaxDeaths = 1
INVARIANTS TypeOK UniqueGoals
PROPERTY PublishedIsRecent
SYMMETRY Symmetry
