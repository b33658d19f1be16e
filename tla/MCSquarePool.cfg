SPECIFICATION Spec
CONSTANTS
  Sizes <- SmallSizes
  Side = 2
  number_of_task = 3
  number_of_processes = 3
INVARIANTS TypeOK WholeSquares
PROPERTIES TasksAreTakenOnce PictureIsShown
CHECK_DEADLOCK FALSE
