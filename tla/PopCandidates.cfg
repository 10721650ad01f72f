SPECIFICATION PopSpec
CONSTANT MaxItems = 7
INVARIANT ResultIsHighShare
PROPERTY Terminates
CHECK_DEADLOCK FALSE
