SPECIFICATION MCLiveFair
PROPERTIES Answered Released
CHECK_DEADLOCK FALSE
