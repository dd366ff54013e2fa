SPECIFICATION ToastSpec
CONSTANTS
  MaxToasts = 4
PROPERTIES
  ErrorsStayUntilClosed
CHECK_DEADLOCK FALSE
