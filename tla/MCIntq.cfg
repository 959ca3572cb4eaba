SPECIFICATION IntqFairSpec
CONSTANTS
  a = a
  b = b
  c = c
  NULL = NULL
  Thread <- MCThread
  Byte <- MCByte
  INTQ_BUFSIZE = 4
INVARIANTS NobodySleepsInVain WriterNeverPanics
PROPERTIES ImplementsByteQueue WriterWoken
CHECK_DEADLOCK FALSE
