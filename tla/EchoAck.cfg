\* Three keys over two connections, and other output.
SPECIFICATION FairEchoSpec
CONSTANTS
    MaxKeys = 3
    MaxNoise = 1
    MaxConns = 2
INVARIANT AckSane
PROPERTY PredsSettle
CHECK_DEADLOCK FALSE
