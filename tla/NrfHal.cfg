SPECIFICATION Spec
CONSTANTS
  Handles = {"h1"}
  Fds = {3}
  NoFd = 0
  Modes = {0, 3}
  Words = {8, 16}
  Pipes = {0, 2}
  Addrs = {"a1"}
  Channels = {2, 127}
  Delays = {250, 2000, 4000}
  Retries = {0, 15}
  PlWidths = {32}
  FifoSize = 2
  Bytes = {0, 3, 4, 31, 254}
  Groups = {"spi", "config", "feature", "rf", "air", "pipes", "addr", "rxpipe", "tx", "data"}
INVARIANTS TypeOK ErrorsTold AsAsked
PROPERTIES OthersKept AddressesKept NothingLost AcceptedRight
\* after an overrun of a buffer nothing is known, and the model ends
CHECK_DEADLOCK FALSE
