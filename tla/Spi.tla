-------------------------------- MODULE Spi ---------------------------------
(***************************************************************************)
(* SPI handles (src/src/spi.c): a handle keeps a copy of the settings of   *)
(* the device file it has open, and the setters change both.  The copy is  *)
(* written before the ioctls and is not taken back when one fails; the     *)
(* second, reading ioctl may fail when the first has done its work.        *)
(*                                                                         *)
(* The word size travels with every transfer from the handle               *)
(* (spi_transmit()), the mode and the bit order only by ioctl.  Speed,     *)
(* delay and CS-change are settings like the word size and are left out.   *)
(***************************************************************************)
EXTENDS Naturals

CONSTANTS Handles,  \* spi_hndl_t objects of the application
          Fds,      \* file descriptor numbers
          NoFd,     \* -1
          Modes,    \* SPI modes the application asks for
          Words     \* word sizes the application asks for

ASSUME NoFdAssumption == NoFd \notin Fds

VARIABLES hndl,     \* the handles
          files,    \* the open files behind the descriptors
          doubtful  \* history: handles a setter has failed on since spi_init()

spiVars == <<hndl, files, doubtful>>

\* spi_hndl_t; a freed handle keeps its settings
Handle == [fd : Fds \cup {NoFd}, mode : Modes \cup {0}, lsb : BOOLEAN, bits : Words \cup {0}]

\* the settings the kernel keeps for an open file
File == [open : BOOLEAN, mode : Modes \cup {0}, lsb : BOOLEAN, bits : Words \cup {0}]

ClosedFile == [open |-> FALSE, mode |-> 0, lsb |-> FALSE, bits |-> 0]

\* a handle no spi_init() was called for
NewHandle == [fd |-> NoFd, mode |-> 0, lsb |-> FALSE, bits |-> 0]

SpiTypeOK ==
  /\ hndl \in [Handles -> Handle]
  /\ files \in [Fds -> File]
  /\ doubtful \subseteq Handles

SpiInit ==
  /\ hndl = [h \in Handles |-> NewHandle]
  /\ files = [f \in Fds |-> ClosedFile]
  /\ doubtful = {}

-----------------------------------------------------------------------------
(* What a setter leaves: the handle p, the file f, and its result.  A      *)
(* setter after a failed one is not called (EXEC_RG).                      *)

\* spi_set_mode(), spi_set_lsb(): write the setting, then read it back
Set(o, field, v) ==
  LET p == [o.p EXCEPT ![field] = v]
      g == [o.f EXCEPT ![field] = v]
  IN  {[p |-> p, f |-> g, ok |-> TRUE]}
      \cup [p : {p}, f : {o.f, g}, ok : {FALSE}]

\* spi_set_bits_per_word(): with_ioctl may be off
SetWord(o, v, withIoctl) ==
  IF withIoctl THEN Set(o, "bits", v)
  ELSE {[p |-> [o.p EXCEPT !.bits = v], f |-> o.f, ok |-> TRUE]}

\* EXEC_RG: go on after success only
IfOk(O, K(_)) == UNION {IF o.ok THEN K(o) ELSE {o} : o \in O}

\* mutant: a failed setter does not stop spi_init()
ConfigureBlind(fd, g, mode, lsb, bits) ==
  LET opened == [p |-> [NewHandle EXCEPT !.fd = fd], f |-> g, ok |-> TRUE]
  IN  UNION {SetWord(b, bits, TRUE) : b \in UNION {Set(a, "lsb", lsb) : a \in Set(opened, "mode", mode)}}

\* spi_init() on the descriptor fd that open() returned, the file being set
\* as whoever used the device before left it
Configure(fd, g, mode, lsb, bits) ==
  LET opened == [p |-> [NewHandle EXCEPT !.fd = fd], f |-> g, ok |-> TRUE]
  IN  IfOk(Set(opened, "mode", mode), LAMBDA a :
      IfOk(Set(a, "lsb", lsb),        LAMBDA b : SetWord(b, bits, TRUE)))

-----------------------------------------------------------------------------
\* spi_free(): close the file, if open, and forget it
Freed(p) == [p EXCEPT !.fd = NoFd]
Close(fd) == IF fd = NoFd THEN files ELSE [files EXCEPT ![fd] = ClosedFile]

\* spi_init(); a handle in use is freed first by the application
spi_init(h, mode, lsb, bits) ==
  /\ hndl[h].fd = NoFd
  /\ doubtful' = doubtful \ {h}
  /\ \/ \E fd \in Fds, g \in File :
          /\ ~files[fd].open
          /\ g.open
          /\ \E o \in Configure(fd, g, mode, lsb, bits) :
               /\ hndl' = [hndl EXCEPT ![h] = IF o.ok THEN o.p ELSE Freed(o.p)]
               /\ files' = [files EXCEPT ![fd] = IF o.ok THEN o.f ELSE ClosedFile]
     \/ /\ hndl' = [hndl EXCEPT ![h] = NewHandle]     \* open() fails
        /\ UNCHANGED files

spi_free(h) ==
  /\ hndl' = [hndl EXCEPT ![h] = Freed(hndl[h])]
  /\ files' = Close(hndl[h].fd)
  /\ UNCHANGED doubtful

\* a setter called by the application on an open handle
Setter(h, O) ==
  \E o \in O :
    /\ hndl' = [hndl EXCEPT ![h] = o.p]
    /\ files' = [files EXCEPT ![hndl[h].fd] = o.f]
    /\ doubtful' = IF o.ok THEN doubtful ELSE doubtful \cup {h}

Opened(h) == [p |-> hndl[h], f |-> files[hndl[h].fd], ok |-> TRUE]

spi_set_mode(h, v) == hndl[h].fd # NoFd /\ Setter(h, Set(Opened(h), "mode", v))
spi_set_lsb(h, v)  == hndl[h].fd # NoFd /\ Setter(h, Set(Opened(h), "lsb", v))
spi_set_bits_per_word(h, v, withIoctl) ==
  hndl[h].fd # NoFd /\ Setter(h, SetWord(Opened(h), v, withIoctl))

\* spi_transmit() on a descriptor can succeed only when a file is open there
Transmits(fd) == fd # NoFd /\ files[fd].open
=============================================================================
