--------------------------- MODULE ReadersWriters ---------------------------
(***************************************************************************)
(* What a lock for readers and writers promises: any number of readers, or *)
(* a single writer, and each leaves only what it has entered.  Rwlock      *)
(* implements this module.                                                 *)
(***************************************************************************)

CONSTANT Procs   (* the processes that share the lock *)

VARIABLES
  readers,   (* the processes that hold the lock for reading *)
  writers    (* the processes that hold it for writing *)

rwvars == << readers, writers >>

RWInit ==
  /\ readers = {}
  /\ writers = {}

BeginRead(p) ==
  /\ p \notin readers
  /\ writers = {}
  /\ readers' = readers \cup {p}
  /\ UNCHANGED writers

EndRead(p) ==
  /\ p \in readers
  /\ readers' = readers \ {p}
  /\ UNCHANGED writers

BeginWrite(p) ==
  /\ readers = {}
  /\ writers = {}
  /\ writers' = {p}
  /\ UNCHANGED readers

EndWrite(p) ==
  /\ writers = {p}
  /\ writers' = {}
  /\ UNCHANGED readers

RWNext ==
  \E p \in Procs :
    \/ BeginRead(p)
    \/ EndRead(p)
    \/ BeginWrite(p)
    \/ EndWrite(p)

RWSpec == RWInit /\ [][RWNext]_rwvars
=============================================================================
