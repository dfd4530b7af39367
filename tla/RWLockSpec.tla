----------------------------- MODULE RWLockSpec -----------------------------
(***************************************************************************)
(* What a reader-writer lock promises its callers: any number of threads   *)
(* may hold it for reading, or one thread for writing, never both.         *)
(***************************************************************************)
CONSTANTS Readers,   \* threads that may call readerLock
          Writers    \* threads that may call writerLock

VARIABLES readers,   \* the threads between readerLock and readerUnlock
          writers    \* the threads between writerLock and writerUnlock

vars == <<readers, writers>>

Init == readers = {} /\ writers = {}

BeginRead(t) ==
  /\ t \notin readers
  /\ writers = {}
  /\ readers' = readers \cup {t}
  /\ UNCHANGED writers

EndRead(t) ==
  /\ t \in readers
  /\ readers' = readers \ {t}
  /\ UNCHANGED writers

BeginWrite(t) ==
  /\ readers = {} /\ writers = {}
  /\ writers' = {t}
  /\ UNCHANGED readers

EndWrite(t) ==
  /\ t \in writers
  /\ writers' = writers \ {t}
  /\ UNCHANGED readers

Next ==
  \/ \E t \in Readers : BeginRead(t) \/ EndRead(t)
  \/ \E t \in Writers : BeginWrite(t) \/ EndWrite(t)

Spec == Init /\ [][Next]_vars
=============================================================================
