----------------------------- MODULE PairRecords -----------------------------
(***************************************************************************)
(* The pair records: one file per phone in the config directory, and the   *)
(* table of the wifi addresses they contain (gKnownMacAddrs), which is     *)
(* filled from all files again after every change. Only the filling holds  *)
(* the lock: files are written without it and the table is read without.   *)
(***************************************************************************)
EXTENDS FiniteSets

CONSTANTS Phones, Threads

Nobody == "nobody"
ASSUME RecordsAssumption == Nobody \notin Phones \cup Threads

VARIABLES
  file,     \* each phone's record: "none", "torn" (open for writing), "whole"
  cache,    \* phones whose address is in gKnownMacAddrs
  holder,   \* who has gKnownMacAddrsLck
  todo      \* files it has not read yet

records == <<file, cache, holder, todo>>

RecordsInit ==
  /\ file \in [Phones -> {"none", "whole"}]
  /\ cache = {} /\ holder = Nobody /\ todo = {}

\* writePlistToFile: the file is emptied when it is opened,
Truncate(p) ==
  /\ file' = [file EXCEPT ![p] = "torn"]
  /\ UNCHANGED <<cache, holder, todo>>

\* and has its contents when it is closed; nobody sees those of a file that was
\* removed in between.
WriteOut(p, unlinked) ==
  /\ file' = IF unlinked THEN file ELSE [file EXCEPT ![p] = "whole"]
  /\ UNCHANGED <<cache, holder, todo>>

\* sysconf_remove_device_record: remove(), which fails without a file.
Unlink(p) ==
  /\ file[p] # "none"
  /\ file' = [file EXCEPT ![p] = "none"]
  /\ UNCHANGED <<cache, holder, todo>>

\* Mutant: without the lock.
LoadBeginUnlocked(t) ==
  /\ holder' = t /\ cache' = {} /\ todo' = Phones
  /\ UNCHANGED file

\* Mutant: the table is added to.
LoadBeginKeeps(t) ==
  /\ holder = Nobody
  /\ holder' = t /\ cache' = cache /\ todo' = Phones
  /\ UNCHANGED file

\* sysconf_load_known_macaddrs: the lock, and clear();
LoadBegin(t) ==
  /\ holder = Nobody
  /\ holder' = t /\ cache' = {} /\ todo' = Phones
  /\ UNCHANGED file

\* a file is read, in the directory's order; errors are ignored;
LoadFile(p) ==
  /\ cache' = IF file[p] = "whole" THEN cache \cup {p} ELSE cache
  /\ todo' = todo \ {p}

Load(t) ==
  /\ holder = t
  /\ \E p \in todo : LoadFile(p)
  /\ UNCHANGED <<file, holder>>

\* the end.
LoadEnd(t) ==
  /\ holder = t /\ todo = {}
  /\ holder' = Nobody
  /\ UNCHANGED <<file, cache, todo>>

RecordsTypeOK ==
  /\ file \in [Phones -> {"none", "torn", "whole"}]
  /\ cache \subseteq Phones /\ todo \subseteq Phones
  /\ holder \in Threads \cup {Nobody}
=============================================================================
