--------------------------- MODULE MappingDatabase --------------------------
(***************************************************************************)
(* The gamepad mapping database (gamepad_mapping_database_v1.c): profiles  *)
(* in memory, a generation, and a storage behind two callbacks that are    *)
(* called without the lock.  The storage commits a candidate if its        *)
(* generation is the one expected, and may lose its answer.                *)
(***************************************************************************)
EXTENDS Naturals, Sequences

CONSTANTS
  DbThreads,      \* callers
  Devices,        \* keys: vendor and product
  Profiles,       \* what is stored for a key
  MaxRecords,     \* RIN_USB_HID_GAMEPAD_MAPPING_DATABASE_MAX_RECORDS
  MaxDbGen        \* bound: storage generations

ASSUME MaxRecordsAssumption == MaxRecords \in Nat

VARIABLES
  db,             \* RinUsbHidGamepadMappingDatabaseV1
  storage,        \* what the storage holds
  dbCalls,        \* per caller: the callback under way and its candidate
  accepted        \* history: the records of the last set or remove that was OK

dbVars == <<db, storage, dbCalls, accepted>>

DbNoCall == [op |-> "none", candidate |-> <<>>]

\* init: what the storage holds is loaded.
DbInit ==
  /\ storage = [records |-> <<>>, generation |-> 1]
  /\ db = [records |-> <<>>, generation |-> 1, recovery |-> FALSE, callback |-> FALSE]
  /\ dbCalls = [t \in DbThreads |-> DbNoCall]
  /\ accepted = <<>>

Keys(records) == {records[i].key : i \in DOMAIN records}

\* db_records_valid: the records fit and no two are of one device.
RecordsValid(records) ==
  /\ Len(records) <= MaxRecords
  /\ \A i, j \in DOMAIN records : i # j => records[i].key # records[j].key

\* The record of the device goes, and those after it move up.
Without(records, key) ==
  LET at == CHOOSE i \in DOMAIN records : records[i].key = key
  IN  [i \in 1..(Len(records) - 1) |-> IF i < at THEN records[i] ELSE records[i + 1]]

\* A record is replaced where it stands, or put at the end.
With(records, record) ==
  IF record.key \in Keys(records)
    THEN [i \in DOMAIN records |-> IF records[i].key = record.key THEN record ELSE records[i]]
    ELSE Append(records, record)

\* What every call but recover checks, with the lock held.
DbReady == ~db.callback /\ ~db.recovery

\* db_store_locked up to the callback.
DbCall(t, op, candidate) ==
  /\ dbCalls[t] = DbNoCall
  /\ dbCalls' = [dbCalls EXCEPT ![t] = [op |-> op, candidate |-> candidate]]
  /\ db' = [db EXCEPT !.callback = TRUE]
  /\ UNCHANGED <<storage, accepted>>

DbSet(t, record) ==
  /\ DbReady
  /\ RecordsValid(With(db.records, record))
  /\ DbCall(t, "store", With(db.records, record))

DbRemove(t, key) ==
  /\ DbReady
  /\ key \in Keys(db.records)
  /\ RecordsValid(Without(db.records, key))
  /\ DbCall(t, "store", Without(db.records, key))

DbRecover(t) ==
  /\ db.recovery /\ ~db.callback
  /\ DbCall(t, "load", <<>>)

-----------------------------------------------------------------------------
(* The store callback and what is done with its answer.                     *)

\* Mutant: an unknown outcome counts as a rejection.
AfterUnknownQuiet(d) == d

\* A result that is neither 0 nor 1, or no new generation with it.
AfterUnknown(d) == [d EXCEPT !.recovery = TRUE]

\* The storage writes first and is asked for its answer afterwards.
Commits(t) ==
  /\ db.generation = storage.generation /\ storage.generation < MaxDbGen
  /\ storage' = [records |-> dbCalls[t].candidate, generation |-> storage.generation + 1]

Stored(t) ==
  LET returned == [db EXCEPT !.callback = FALSE]
      candidate == dbCalls[t].candidate
  IN  /\ dbCalls[t].op = "store"
      /\ dbCalls' = [dbCalls EXCEPT ![t] = DbNoCall]
      /\ \/ /\ Commits(t)
            /\ db' = [returned EXCEPT !.records = candidate, !.generation = storage'.generation]
            /\ accepted' = candidate
         \/ /\ Commits(t) \/ UNCHANGED storage
            /\ db' = AfterUnknown(returned)
            /\ UNCHANGED accepted
         \/ UNCHANGED <<storage, accepted>> /\ db' = returned

\* The load of recover: the records that are read replace the old ones.
Loaded(t) ==
  /\ dbCalls[t].op = "load"
  /\ dbCalls' = [dbCalls EXCEPT ![t] = DbNoCall]
  /\ \/ /\ db' = [records |-> storage.records, generation |-> storage.generation,
                  recovery |-> FALSE, callback |-> FALSE]
        /\ accepted' = storage.records
     \/ db' = [db EXCEPT !.callback = FALSE] /\ UNCHANGED accepted
  /\ UNCHANGED storage

\* The process ends, in the middle of a store or not, and init loads anew.
Restart ==
  /\ \/ \E t \in DbThreads :
          /\ dbCalls[t].op = "store"
          /\ Commits(t)
          /\ accepted' = storage'.records
     \/ /\ UNCHANGED storage
        /\ accepted' = IF db.recovery THEN storage.records ELSE accepted
  /\ db' = [records |-> storage'.records, generation |-> storage'.generation,
            recovery |-> FALSE, callback |-> FALSE]
  /\ dbCalls' = [t \in DbThreads |-> DbNoCall]

DbNext ==
  \/ Restart
  \/ \E t \in DbThreads :
       \/ \E key \in Devices, profile \in Profiles : DbSet(t, [key |-> key, profile |-> profile])
       \/ \E key \in Devices : DbRemove(t, key)
       \/ DbRecover(t) \/ Stored(t) \/ Loaded(t)

DbSpec == DbInit /\ [][DbNext]_dbVars

-----------------------------------------------------------------------------
(* Properties.                                                              *)

\* Unless recovery is required, what lookups are answered from is what the
\* storage holds, in the same generation, and what the last call that returned OK
\* asked for: a record that was reported as set is not lost, by a restart
\* either, and one whose fate is unknown is not believed.
MemoryIsStorage ==
  /\ ~db.recovery => db.records = storage.records /\ db.generation = storage.generation
  /\ db.records = accepted
  /\ RecordsValid(db.records)
=============================================================================
