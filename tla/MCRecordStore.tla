---------------------------- MODULE MCRecordStore ----------------------------
(* Two threads of one process and one of another, sharing a record. *)
EXTENDS RecordStore

CONSTANTS t1, t2, t3, i1, i2

MCThreads == {t1, t2, t3}
MCInstances == {i1, i2}
MCInstanceOf == [t \in Threads |-> IF t = t3 THEN i2 ELSE i1]
==============================================================================
