----------------------------- MODULE MCLogStore -----------------------------
(* LogStore instantiated for TLC: the calls that may fail in each run.    *)
EXTENDS LogStore

\* Every system call of the append and restart paths may fail.
MCAllCalls == FailPoints

\* Every system call but fdatasync may fail (logstore_junk fails that one).
MCAllButDataSync == FailPoints \ {"datasync"}

\* Only write() may fail, leaving a prefix of the record.
MCShortWrites == {"write"}

\* The meta file's fsync may fail.
MCMetaSync == {"metaSync"}

\* fdatasync may fail after the record was written.
MCDataSync == {"datasync"}
=============================================================================
