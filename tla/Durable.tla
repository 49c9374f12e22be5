------------------------------- MODULE Durable -------------------------------
(***************************************************************************)
(* internal/durable: the one way the agent's JSON files are replaced.      *)
(*                                                                         *)
(* A write has three outcomes.  "failed": an error before the rename, the  *)
(* old file stays.  "committed": the rename happened and the directory     *)
(* sync behind it failed, AtomicWrite returns a CommitError and the NEW    *)
(* file is in place.  "ok": no error.                                      *)
(***************************************************************************)
CONSTANT None       \* the absent entry of a map

Outcomes == {"ok", "failed", "committed"}

\* The file a write leaves behind: never a mixture of the two contents.
AtomicWrite(file, contents, outcome) ==
    IF outcome = "failed" THEN file ELSE contents

\* durable.IsCommitted(err), for the error AtomicWrite itself returned.
IsCommitted(outcome) == outcome = "committed"

\* What a caller keeps in memory when it undoes its change unless
\* IsCommitted says that the file already has it.
MemoryAfter(old, new, outcome) ==
    IF outcome = "ok" \/ IsCommitted(outcome) THEN new ELSE old
=============================================================================
