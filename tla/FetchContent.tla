---------------------------- MODULE FetchContent ----------------------------
(***************************************************************************)
(* HttpRegistry.fetchContent (packages/core/src/registry.ts): the files of *)
(* a release are downloaded to a temporary directory by some workers.      *)
(*                                                                         *)
(* A worker is at an await between any two steps: the request, mkdir and   *)
(* writeFile are one each.  A file is its place in the manifest, and so in *)
(* the queue.                                                              *)
(***************************************************************************)
EXTENDS Naturals, FiniteSets

CONSTANTS
  Workers,     \* DOWNLOAD_CONCURRENCY of them
  FileCount    \* files of a manifest

ASSUME FetchAssumption == Workers # {} /\ IsFiniteSet(Workers) /\ FileCount \in Nat \ {0}

VARIABLES
  worker,      \* worker[w]: what it is at, and with which file
  next,        \* the file at the head of the queue
  failed,      \* the flag a failure sets for the other workers
  tmp,         \* files in the temporary directory
  made         \* the directory is there

fetch == <<worker, next, failed, tmp, made>>

Resting == [pc |-> "settled", file |-> 0, threw |-> FALSE]
Settled == \A w \in Workers : worker[w].pc = "settled"
Threw == \E w \in Workers : worker[w].threw
At(w, pc) == worker' = [worker EXCEPT ![w].pc = pc]
Leave(w, pc) == worker' = [worker EXCEPT ![w].pc = pc, ![w].file = 0]

FetchInit ==
  /\ worker = [w \in Workers |-> Resting]
  /\ next = 1 /\ failed = FALSE /\ tmp = {} /\ made = FALSE

StartFetch ==
  /\ made' = TRUE /\ tmp' = {} /\ next' = 1 /\ failed' = FALSE
  /\ worker' = [w \in Workers |-> [Resting EXCEPT !.pc = "take"]]

\* queue.shift(): the worker ends when the queue is empty or another one failed.
Take(w) ==
  /\ worker[w].pc = "take"
  /\ next' = next + (IF next <= FileCount THEN 1 ELSE 0)
  /\ IF next > FileCount \/ failed
       THEN Leave(w, "settled")
       ELSE worker' = [worker EXCEPT ![w].pc = "download", ![w].file = next]
  /\ UNCHANGED <<failed, tmp, made>>

Throw(w) == worker' = [worker EXCEPT ![w].pc = "throw", ![w].threw = TRUE]

\* The bytes arrive with the digest of the manifest.
Download(w) ==
  /\ worker[w].pc = "download"
  /\ At(w, "mkdir")
  /\ UNCHANGED <<next, failed, tmp, made>>

\* The request fails, the digest differs, the path is refused.
DownloadFails(w) ==
  /\ worker[w].pc = "download"
  /\ Throw(w)
  /\ UNCHANGED <<next, failed, tmp, made>>

\* mkdir is recursive: a directory that is gone is made again.
MakeDir(w) ==
  /\ worker[w].pc = "mkdir"
  /\ made' = TRUE
  /\ At(w, "write")
  /\ UNCHANGED <<next, failed, tmp>>

Write(w) ==
  /\ worker[w].pc = "write" /\ made
  /\ tmp' = tmp \cup {worker[w].file}
  /\ Leave(w, "take")
  /\ UNCHANGED <<next, failed, made>>

\* ENOENT, where the directory is gone again, or any other reason.
WriteFails(w) ==
  /\ worker[w].pc \in {"mkdir", "write"}
  /\ Throw(w)
  /\ UNCHANGED <<next, failed, tmp, made>>

\* The rejection is seen, one turn later.
Reject(w) ==
  /\ worker[w].pc = "throw"
  /\ failed' = TRUE
  /\ Leave(w, "settled")
  /\ UNCHANGED <<next, tmp, made>>

Work(w) == Take(w) \/ Download(w) \/ MakeDir(w) \/ Write(w) \/ Reject(w)

Cleanup == tmp' = {} /\ made' = FALSE /\ UNCHANGED <<worker, next, failed>>

DoneAtOnce == Settled \/ failed                               \* mutant: the first failure ends it
\* fetchContent ends when every worker has.
Done == Settled
=============================================================================
