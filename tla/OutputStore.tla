----------------------------- MODULE OutputStore -----------------------------
(***************************************************************************)
(* Stored tool output: the runtime store's output references (event-store, *)
(* runtime.rs and its Postgres twin runtime_pg.rs) over one of the object  *)
(* backends of object_store.rs.  Two writers may write one reference; they *)
(* take the store's lock for the row only.  The file backend needs two     *)
(* writes for an object: the bytes are renamed into place, then the        *)
(* sidecar with the digest is written; a crash can come between.           *)
(***************************************************************************)
EXTENDS Naturals, Sequences

CONSTANTS
  Refs,       \* output_ref_ids
  Writers,    \* threads or processes that write
  Payloads,   \* their contents; a payload is its own digest
  MaxWrites,  \* bound: writes of a reference
  None, Garbage

Deployments == {"inline", "postgres", "sqlite", "fs", "s3"}

VARIABLES
  backend,   \* fixed when the store is opened
  row,       \* output_refs: nothing, or the inline bytes and the payload measured
  bytes,     \* backend: the object's bytes
  meta,      \* backend: the digest kept with them (s3 keeps none)
  writing,   \* writers: what they write and how far they are
  begun,     \* by reference: the payloads of the writes of it that were started
  acked,     \* references some write of which returned Ok
  tampered   \* references whose backend bytes were changed from outside

outVars == <<backend, row, bytes, meta, writing, begun, acked, tampered>>

AtRest == [at |-> "rest", ref |-> None, payload |-> None]

OutInit ==
  /\ backend \in Deployments
  /\ row = [r \in Refs |-> None] /\ bytes = [r \in Refs |-> None] /\ meta = [r \in Refs |-> None]
  /\ writing = [w \in Writers |-> AtRest]
  /\ begun = [r \in Refs |-> <<>>] /\ acked = {}
  /\ tampered = {}

-----------------------------------------------------------------------------
(***************************************************************************)
(* write_output_ref: the object first, then the row that names it.         *)
(***************************************************************************)
Begin(w, r, p) ==
  /\ writing[w] = AtRest /\ Len(begun[r]) < MaxWrites
  /\ writing' = [writing EXCEPT ![w] = [at |-> "put", ref |-> r, payload |-> p]]
  /\ begun' = [begun EXCEPT ![r] = Append(@, p)]
  /\ UNCHANGED <<backend, row, bytes, meta, acked, tampered>>

Step(w, place) == writing' = [writing EXCEPT ![w].at = place]
Writes(w, place) == writing[w].at = place

\* No backend: the row will carry the bytes.
PutInline(w) ==
  /\ Writes(w, "put") /\ backend = "inline"
  /\ Step(w, "row")
  /\ UNCHANGED <<backend, row, bytes, meta, begun, acked, tampered>>

\* SQLite: bytes and digest in one statement.
PutSqlite(w) ==
  LET r == writing[w].ref IN
  /\ Writes(w, "put") /\ backend = "sqlite"
  /\ bytes' = [bytes EXCEPT ![r] = writing[w].payload]
  /\ meta' = [meta EXCEPT ![r] = writing[w].payload]
  /\ Step(w, "row")
  /\ UNCHANGED <<backend, row, begun, acked, tampered>>

\* Files: a temporary file renamed over the object, ...
PutRename(w) ==
  /\ Writes(w, "put") /\ backend = "fs"
  /\ bytes' = [bytes EXCEPT ![writing[w].ref] = writing[w].payload]
  /\ Step(w, "meta")
  /\ UNCHANGED <<backend, row, meta, begun, acked, tampered>>

\* ... and the sidecar.
PutMeta(w) ==
  /\ Writes(w, "meta")
  /\ meta' = [meta EXCEPT ![writing[w].ref] = writing[w].payload]
  /\ Step(w, "row")
  /\ UNCHANGED <<backend, row, bytes, begun, acked, tampered>>

\* S3: one signed PUT; the digest is not kept.
PutS3(w) ==
  /\ Writes(w, "put") /\ backend = "s3"
  /\ bytes' = [bytes EXCEPT ![writing[w].ref] = writing[w].payload]
  /\ Step(w, "row")
  /\ UNCHANGED <<backend, row, meta, begun, acked, tampered>>

\* Postgres: row and bytes in one upsert.
PutPostgres(w) ==
  LET r == writing[w].ref IN
  /\ Writes(w, "put") /\ backend = "postgres"
  /\ row' = [row EXCEPT ![r] = [inline |-> writing[w].payload, length |-> writing[w].payload]]
  /\ acked' = acked \cup {r}
  /\ writing' = [writing EXCEPT ![w] = AtRest]
  /\ UNCHANGED <<backend, bytes, meta, begun, tampered>>

\* The backend refuses or is away: nothing of the reference is recorded.
PutFails(w) ==
  /\ Writes(w, "put") /\ backend # "inline"
  /\ writing' = [writing EXCEPT ![w] = AtRest]
  /\ UNCHANGED <<backend, row, bytes, meta, begun, acked, tampered>>

\* The row, with the bytes themselves only where there is no backend.
PutRow(w) ==
  LET r == writing[w].ref IN
  /\ Writes(w, "row")
  /\ row' = [row EXCEPT ![r] = [inline |-> IF backend = "inline" THEN writing[w].payload ELSE None,
                                length |-> writing[w].payload]]
  /\ acked' = acked \cup {r}
  /\ writing' = [writing EXCEPT ![w] = AtRest]
  /\ UNCHANGED <<backend, bytes, meta, begun, tampered>>

-----------------------------------------------------------------------------
\* A crash: writes in progress are never resumed.
Crash ==
  /\ \E w \in Writers : writing[w] # AtRest
  /\ writing' = [w \in Writers |-> AtRest]
  /\ UNCHANGED <<backend, row, bytes, meta, begun, acked, tampered>>

\* The operator attaches another backend: rows written before keep their inline bytes.
Attach(kind) ==
  /\ backend = "inline" /\ kind \in Deployments \ {"inline", "postgres"}
  /\ \A w \in Writers : writing[w] = AtRest
  /\ backend' = kind
  /\ UNCHANGED <<row, bytes, meta, writing, begun, acked, tampered>>

\* Bytes change under the backend.
Tamper(r) ==
  /\ bytes[r] # None /\ r \notin tampered
  /\ bytes' = [bytes EXCEPT ![r] = Garbage] /\ tampered' = tampered \cup {r}
  /\ UNCHANGED <<backend, row, meta, writing, begun, acked>>

-----------------------------------------------------------------------------
(***************************************************************************)
(* Full reads.                                                             *)
(***************************************************************************)
GetSqlite(r) ==
  IF bytes[r] = None THEN "not found" ELSE IF meta[r] # bytes[r] THEN "error" ELSE bytes[r]

\* Mutant: the digest of the sidecar is not compared.
GetFsUnverified(r) ==
  IF bytes[r] = None THEN "not found" ELSE IF meta[r] = None THEN "error" ELSE bytes[r]

\* Without its sidecar an object is there and cannot be read: an error, not "not found".
GetFs(r) ==
  IF bytes[r] = None THEN "not found"
  ELSE IF meta[r] = None \/ meta[r] # bytes[r] THEN "error" ELSE bytes[r]

\* The digest is computed from what came back.
GetS3(r) == IF bytes[r] = None THEN "not found" ELSE bytes[r]

Get(r) ==
  CASE backend = "sqlite" -> GetSqlite(r) [] backend = "fs" -> GetFs(r) [] OTHER -> GetS3(r)

\* load_output_payload: the backend first, the inline bytes of an older row second.
Load(r) ==
  IF row[r] = None THEN "not found"
  ELSE IF backend \in {"inline", "postgres"} THEN row[r].inline
  ELSE IF Get(r) # "not found" THEN Get(r)
  ELSE IF row[r].inline # None THEN row[r].inline ELSE "not found"

OutNext ==
  \/ \E w \in Writers :
       \/ \E r \in Refs, p \in Payloads : Begin(w, r, p)
       \/ PutInline(w) \/ PutSqlite(w) \/ PutRename(w) \/ PutMeta(w) \/ PutS3(w) \/ PutPostgres(w)
       \/ PutFails(w) \/ PutRow(w)
  \/ Crash
  \/ \E kind \in Deployments : Attach(kind)
  \/ \E r \in Refs : Tamper(r)

OutSpec == OutInit /\ [][OutNext]_outVars

-----------------------------------------------------------------------------
\* A read fails closed: what it returns is something that was written to that very
\* reference, whole, whichever backend holds it, however writers of it interleave and
\* wherever a crash fell - except that s3 keeps no digest to compare with.
ReadsFailClosed ==
  \A r \in Refs : Load(r) \notin {"not found", "error"} /\ ~(backend = "s3" /\ r \in tampered) =>
    Load(r) \in {begun[r][i] : i \in DOMAIN begun[r]}

\* A reference that was handed out can be read: if it was written once, as the broker's
\* fresh run ids make it, its payload comes back after any crash and after a backend is
\* attached.
AckedIsReadable ==
  \A r \in acked \ tampered : Len(begun[r]) = 1 => Load(r) = row[r].length
=============================================================================
