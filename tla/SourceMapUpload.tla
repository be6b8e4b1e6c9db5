--------------------------- MODULE SourceMapUpload ---------------------------
(***************************************************************************)
(* The upload of source maps: by the webpack hook of withGlasstraceConfig()*)
(* (config-wrapper.ts) in the middle of a UploadNext.js build, whose other       *)
(* compilers go on writing maps, and by uploadSourceMapsAuto() of          *)
(* source-map-uploader.ts, called by a script.  Files are read again at    *)
(* each stage; a file is known by its version, 0 when it cannot be read.   *)
(***************************************************************************)
EXTENDS Naturals, FiniteSets, Functions

CONSTANTS Compiler,     \* of a build; "client" is one
          MapsOf,       \* the maps each compiler emits
          Bytes,        \* the size of each map
          Threshold,    \* PRESIGNED_THRESHOLD_BYTES
          Concurrency,  \* blobs uploaded at a time
          MaxJobs       \* bound: uploads

File == UNION {MapsOf[c] : c \in Compiler}

ASSUME UploadAssumption ==
  /\ "client" \in Compiler /\ MapsOf \in [Compiler -> SUBSET File]
  /\ Bytes \in [File -> Nat] /\ Threshold \in Nat /\ Concurrency \in Nat \ {0}

VARIABLES build,        \* compilers that have not emitted; uploads to come
          disk,         \* the version of each map, 0: none
          job,          \* the upload under way
          blobs,        \* what the blob store has: files and versions
          flight,       \* files being put; `late` when the job gave up on them
          accepted,     \* the last thing the backend accepted
          changed       \* history: a map changed since the job began

uploadVars == <<build, disk, job, blobs, flight, accepted, changed>>

Empty == [f \in {} |-> 0]
With(fun, f, v) == [g \in DOMAIN fun \cup {f} |-> IF g = f THEN v ELSE fun[g]]

NoJob == [pc |-> "idle", kind |-> "none", infos |-> {}, todo |-> {}, hash |-> Empty, read |-> Empty,
          tokens |-> {}, skipped |-> {}, jobs |-> 0]

Goto(pc) == job' = [job EXCEPT !.pc = pc]
End == job' = [NoJob EXCEPT !.jobs = job.jobs]
Kept == UNCHANGED <<build, disk, changed>>

-----------------------------------------------------------------------------
\* The build

EmitMaps(c) ==
  /\ c \in build.left
  /\ build' = [build EXCEPT !.left = @ \ {c},
                            !.uploads = IF c = "client" /\ ~ build.dev /\ ~ build.turbopack
                                        THEN build.wraps ELSE @]
  /\ disk' = [f \in File |-> IF f \in MapsOf[c] THEN disk[f] + 1 ELSE disk[f]]
  /\ changed' = (changed \/ job.pc # "idle")
  /\ UNCHANGED <<job, blobs, flight, accepted>>

\* A clean-up of the build takes the maps away again.
RemoveMap(f) ==
  /\ disk[f] # 0 /\ build.left = {}
  /\ disk' = [disk EXCEPT ![f] = 0]
  /\ changed' = (changed \/ job.pc # "idle")
  /\ UNCHANGED <<build, job, blobs, flight, accepted>>

Begin(kind) ==
  /\ job.pc = "idle" /\ job.jobs < MaxJobs
  /\ job' = [NoJob EXCEPT !.pc = "discover", !.kind = kind, !.jobs = job.jobs + 1]
  /\ changed' = FALSE
  /\ UNCHANGED <<disk, blobs, flight, accepted>>

\* afterEmit of the client's compiler, one after the other when the
\* configuration was wrapped twice.
AfterEmit ==
  /\ build.uploads > 0
  /\ Begin("build")
  /\ build' = [build EXCEPT !.uploads = @ - 1]

ScriptUploads == build.left = {} /\ Begin("auto") /\ UNCHANGED build

-----------------------------------------------------------------------------
\* handleSourceMapUpload(), or the script

Readable == {f \in File : disk[f] # 0}

DiscoverSourceMapFiles ==
  /\ job.pc = "discover"
  /\ IF Readable = {} THEN End
     ELSE job' = [job EXCEPT !.pc = "hash", !.infos = Readable, !.todo = Readable]
  /\ Kept /\ UNCHANGED <<blobs, flight, accepted>>

\* computeBuildHash(), without git: file by file; an unreadable one is skipped.
HashNext ==
  /\ job.pc = "hash"
  /\ \E f \in job.todo :
       job' = [job EXCEPT !.todo = @ \ {f},
                          !.hash = IF disk[f] = 0 THEN @ ELSE With(@, f, disk[f])]
  /\ Kept /\ UNCHANGED <<blobs, flight, accepted>>

TotalBytes == FoldFunctionOnSet(LAMBDA a, b : a + b, 0, Bytes, job.infos)

\* Mutant: the hash is taken before the last file.
ChooseUpload_Early ==
  /\ job.pc = "hash" /\ Cardinality(job.todo) <= 1
  /\ job' = [job EXCEPT !.pc = "read", !.todo = job.infos]
  /\ Kept /\ UNCHANGED <<blobs, flight, accepted>>

\* The hook always posts; the script goes by the size, and by whether
\* @vercel/blob is there.
ChooseUpload ==
  /\ job.pc = "hash" /\ job.todo = {}
  /\ \/ job' = [job EXCEPT !.pc = "read", !.todo = job.infos]
     \/ job.kind = "auto" /\ TotalBytes >= Threshold /\ Goto("presign")
  /\ job.kind = "auto" /\ TotalBytes < Threshold => job'.pc = "read"
  /\ Kept /\ UNCHANGED <<blobs, flight, accepted>>

\* uploadSourceMaps(): everything is read, then posted.
ReadNext ==
  /\ job.pc = "read"
  /\ \E f \in job.todo :
       job' = [job EXCEPT !.todo = @ \ {f},
                          !.read = IF disk[f] = 0 THEN @ ELSE With(@, f, disk[f])]
  /\ Kept /\ UNCHANGED <<blobs, flight, accepted>>

Accepting(kind) ==
  [kind |-> kind, hash |-> job.hash, files |-> job.read, wanted |-> job.tokens \ job.skipped,
   steady |-> ~ changed]

\* A failure is a warning of the build, and an error of the script.
PostMaps ==
  /\ job.pc = "read" /\ job.todo = {}
  /\ accepted' \in {Accepting("post"), accepted}
  /\ End
  /\ Kept /\ UNCHANGED <<blobs, flight>>

\* requestPresignedTokens(): the backend may give fewer, or others; one token
\* without a map ends the upload.
Presign ==
  /\ job.pc = "presign"
  /\ \/ End
     \/ \E tokens \in SUBSET job.infos : 
          job' = [job EXCEPT !.pc = "chunk", !.todo = tokens, !.tokens = tokens]
  /\ Kept /\ UNCHANGED <<blobs, flight, accepted>>

Uploading == {p \in flight : ~ p.late}

\* Up to Concurrency files, when those before are done.
StartChunk ==
  /\ job.pc = "chunk" /\ job.todo # {} /\ Uploading = {}
  /\ \E chunk \in SUBSET job.todo :
       /\ Cardinality(chunk) = IF Cardinality(job.todo) < Concurrency THEN Cardinality(job.todo) ELSE Concurrency
       /\ job' = [job EXCEPT !.todo = @ \ chunk]
       /\ flight' = flight \cup [file : chunk, version : {0}, late : {FALSE}]
  /\ Kept /\ UNCHANGED <<blobs, accepted>>

\* An unreadable file is left out.
ReadForPut(p) ==
  /\ p \in flight /\ p.version = 0
  /\ IF disk[p.file] = 0
     THEN /\ flight' = flight \ {p}
          /\ job' = IF p.late THEN job ELSE [job EXCEPT !.skipped = @ \cup {p.file}]
     ELSE /\ flight' = (flight \ {p}) \cup {[p EXCEPT !.version = disk[p.file]]}
          /\ UNCHANGED job
  /\ Kept /\ UNCHANGED <<blobs, accepted>>

\* Promise.all() rejects with the first failure; the other puts go on.
GiveUp(p) == {[q EXCEPT !.late = TRUE] : q \in flight \ {p}}

\* Mutant: a put that failed is left out like an unreadable file.
PutEnds_Forgives(p) ==
  /\ p \in flight /\ p.version # 0
  /\ \/ /\ blobs' = blobs \cup {[file |-> p.file, version |-> p.version]}
        /\ flight' = flight \ {p}
        /\ job' = IF p.late THEN job ELSE [job EXCEPT !.read = With(@, p.file, p.version)]
     \/ /\ flight' = flight \ {p}
        /\ UNCHANGED <<job, blobs>>
  /\ Kept /\ UNCHANGED accepted

PutEnds(p) ==
  /\ p \in flight /\ p.version # 0
  /\ \/ /\ blobs' = blobs \cup {[file |-> p.file, version |-> p.version]}
        /\ flight' = flight \ {p}
        /\ job' = IF p.late THEN job ELSE [job EXCEPT !.read = With(@, p.file, p.version)]
     \/ /\ flight' = IF p.late THEN flight \ {p} ELSE GiveUp(p)
        /\ IF p.late THEN UNCHANGED job ELSE End
        /\ UNCHANGED blobs
  /\ Kept /\ UNCHANGED accepted

SubmitManifest ==
  /\ job.pc = "chunk" /\ job.todo = {} /\ Uploading = {}
  /\ accepted' \in {Accepting("manifest"), accepted}
  /\ End
  /\ Kept /\ UNCHANGED <<blobs, flight>>

-----------------------------------------------------------------------------

\* Maps of the build before may still be there.
UploadInit ==
  /\ build \in [left : {Compiler}, dev : BOOLEAN, turbopack : BOOLEAN, wraps : {1, 2}, uploads : {0}]
  /\ \E old \in {0, 1} : disk = [f \in File |-> old]
  /\ job = NoJob
  /\ blobs = {} /\ flight = {}
  /\ accepted = [kind |-> "nothing", hash |-> Empty, files |-> Empty, wanted |-> {}, steady |-> TRUE]
  /\ changed = FALSE

UploadNext ==
  \/ \E c \in Compiler : EmitMaps(c)
  \/ \E f \in File : RemoveMap(f)
  \/ AfterEmit \/ ScriptUploads
  \/ DiscoverSourceMapFiles \/ HashNext \/ ChooseUpload
  \/ ReadNext \/ PostMaps \/ Presign \/ StartChunk \/ SubmitManifest
  \/ \E p \in flight : ReadForPut(p) \/ PutEnds(p)

UploadSpec == UploadInit /\ [][UploadNext]_uploadVars

-----------------------------------------------------------------------------
\* Properties

\* A manifest is all or nothing: it lists every map that had a token and could
\* be read, each with the version that is in the blob store, although the puts
\* of a chunk end in any order and go on after one of them failed.
ManifestIsWhole ==
  accepted.kind = "manifest" =>
    /\ DOMAIN accepted.files = accepted.wanted
    /\ \A f \in accepted.wanted : [file |-> f, version |-> accepted.files[f]] \in blobs

\* Unless maps change under the upload, what the backend stores under a build
\* hash is what the hash was taken of.
HashIdentifiesMaps ==
  accepted.steady =>
    /\ \A f \in DOMAIN accepted.files : f \in DOMAIN accepted.hash /\ accepted.hash[f] = accepted.files[f]
    /\ accepted.kind = "post" => DOMAIN accepted.files = DOMAIN accepted.hash

\* Both promises of an upload: whole, and what its build hash names.
UploadSound == ManifestIsWhole /\ HashIdentifiesMaps
=============================================================================
