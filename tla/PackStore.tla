----------------------------- MODULE PackStore -----------------------------
(***************************************************************************)
(* The packs one peer publishes in a shared directory (ubiquisync-core,    *)
(* src/pack/store.rs, remote.rs, filename.rs).                             *)
(*                                                                         *)
(* A pack is a body file and a header file.  write_pack() writes the body  *)
(* and then the header, each to a temporary name that is renamed;          *)
(* delete_pack() deletes the header and then the body.  Other peers list   *)
(* the headers, keep the last generation of each pack and read header and  *)
(* body.  Nobody waits for anybody: a reader is in the middle of a listing *)
(* or between two reads when files come and go, a writer fails or dies     *)
(* between any two files.                                                  *)
(*                                                                         *)
(* Abstractions.  Two packs never share a file name (it holds a random     *)
(* id), so contents stay with the names; the temporary files of one file   *)
(* count as one.  No code calls write_pack() or delete_pack() yet: that    *)
(* one task writes, that a failed write is tried again or given up, and    *)
(* that a pack goes only when a listed pack supersedes it, as the comment  *)
(* in header.rs wants it, is external.                                     *)
(***************************************************************************)
EXTENDS Integers, FiniteSets

CONSTANTS
    Packs,         \* what may be packed; each [ref, generation, seqs, supersedes]
    MaxGeneration, \* u64::MAX
    MaxErrors,     \* bound: failed file operations
    MaxCrashes     \* bound: crashes of the writing process

Supersedes(q, p) ==
    \/ q.ref = p.ref /\ q.generation > p.generation
    \/ p.ref \in q.supersedes

ASSUME PackStoreAssumption ==
    /\ \A p \in Packs : p.generation \in 0 .. MaxGeneration /\ p.ref \notin p.supersedes
    /\ MaxGeneration \in Nat
    /\ \A p, q \in Packs :
          /\ Supersedes(q, p) => p.seqs \subseteq q.seqs
          /\ p.ref = q.ref /\ p.generation = q.generation => p = q
    /\ MaxErrors \in Nat
    /\ MaxCrashes \in Nat

Kinds == {"header", "body"}

File(p, kind) == [pack |-> p, kind |-> kind, temp |-> FALSE]

Temp(p, kind) == [pack |-> p, kind |-> kind, temp |-> TRUE]

Files == [pack : Packs, kind : Kinds, temp : BOOLEAN]

\* A task that does nothing.
Nothing == <<>>

VARIABLES
    files,         \* the directory
    writing,       \* write_pack(): <<pack, file to write next>>, or Nothing
    staged,        \* the temporary file of that file is complete
    failed,        \* packs whose write returned an error, still in memory
    deleting,      \* delete_pack(): <<pack, file to delete next>>, or Nothing
    reader,        \* another peer's pass over the directory
    published,     \* history: packs whose write_pack() returned Ok
    missed,        \* history: listed packs of which a file was not found
    errors, crashes

vars == <<files, writing, staged, failed, deleting, reader, published, missed, errors, crashes>>

\* The phases of a pass: listing; wanted packs without, then with, their header.
NoReader == [listing |-> FALSE, passed |-> {}, listed |-> {}, wanted |-> {}, opened |-> {}]

Init ==
    /\ files = {}
    /\ writing = Nothing
    /\ staged = FALSE
    /\ failed = {}
    /\ deleting = Nothing
    /\ reader = NoReader
    /\ published = {}
    /\ missed = {}
    /\ errors = 0
    /\ crashes = 0

-----------------------------------------------------------------------------
(* write_pack() and FileRemote::write() *)

\* Mutant of WriteOrder: the header first.
WriteOrderReversed(kind) == IF kind = "header" THEN "body" ELSE "done"

\* What is written after this file; the body is the first.
WriteOrder(kind) == IF kind = "body" THEN "header" ELSE "done"

FirstWritten == CHOOSE k \in Kinds : WriteOrder(k) # "done"

\* A pack built just now, or one whose write failed.
WritePack ==
    /\ writing = Nothing
    /\ \E p \in Packs :
          /\ p \in failed \/ \A f \in files : f.pack # p
          /\ p \notin published
          /\ writing' = <<p, FirstWritten>>
          /\ failed' = failed \ {p}
    /\ UNCHANGED <<files, staged, deleting, reader, published, missed, errors, crashes>>

\* create_dir_all(), File::create(), write_all(), sync_all().
WriteTemp ==
    /\ writing # Nothing /\ ~ staged
    /\ staged' = TRUE
    /\ files' = files \cup {Temp(writing[1], writing[2])}
    /\ UNCHANGED <<writing, failed, deleting, reader, published, missed, errors, crashes>>

AfterFile(p, kind) == IF WriteOrder(kind) = "done" THEN Nothing ELSE <<p, WriteOrder(kind)>>

\* rename(); after the last file write_pack() returns.
Rename ==
    /\ writing # Nothing /\ staged
    /\ staged' = FALSE
    /\ LET p == writing[1]
           kind == writing[2]
       IN  /\ files' = (files \ {Temp(p, kind)}) \cup {File(p, kind)}
           /\ writing' = AfterFile(p, kind)
           /\ published' = IF writing' = Nothing THEN published \cup {p} ELSE published
    /\ UNCHANGED <<failed, deleting, reader, missed, errors, crashes>>

\* Any of these calls fails; what the temporary file holds stays behind.
WriteError ==
    /\ writing # Nothing
    /\ errors < MaxErrors
    /\ errors' = errors + 1
    /\ writing' = Nothing
    /\ staged' = FALSE
    /\ failed' = failed \cup {writing[1]}
    /\ UNCHANGED <<files, deleting, reader, published, missed, crashes>>

-----------------------------------------------------------------------------
(* Listing *)

\* Mutant of ListedName: the suffix of the body is looked for.
ListedBodyName(f) == f.kind = "body" /\ ~ f.temp

\* Which names list_packs() accepts: those that end in HEADER_EXT.
ListedName(f) == f.kind = "header" /\ ~ f.temp

ListPacks == {f.pack : f \in {g \in files : ListedName(g)}}

\* Mutant of Dedupe: the first generation is kept.
DedupeEarliest(ids) ==
    {p \in ids : \A q \in ids : q.ref = p.ref => q.generation >= p.generation}

\* dedupe_pack_files(): the last generation of each pack.
Dedupe(ids) ==
    {p \in ids : \A q \in ids : q.ref = p.ref => q.generation <= p.generation}

-----------------------------------------------------------------------------
(* delete_pack() *)

DeleteOrder(kind) == IF kind = "header" THEN "body" ELSE "done"

FirstDeleted == CHOOSE k \in Kinds : DeleteOrder(k) # "done"

DeletePack ==
    /\ deleting = Nothing
    /\ \E p, q \in ListPacks :
          /\ Supersedes(q, p)
          /\ deleting' = <<p, FirstDeleted>>
    /\ UNCHANGED <<files, writing, staged, failed, reader, published, missed, errors, crashes>>

\* remove_file(); a file that is not there is no error.
RemoveFile ==
    /\ deleting # Nothing
    /\ LET kind == deleting[2]
       IN  /\ files' = files \ {File(deleting[1], kind)}
           /\ deleting' = IF DeleteOrder(kind) = "done" THEN Nothing
                          ELSE <<deleting[1], DeleteOrder(kind)>>
    /\ UNCHANGED <<writing, staged, failed, reader, published, missed, errors, crashes>>

DeleteError ==
    /\ deleting # Nothing
    /\ errors < MaxErrors
    /\ errors' = errors + 1
    /\ deleting' = Nothing
    /\ UNCHANGED <<files, writing, staged, failed, reader, published, missed, crashes>>

\* The process of the author ends; what it was doing is forgotten.
Crash ==
    /\ crashes < MaxCrashes
    /\ crashes' = crashes + 1
    /\ writing' = Nothing
    /\ staged' = FALSE
    /\ failed' = {}
    /\ deleting' = Nothing
    /\ UNCHANGED <<files, reader, published, missed, errors>>

-----------------------------------------------------------------------------
(* Another peer *)

StartListing ==
    /\ ~ reader.listing
    /\ reader.wanted = {} /\ reader.opened = {}
    /\ reader' = [NoReader EXCEPT !.listing = TRUE]
    /\ UNCHANGED <<files, writing, staged, failed, deleting, published, missed, errors, crashes>>

\* read_dir() passes each name once, whatever changes meanwhile.
ListEntry ==
    /\ reader.listing
    /\ \E p \in Packs \ reader.passed :
          reader' = [reader EXCEPT !.passed = @ \cup {p},
                                   !.listed = @ \cup ({p} \cap ListPacks)]
    /\ UNCHANGED <<files, writing, staged, failed, deleting, published, missed, errors, crashes>>

EndListing ==
    /\ reader.listing
    /\ reader.passed = Packs
    /\ reader' = [NoReader EXCEPT !.wanted = Dedupe(reader.listed)]
    /\ UNCHANGED <<files, writing, staged, failed, deleting, published, missed, errors, crashes>>

\* read_header() and read_body() return None if there is no file.
ReadHeader ==
    \E p \in reader.wanted :
        LET found == File(p, "header") \in files
        IN  /\ reader' = [reader EXCEPT !.wanted = @ \ {p},
                                        !.opened = IF found THEN @ \cup {p} ELSE @]
            /\ missed' = IF found THEN missed ELSE missed \cup {p}
            /\ UNCHANGED <<files, writing, staged, failed, deleting, published, errors, crashes>>

ReadBody ==
    \E p \in reader.opened :
        LET found == File(p, "body") \in files
        IN  /\ reader' = [reader EXCEPT !.opened = @ \ {p}]
            /\ missed' = IF found THEN missed ELSE missed \cup {p}
            /\ UNCHANGED <<files, writing, staged, failed, deleting, published, errors, crashes>>

Next ==
    \/ WritePack \/ WriteTemp \/ Rename \/ WriteError
    \/ DeletePack \/ RemoveFile \/ DeleteError \/ Crash
    \/ StartListing \/ ListEntry \/ EndListing \/ ReadHeader \/ ReadBody

Spec == Init /\ [][Next]_vars

-----------------------------------------------------------------------------
(* Properties *)

Steps == {Nothing} \cup (Packs \X Kinds)

TypeOK ==
    /\ files \subseteq Files
    /\ writing \in Steps
    /\ staged \in BOOLEAN
    /\ deleting \in Steps
    /\ reader \in [listing : BOOLEAN, passed : SUBSET Packs, listed : SUBSET Packs,
                   wanted : SUBSET Packs, opened : SUBSET Packs]
    /\ failed \subseteq Packs
    /\ published \subseteq Packs
    /\ missed \subseteq Packs
    /\ errors \in 0 .. MaxErrors
    /\ crashes \in 0 .. MaxCrashes

(***************************************************************************)
(* Whoever sees the header finds the body: a listed pack is complete,      *)
(* whatever failed or died while a pack was written or deleted.            *)
(***************************************************************************)
BodyBehindHeader ==
    \A p \in Packs : File(p, "header") \in files => File(p, "body") \in files

Readable == {p \in Dedupe(ListPacks) : {File(p, k) : k \in Kinds} \subseteq files}

(***************************************************************************)
(* What was published stays available while packs are compacted: the last  *)
(* generations listed hold, complete, every sequence number of every pack  *)
(* ever published.                                                         *)
(***************************************************************************)
PublishedStaysReadable ==
    UNION {p.seqs : p \in published} \subseteq UNION {p.seqs : p \in Readable}

(***************************************************************************)
(* A reader that does not find a file of a pack it listed has been         *)
(* overtaken by a deletion: one of the packs it would list now holds all   *)
(* that the missing one did, so listing again is enough.                   *)
(***************************************************************************)
MissMeansSuperseded ==
    [][\A p \in missed' \ missed :
          \E q \in Readable \ {p} : p.seqs \subseteq q.seqs]_vars

=============================================================================
