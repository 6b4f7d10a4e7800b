--------------------------------- MODULE Fetch --------------------------------
(*****************************************************************************)
(* The fetch phase: a repository is looked up at GitHub, a commit is chosen,  *)
(* its archive is downloaded and extracted into a private directory, and the  *)
(* tree is recorded. Every bound of the code is a constant. A path is a       *)
(* sequence of components, a file is its size; bytes are counted, not kept.   *)
(* The user may cancel and the branch may move at any time, and the future    *)
(* may be dropped wherever it awaits.                                         *)
(*****************************************************************************)
EXTENDS Naturals, FiniteSets, FiniteSetsExt, SequencesExt

CONSTANTS
    Shas,         \* commits of the repository
    NoSha,        \* no commit was asked for
    Archives,     \* what GitHub may serve for a commit
    Requests,     \* what a job may ask to be fetched
    MaxDownload,  \* MAX_DOWNLOAD_BYTES
    MaxTotal,     \* MAX_TOTAL_BYTES
    MaxFile,      \* MAX_FILE_BYTES
    MaxFiles,     \* MAX_FILE_COUNT
    MaxMeta,      \* MAX_META_BYTES
    MaxParts,     \* MAX_PATH_CHARS, in components
    Chunk,        \* STREAM_CHUNK_BYTES
    MaxPushes     \* bound: how often the branch moves during the fetch

ASSUME FetchAssumption ==
    /\ NoSha \notin Shas
    /\ {MaxDownload, MaxTotal, MaxFile, MaxFiles, MaxMeta, MaxParts, MaxPushes} \subseteq Nat
    /\ Chunk \in Nat \ {0}
    /\ \A archive \in Archives :
          /\ {archive.declared, archive.packed} \subseteq Nat
          /\ archive.members \in Seq([type : STRING, name : Seq(STRING), size : Nat])
    /\ \A asked \in Requests : asked.pin \in Shas \cup {NoSha, "malformed"}

VARIABLES
    repo,      \* the archive GitHub has for each commit
    head,      \* the commit the branch is at
    pushes,
    request,   \* url, branch and pin of the job
    stage,
    outcome,   \* what the phase returned
    cancel,    \* the flag the poller sets
    sha,       \* the commit chosen
    served,    \* the commit whose archive the body belongs to
    received,  \* compressed bytes held
    next,      \* the member whose header is read next
    left,      \* bytes of the current member not read yet
    target,    \* where the current member goes
    charged,   \* `total`
    entries,   \* `file_count`
    pending,   \* a name that replaces that of the next member
    files,     \* on disk: the size of every file
    dirs,      \* on disk: every directory, the root included
    snap       \* the snapshot recorded

disk == <<files, dirs>>
vars == <<repo, head, pushes, request, stage, outcome, cancel, sha, served, received,
          next, left, target, charged, entries, pending, files, dirs, snap>>

NoFile == [p \in {} |-> 0]
NoName == <<>>

(*****************************************************************************)
(* Names.                                                                     *)
(*****************************************************************************)
ValidSegment(s) == s \notin {"", ".", "..", "odd"}
ValidUrl(url) == url.base = "https://github.com/" /\ Len(url.parts) = 2
                 /\ \A k \in 1 .. 2 : ValidSegment(url.parts[k])

\* The branch asked for, or the default one; and whether its name is a legal one.
Branch(asked) == IF asked = "" THEN "default" ELSE asked
ValidBranch(branch) == branch # "malformed"

\* What a failed answer of GitHub is reported as.
AccessError(status, exhausted) ==
    CASE status = 401 -> "unauthorized"
      [] status = 403 -> IF exhausted THEN "rate_limited" ELSE "forbidden"
      [] status = 404 -> "not_found"
      [] status = 429 -> "rate_limited"
      [] OTHER -> "http_error"

\* The place a member is written to: "." is dropped, and the first component
\* that leaves the root or is too long for the file system decides the error.
Joined(name) == FoldLeft(LAMBDA at, c : IF c = "." THEN at ELSE Append(at, c), <<>>, name)
JoinError(name) ==
    LET k == SelectInSeq(name, LAMBDA c : c \in {"..", "/", "long"})
    IN  IF name = NoName THEN "refused"
        ELSE IF Len(name) > MaxParts THEN "too_large"
        ELSE IF k = 0 THEN "none"
        ELSE IF name[k] = "long" THEN "too_large" ELSE "refused"

Above(path) == {SubSeq(path, 1, k) : k \in 0 .. Len(path) - 1}

\* Security-sensitive by name alone, and the recognized manifests.
Sensitive(path) ==
    \/ path # NoName /\ Last(path) = ".env"
    \/ \E k \in 1 .. Len(path) : path[k] \in {"config", "terraform", "kubernetes", "k8s"}
Manifest(path) == path # NoName /\ Last(path) = "package.json"

(*****************************************************************************)
(* The archive being read.                                                    *)
(*****************************************************************************)
Tar == repo[served]
Member == Tar.members[next]
Name == IF pending # NoName THEN pending ELSE Member.name
Bytes == MapThenSumSet(LAMBDA p : files[p], DOMAIN files)

Init ==
    /\ repo \in [Shas -> Archives]
    /\ head \in Shas
    /\ pushes = 0
    /\ request \in Requests
    /\ stage = "start"
    /\ outcome = "none"
    /\ cancel = FALSE
    /\ sha = NoSha
    /\ served = NoSha
    /\ received = 0
    /\ next = 1
    /\ left = 0
    /\ target = NoName
    /\ charged = 0
    /\ entries = 0
    /\ pending = NoName
    /\ files = NoFile
    /\ dirs = {}
    /\ snap = NoFile

\* Variant: the guard is disarmed before the tree is complete.
Disarmed == dirs
\* What is left of the directory when its guard is dropped.
Unguarded == {}

\* Every early return drops the guard, which removes the directory.
Return(result) ==
    /\ stage' = "done"
    /\ outcome' = result
    /\ files' = NoFile
    /\ dirs' = Unguarded
    /\ UNCHANGED <<repo, head, pushes, request, cancel, sha, served, received, next, left,
                   target, charged, entries, pending, snap>>

Stay == UNCHANGED <<repo, head, pushes, request, cancel, outcome>>
Reading == UNCHANGED <<next, left, target, charged, entries, pending, snap>>

(*****************************************************************************)
(* Intake: permission, branch and commit, before any byte.                    *)
(*****************************************************************************)
Start ==
    /\ stage = "start"
    /\ \/ cancel /\ Return("cancelled")
       \/ ~cancel /\ ~ValidUrl(request.url) /\ Return("refused")
       \/ /\ ~cancel /\ ValidUrl(request.url)
          /\ stage' = "access"
          /\ dirs' = {NoName}
          /\ UNCHANGED <<sha, served, received, files>> /\ Stay /\ Reading

\* A request that times out, cannot be sent, or whose answer cannot be decoded.
HttpFails == stage \in {"access", "head", "download", "body"} /\ Return("http_error")

Refused(status) ==
    /\ stage \in {"access", "head", "download"}
    /\ \E exhausted \in BOOLEAN : Return(AccessError(status, exhausted))

Access ==
    /\ stage = "access"
    /\ \/ cancel /\ Return("cancelled")
       \/ ~cancel /\ ~ValidBranch(Branch(request.branch)) /\ Return("refused")
       \/ ~cancel /\ ValidBranch(Branch(request.branch)) /\ request.pin = "malformed"
          /\ Return("refused")
       \/ /\ ~cancel /\ ValidBranch(Branch(request.branch)) /\ request.pin # "malformed"
          /\ stage' = IF request.pin = NoSha THEN "head" ELSE "download"
          /\ sha' = request.pin
          /\ UNCHANGED <<served, received, disk>> /\ Stay /\ Reading

ResolveHead ==
    /\ stage = "head"
    /\ sha' = head
    /\ stage' = "download"
    /\ UNCHANGED <<served, received, disk>> /\ Stay /\ Reading

\* Variant: the tarball is asked for by branch name.
BranchTarball == head
\* The ref the tarball is asked for: the commit that was resolved.
TarballRef == sha

Download ==
    /\ stage = "download"
    /\ \/ cancel /\ Return("cancelled")
       \/ /\ ~cancel
          /\ served' = TarballRef
          /\ stage' = "body"
          /\ UNCHANGED <<sha, received, disk>> /\ Stay /\ Reading

(*****************************************************************************)
(* The body, bounded while it streams. The declared length may be absent or   *)
(* wrong.                                                                     *)
(*****************************************************************************)
ReadBounded ==
    /\ stage = "body"
    /\ \/ Tar.declared > MaxDownload /\ Return("too_large")
       \/ /\ Tar.declared <= MaxDownload /\ received < Tar.packed
          /\ \/ cancel /\ Return("cancelled")
             \/ \E n \in 1 .. Tar.packed - received :
                  /\ ~cancel
                  /\ IF received + n > MaxDownload
                     THEN Return("too_large")
                     ELSE /\ received' = received + n
                          /\ UNCHANGED <<stage, sha, served, disk>> /\ Stay /\ Reading
       \/ /\ Tar.declared <= MaxDownload /\ received = Tar.packed
          /\ \/ cancel /\ Return("cancelled")
             \/ /\ ~cancel
                /\ stage' = "extract"
                /\ UNCHANGED <<sha, served, received, disk>> /\ Stay /\ Reading

(*****************************************************************************)
(* Extraction.                                                                *)
(*****************************************************************************)
\* The header of a member is accepted: `n` bytes are charged for it, its body
\* follows.
Open(n, counted, name) ==
    /\ stage' = "member"
    /\ left' = Member.size
    /\ target' = Joined(Name)
    /\ charged' = charged + n
    /\ entries' = entries + counted
    /\ pending' = name
    /\ UNCHANGED <<sha, served, received, next, snap>> /\ Stay

\* Variant: the name is joined to the root as it stands.
UncheckedName ==
    IF Member.size > MaxFile \/ charged + Member.size > MaxTotal \/ entries + 1 > MaxFiles
    THEN "too_large" ELSE "none"
\* Variant: files are not counted.
UncountedFile ==
    IF Member.size > MaxFile \/ charged + Member.size > MaxTotal THEN "too_large"
    ELSE IF JoinError(Name) # "none" THEN JoinError(Name)
    ELSE IF Joined(Name) \in dirs \/ Above(Joined(Name)) \cap DOMAIN files # {} THEN "refused"
    ELSE "none"
\* Why a file's header is refused: its size, the budget, the count, its name, or
\* what is in its way on disk.
FileError ==
    IF Member.size > MaxFile \/ charged + Member.size > MaxTotal \/ entries + 1 > MaxFiles
    THEN "too_large"
    ELSE IF JoinError(Name) # "none" THEN JoinError(Name)
    ELSE IF Joined(Name) \in dirs \/ Above(Joined(Name)) \cap DOMAIN files # {} THEN "refused"
    ELSE "none"

OpenFile ==
    /\ Member.type = "file"
    /\ IF FileError # "none" THEN Return(FileError)
       ELSE /\ Open(Member.size, 1, NoName)
            /\ files' = [p \in DOMAIN files \cup {Joined(Name)} |->
                           IF p = Joined(Name) THEN 0 ELSE files[p]]
            /\ dirs' = dirs \cup Above(Joined(Name))

\* A directory counts as an entry, and what its header says follows it is read past.
DirError == IF entries + 1 > MaxFiles THEN "too_large" ELSE JoinError(Name)

OpenDir ==
    /\ Member.type = "dir"
    /\ IF DirError # "none" THEN Return(DirError)
       ELSE Open(0, 1, NoName) /\ UNCHANGED disk

\* A long name (or a PAX header, which may hold none) names the next member; a
\* global header and a member of another type are read past.
OpenName ==
    /\ Member.type = "name"
    /\ IF Member.size > MaxMeta THEN Return("too_large")
       ELSE Open(0, 0, IF Member.name # NoName THEN Member.name ELSE pending) /\ UNCHANGED disk

OpenSkipped ==
    /\ Member.type \in {"global", "other"}
    /\ Open(0, 0, IF Member.type = "other" THEN NoName ELSE pending) /\ UNCHANGED disk

NextMember ==
    /\ stage = "extract"
    /\ \/ cancel /\ Return("cancelled")
       \/ ~cancel /\ next <= Len(Tar.members)
          /\ \/ OpenFile \/ OpenDir \/ OpenName \/ OpenSkipped
             \/ Member.type = "link" /\ Return("refused")
       \/ /\ ~cancel /\ next > Len(Tar.members)
          /\ stage' = "snapshot"
          /\ UNCHANGED <<sha, served, received, disk>> /\ Stay /\ Reading

\* Variant: the flag is looked at between members only.
ChunkAnyway == left > 0
\* `cancel` is consulted before every chunk of a body.
MayRead == left > 0 /\ ~cancel

StreamChunk ==
    LET n == IF left < Chunk THEN left ELSE Chunk
    IN  /\ stage = "member"
        /\ \/ left > 0 /\ cancel /\ Return("cancelled")
           \/ MayRead /\ Tar.severed = next /\ Return("refused")
           \/ MayRead /\ Tar.severed # next /\ charged + n > MaxTotal /\ Return("too_large")
           \/ /\ MayRead /\ Tar.severed # next /\ charged + n <= MaxTotal
              /\ left' = left - n
              /\ charged' = charged + n
              /\ files' = IF Member.type = "file" THEN [files EXCEPT ![target] = @ + n] ELSE files
              /\ UNCHANGED <<stage, sha, served, received, next, target, entries, pending, dirs,
                             snap>>
              /\ Stay

\* The last byte of a member is behind; a directory is created only now.
EndMember ==
    LET made == IF Member.type = "dir" THEN Above(target) \cup {target} ELSE {}
    IN  /\ stage = "member" /\ left = 0
        /\ IF made \cap DOMAIN files # {} THEN Return("refused")
           ELSE /\ next' = next + 1
                /\ stage' = "extract"
                /\ dirs' = dirs \cup made
                /\ UNCHANGED <<sha, served, received, left, target, charged, entries, pending,
                               files, snap>>
                /\ Stay

(*****************************************************************************)
(* The snapshot: the walk counts again, and opens no sensitive file.          *)
(*****************************************************************************)
Snapshot ==
    /\ stage = "snapshot"
    /\ IF Cardinality(DOMAIN files) > MaxFiles \/ Bytes > MaxTotal THEN Return("too_large")
       ELSE /\ snap' = [commit |-> sha, count |-> Cardinality(DOMAIN files), size |-> Bytes,
                        directories |-> dirs \ {NoName},
                        manifests |-> {p \in DOMAIN files : Manifest(p)},
                        sensitive |-> {p \in DOMAIN files : Sensitive(p)},
                        opened |-> {p \in DOMAIN files : ~Sensitive(p)}]
            /\ stage' = "done"
            /\ outcome' = "fetched"
            /\ UNCHANGED <<repo, head, pushes, request, cancel, sha, served, received, next, left,
                           target, charged, entries, pending, disk>>

\* The pipeline is through with the tree and drops its handle.
Release ==
    /\ stage = "done" /\ outcome = "fetched" /\ dirs # {}
    /\ files' = NoFile
    /\ dirs' = {}
    /\ UNCHANGED <<stage, sha, served, received>> /\ Stay /\ Reading

(*****************************************************************************)
(* The user, the outside, and the caller that stops waiting.                  *)
(*****************************************************************************)
Cancelled ==
    /\ ~cancel /\ stage # "done"
    /\ cancel' = TRUE
    /\ UNCHANGED <<repo, head, pushes, request, stage, outcome, sha, served, received, disk>>
    /\ Reading

Push ==
    /\ pushes < MaxPushes /\ stage # "done"
    /\ pushes' = pushes + 1
    /\ head' \in Shas \ {head}
    /\ UNCHANGED <<repo, request, stage, outcome, cancel, sha, served, received, disk>>
    /\ Reading

Dropped == stage \in {"access", "head", "download", "body"} /\ Return("dropped")

Next ==
    \/ Start \/ HttpFails \/ (\E status \in {401, 403, 404, 429, 500} : Refused(status))
    \/ Access \/ ResolveHead \/ Download \/ ReadBounded
    \/ NextMember \/ StreamChunk \/ EndMember \/ Snapshot \/ Release
    \/ Cancelled \/ Push \/ Dropped

Spec == Init /\ [][Next]_vars

(*****************************************************************************)
(* Properties.                                                                *)
(*****************************************************************************)
\* The tree a commit holds, read off its archive as a whole: a member is named by
\* the last name header before it that no other member used up, and the last
\* member of a name wins.
NameAt(members, k) ==
    LET used(l) == members[l].type \in {"file", "dir", "other"}
        named == {j \in 1 .. k - 1 : /\ members[j].type = "name" /\ members[j].name # NoName
                                     /\ \A l \in j + 1 .. k - 1 : ~used(l)}
    IN  Joined(IF named = {} THEN members[k].name ELSE members[Max(named)].name)

TreeOf(archive) ==
    LET of(type) == {k \in 1 .. Len(archive.members) : archive.members[k].type = type}
        at(p) == {k \in of("file") : NameAt(archive.members, k) = p}
        paths == {NameAt(archive.members, k) : k \in of("file")}
        folders == {NameAt(archive.members, k) : k \in of("dir")}
    IN  [files |-> [p \in paths |-> archive.members[Max(at(p))].size],
         dirs |-> {NoName} \cup folders \cup UNION {Above(p) : p \in paths \cup folders}]

\* A fetch that succeeds leaves the tree of one commit, the one it names and the
\* one that was asked for if one was, although the branch may move between the
\* requests; and the snapshot describes that tree and no other
\* (fetch_repo_with_cancel, extract_tarball_with_cancel, snapshot_repo).
TreeIsTheCommit ==
    stage = "done" /\ outcome = "fetched" /\ dirs # {} =>
        /\ [files |-> files, dirs |-> dirs] = TreeOf(repo[snap.commit])
        /\ request.pin \in Shas => snap.commit = request.pin
        /\ snap.count = Cardinality(DOMAIN files) /\ snap.size = Bytes
        /\ snap.directories = dirs \ {NoName}
        /\ snap.opened = {p \in DOMAIN files : p \notin snap.sensitive}

\* At no moment, whatever the archive and its headers say, does the disk hold more
\* files, more bytes, or a larger file than the ceilings allow, or does memory hold
\* a larger download (read_bounded, charge, the checks of a member's header).
FetchIsBounded ==
    /\ received <= MaxDownload
    /\ Cardinality(DOMAIN files) <= MaxFiles
    /\ Bytes <= MaxTotal
    /\ \A p \in DOMAIN files : files[p] <= MaxFile

\* However the phase ends, unless it succeeds, nothing of it is left on disk; and
\* nothing outside the root was written meanwhile (TempDirGuard, safe_join).
NothingIsLeft ==
    /\ stage = "done" /\ outcome # "fetched" => DOMAIN files = {} /\ dirs = {}
    /\ \A p \in DOMAIN files \cup dirs : \A k \in 1 .. Len(p) : p[k] \notin {"..", "/", "."}
    /\ \A p \in DOMAIN files \cup dirs : Above(p) \subseteq dirs

\* Once the flag is set, not one more byte is taken from the network or written to
\* disk (the checks of read_bounded and stream_exact).
CancelStops == [][cancel => received' <= received /\ Bytes' <= Bytes]_vars

\* "Ceiling on total uncompressed bytes extracted": an archive whose bytes are within
\* it, and within every other ceiling, is not refused for its size. It is: the bytes
\* of a file are charged by its header and once more by stream_exact.
Fits(archive) ==
    /\ archive.declared <= MaxDownload /\ archive.packed <= MaxDownload
    /\ Len(archive.members) <= MaxFiles
    /\ \A k \in 1 .. Len(archive.members) :
          LET member == archive.members[k]
          IN  /\ member.size <= IF member.type = "name" THEN MaxMeta ELSE MaxFile
              /\ Len(member.name) <= MaxParts /\ "long" \notin ToSet(member.name)
    /\ FoldLeft(LAMBDA sum, member : sum + member.size, 0, archive.members) <= MaxTotal
WithinCeilingsIsNotTooLarge == outcome = "too_large" => ~Fits(Tar)
===============================================================================
