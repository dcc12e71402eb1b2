-------------------------- MODULE BackupProviders --------------------------
(***************************************************************************)
(* The three backup providers (cloudbackup/provider/{sftp,webdav,s3}), the *)
(* guard that every connection of theirs passes (netguard) and the way a   *)
(* run uses them: upload, list, delete what exceeds the retention          *)
(* (runner.go RunOnce and prune).  CloudBackup models the run's rows; this *)
(* module models the remote folder, of which a run sees only what the      *)
(* provider tells it.                                                      *)
(*                                                                         *)
(* The folder belongs to the user, who keeps files of his own in it.  A    *)
(* transfer may break at any point, the clean-up after it may fail too,    *)
(* the process may die, and a host name may resolve to another address on  *)
(* every connection.                                                       *)
(***************************************************************************)
EXTENDS Integers, Sequences, FiniteSets, SequencesExt

CONSTANTS
    Kinds,          \* the providers under test
    Addresses,      \* what the host name may resolve to: [form, v4]
    Settings,       \* destination configs: [complete, pinned, acceptAny, scheme, allowInsecure]
    AllowPrivate,   \* BACKUP_ALLOW_PRIVATE_NETWORKS
    Retention,      \* RetentionCount
    OwnFiles,       \* what the user may put there: plain, hidden or directory
    MaxRuns         \* uploads tried

VARIABLES
    kind, cfg,      \* the destination's provider and its config
    folder,         \* the remote folder, oldest change first: [name, type, whole]
    phase,          \* where the run is
    listed,         \* the listing a run prunes by
    doomed,         \* the paths it has still to delete
    result,         \* what the last Upload returned
    runs,           \* uploads tried
    reached         \* the address and server of the open connection

providerVars == <<kind, cfg, folder, phase, listed, doomed, result, runs, reached>>

NoConn == [form |-> "none", v4 |-> "none", key |-> "none", clear |-> FALSE]

-----------------------------------------------------------------------------
(* netguard.                                                               *)

\* The IPv4 address inside an IPv6 one: mapped, NAT64 or compatible.
embeddedIPv4(a) == IF a.form \in {"mapped", "nat64", "compatible"} THEN a.v4 ELSE "none"

blockedAlways == {"loopback", "unspecified", "linklocal", "multicast", "reserved"}

\* blockedReason: an address is judged by its class, and by that of the IPv4
\* address inside it.
blocked(a) ==
    LET class == IF embeddedIPv4(a) # "none" THEN embeddedIPv4(a) ELSE a.v4
    IN  class \in blockedAlways \/ (~AllowPrivate /\ class = "private")

-----------------------------------------------------------------------------
(* Configuration and errors.                                               *)

\* parseConfig: what is refused before any connection is made.  SFTP needs
\* the host key's fingerprint, WebDAV https, unless the user waived it.
parseSFTP(c) == c.complete /\ (c.acceptAny \/ c.pinned # "none")
parseWebDAV(c) == c.complete /\ (c.scheme = "https" \/ (c.allowInsecure /\ c.scheme = "http"))
parseS3(c) == c.complete

\* normalizeEndpoint: S3 takes a plain http endpoint as it is given.
plaintextS3(c) == c.scheme = "http"

parseConfig(k, c) ==
    CASE k = "sftp" -> parseSFTP(c) [] k = "webdav" -> parseWebDAV(c) [] k = "s3" -> parseS3(c)

\* classifyError: the sentinel a provider wraps a failure in.  SFTP goes by
\* the message, WebDAV by the status, S3 by the response, so that there a
\* failure without any stays as it is.
classifySFTP(cause) ==
    CASE cause \in {"hostkey", "credentials"} -> "ErrInvalidCredentials"
      [] cause = "forbidden"   -> "ErrPermissionDenied"
      [] cause = "config"      -> "ErrInvalidConfig"
      [] cause = "broken"      -> "ErrTransient"

classifyWebDAV(cause) ==
    CASE cause = "credentials" -> "ErrInvalidCredentials"
      [] cause = "forbidden"   -> "ErrPermissionDenied"
      [] cause = "config"      -> "ErrInvalidConfig"
      [] cause = "broken"      -> "ErrTransient"

classifyS3(cause) ==
    CASE cause = "credentials" -> "ErrInvalidCredentials"
      [] cause = "forbidden"   -> "ErrPermissionDenied"
      [] cause = "config"      -> "ErrInvalidConfig"
      [] cause = "broken"      -> "unclassified"

classifyError(k, cause) ==
    CASE k = "sftp" -> classifySFTP(cause) [] k = "webdav" -> classifyWebDAV(cause)
      [] k = "s3" -> classifyS3(cause)

\* buildHostKeyCallback: the server's key must be the pinned one.
hostKeyOK(c, key) == c.acceptAny \/ key = c.pinned

\* Control: the guard judges the address a dial has resolved to, each time anew.
Control(a) == ~blocked(a)

-----------------------------------------------------------------------------
(* Upload.                                                                 *)

Fail(cause) ==
    /\ result' = classifyError(kind, cause) /\ phase' = "idle" /\ reached' = NoConn

\* What a dial may find: an address the name resolves to now, and there a
\* server with a host key, which only SFTP looks at.
Servers == {[form |-> a.form, v4 |-> a.v4, key |-> key,
             clear |-> CASE kind = "sftp" -> FALSE
                         [] kind = "webdav" -> cfg.scheme = "http"
                         [] kind = "s3" -> plaintextS3(cfg)] :
            a \in Addresses, key \in IF kind = "sftp" THEN {"good", "other"} ELSE {"none"}}

\* connect / newClient, which Upload, List and every Delete call anew: the
\* cause of its failure, or none; a login, or the line, may fail in any case.
dialled(c) == IF ~Control(c) THEN "broken"
              ELSE IF kind = "sftp" /\ ~hostKeyOK(cfg, c.key) THEN "hostkey" ELSE "none"
connect(c) == parseConfig(kind, cfg) /\ dialled(c) = "none" /\ reached' = c

\* Upload begins.
Connect ==
    /\ phase = "idle" /\ runs < MaxRuns /\ runs' = runs + 1
    /\ \/ ~parseConfig(kind, cfg) /\ Fail("config")
       \/ \E c \in Servers :
            /\ parseConfig(kind, cfg)
            /\ \/ dialled(c) # "none" /\ Fail(dialled(c))
               \/ dialled(c) = "none" /\ (Fail("credentials") \/ Fail("broken"))
               \/ connect(c) /\ phase' = "open" /\ result' = "none"
    /\ UNCHANGED <<kind, cfg, folder, listed, doomed>>

Mine == <<"backup", runs>>
Without(f, n) == SelectSeq(f, LAMBDA e : e.name # n)
With(whole) == Append(Without(folder, Mine), [name |-> Mine, type |-> "plain", whole |-> whole])
Holds(n) == \E e \in ToSet(folder) : e.name = n

\* SFTP: mkdirAll and Create; from here on there is an empty file.
CreateFile ==
    /\ kind = "sftp" /\ phase = "open"
    /\ \/ Fail("forbidden") /\ UNCHANGED folder
       \/ phase' = "copy" /\ folder' = With(FALSE) /\ UNCHANGED <<result, reached>>
    /\ UNCHANGED <<kind, cfg, listed, doomed, runs>>

\* WebDAV: MkdirAll and one PUT.  The server may keep what it got of a PUT
\* that breaks, and nobody removes it.
WriteStream ==
    /\ kind = "webdav" /\ phase = "open"
    /\ \/ Fail("forbidden") /\ UNCHANGED folder
       \/ Fail("broken") /\ folder' \in {folder, With(FALSE)}
       \/ phase' = "prune" /\ result' = "ok" /\ folder' = With(TRUE) /\ reached' = NoConn
    /\ UNCHANGED <<kind, cfg, listed, doomed, runs>>

\* S3: PutObject stores an object whole or not at all.
PutObject ==
    /\ kind = "s3" /\ phase = "open"
    /\ \/ (Fail("forbidden") \/ Fail("broken")) /\ UNCHANGED folder
       \/ phase' = "prune" /\ result' = "ok" /\ folder' = With(TRUE) /\ reached' = NoConn
    /\ UNCHANGED <<kind, cfg, listed, doomed, runs>>

\* io.Copy and Close: what the server has not acknowledged by Close's return
\* may be missing, and any error sends the run to Remove.
Copy ==
    /\ phase = "copy"
    /\ \/ folder' = With(TRUE) /\ phase' = "prune" /\ result' = "ok" /\ reached' = NoConn
       \/ folder' \in {With(TRUE), folder} /\ phase' = "remove" /\ UNCHANGED <<result, reached>>
    /\ UNCHANGED <<kind, cfg, listed, doomed, runs>>

\* Remove after a failed transfer, whose own error is ignored.
Clean ==
    /\ phase = "remove"
    /\ folder' \in {Without(folder, Mine), folder}
    /\ Fail("broken")
    /\ UNCHANGED <<kind, cfg, listed, doomed, runs>>

-----------------------------------------------------------------------------
(* Retention.                                                              *)

\* List: the plain files of the folder, whoever wrote them.
listSFTP(f) == SelectSeq(f, LAMBDA e : e.type = "plain")
listWebDAV(f) == SelectSeq(f, LAMBDA e : e.type = "plain")

\* S3 knows no hidden files, only keys that end in "/".
listS3(f) == SelectSeq(f, LAMBDA e : e.type # "directory")

List(f) == CASE kind = "sftp" -> listSFTP(f) [] kind = "webdav" -> listWebDAV(f) [] kind = "s3" -> listS3(f)

\* The objects beyond the newest RetentionCount.
expired(l) == {l[i].name : i \in 1 .. Len(l) - Retention}

\* prune: list, over a connection of its own, and sort; a listing that fails
\* ends the run, with its upload.
Prune ==
    /\ phase = "prune"
    /\ \/ /\ listed' = List(folder) /\ doomed' = expired(List(folder))
          /\ phase' = "delete" /\ \E c \in Servers : connect(c)
       \/ phase' = "idle" /\ reached' = NoConn /\ UNCHANGED <<listed, doomed>>
    /\ UNCHANGED <<kind, cfg, folder, result, runs>>

\* Delete.  A server may refuse to; an object that is gone already is no
\* failure.
deleteSFTP(n) == kind = "sftp" /\ folder' \in {Without(folder, n), folder}
deleteWebDAV(n) == kind = "webdav" /\ folder' \in {Without(folder, n), folder}
deleteS3(n) == kind = "s3" /\ folder' \in {Without(folder, n), folder}

\* prune's loop: one object after the other, each over a connection of its
\* own, whether or not one fails.
Delete ==
    /\ phase = "delete"
    /\ \E n \in doomed :
          /\ doomed' = doomed \ {n}
          /\ \/ (\E c \in Servers : connect(c)) /\ (deleteSFTP(n) \/ deleteWebDAV(n) \/ deleteS3(n))
             \/ reached' = NoConn /\ UNCHANGED folder
    /\ UNCHANGED <<kind, cfg, phase, listed, result, runs>>

Done ==
    /\ phase = "delete" /\ doomed = {}
    /\ phase' = "idle" /\ listed' = <<>> /\ reached' = NoConn
    /\ UNCHANGED <<kind, cfg, folder, doomed, result, runs>>

-----------------------------------------------------------------------------
(* The world around the run.                                               *)

\* The process dies; what the server has, it keeps.
Crash ==
    /\ phase # "idle" /\ phase' = "idle" /\ listed' = <<>> /\ doomed' = {}
    /\ result' = "none" /\ reached' = NoConn
    /\ UNCHANGED <<kind, cfg, folder, runs>>

\* The user adds a file of his own or removes any file.
UserEdits ==
    /\ \/ \E o \in OwnFiles : ~Holds(o.name) /\ folder' = Append(folder, o)
       \/ \E e \in ToSet(folder) : phase # "idle" /\ folder' = Without(folder, e.name)
    /\ UNCHANGED <<kind, cfg, phase, listed, doomed, result, runs, reached>>

ProviderInit ==
    /\ kind \in Kinds /\ cfg \in Settings
    /\ folder = <<>> /\ phase = "idle" /\ listed = <<>> /\ doomed = {}
    /\ result = "none" /\ runs = 0 /\ reached = NoConn

ProviderNext == Connect \/ CreateFile \/ WriteStream \/ PutObject \/ Copy \/ Clean \/ Prune \/ Delete \/ Done \/ Crash \/ UserEdits

ProviderSpec == ProviderInit /\ [][ProviderNext]_providerVars

-----------------------------------------------------------------------------
(* Properties.                                                             *)

\* An upload reported as done is whole on the server for as long as it is
\* there, whatever breaks before, during and after it (Upload).
UploadMeansWhole ==
    result = "ok" => \A e \in ToSet(folder) : e.name = Mine => e.whole

\* What was listed and is newer than this file.
newerThan(e) == UNION {ToSet(SubSeq(listed, i + 1, Len(listed))) : i \in {i \in DOMAIN listed : listed[i] = e}}

\* Retention deletes a file only when RetentionCount newer files were listed,
\* never a directory or, on a file server, a hidden file, and never the backup
\* its own run has stored, unless the user has put so many files there since:
\* neither the leftovers of broken transfers nor what earlier runs failed to
\* delete push it out (runner.go prune, List).  Of older backups less is true:
\* NewestBackupsKept.
NewestKeptStep ==
    Delete =>
         \A e \in ToSet(folder) \ ToSet(folder') :
            /\ e.type # "directory"
            /\ kind # "s3" => e.type = "plain"
            /\ Cardinality(newerThan(e)) >= Retention
            /\ e.name = Mine => \A n \in newerThan(e) : n.name[1] # "backup"
NewestKept == [][NewestKeptStep]_providerVars

\* No connection, of an upload, a listing or a deletion, leads to an address
\* the guard rejects, in whatever form that address is written and however the
\* name resolves from one connection to the next; none of SFTP to a server
\* whose key is not the pinned one, and none of WebDAV to an address
\* configured without https, unless the user waived it (netguard Control,
\* parseConfig, connect).
ConnectionsVetted ==
    reached # NoConn =>
        /\ reached.v4 \notin blockedAlways
        /\ reached.v4 = "private" => AllowPrivate
        /\ kind = "sftp" => cfg.acceptAny \/ reached.key = cfg.pinned
        /\ kind = "webdav" /\ reached.clear => cfg.allowInsecure

\* What runner.go says of prune, "deletes the oldest backups so that at most
\* RetentionCount remain": hence a backup goes only when RetentionCount newer
\* backups are there.  The user's files and the leftovers of broken transfers
\* are counted as well, so that it does not hold.
NewestBackupsKept ==
    [][Delete => \A e \in ToSet(folder) \ ToSet(folder') :
          e.name[1] = "backup" /\ e.whole =>
             Cardinality({n \in newerThan(e) : n.name[1] = "backup" /\ n.whole}) >= Retention]_providerVars

\* The contract of provider.go: List returns "backups previously written by
\* NinerLog", by "the well-known filename convention"; hence retention never
\* deletes a file the user put there.
OnlyBackupsDeleted ==
    [][Delete => \A e \in ToSet(folder) \ ToSet(folder') : e.name[1] = "backup"]_providerVars

=============================================================================
