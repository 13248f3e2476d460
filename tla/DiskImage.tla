----------------------------- MODULE DiskImage -----------------------------
(***************************************************************************)
(* One disk image that BuildDiskImageBase.process() makes again and again  *)
(* (projects/disk_image.py), and the manifest it is made from (mtree.py).  *)
(* Between the runs the user edits the extra-files directory and rebuilds  *)
(* the rootfs; a run may fail, and be killed, at any point.                *)
(***************************************************************************)
EXTENDS Naturals, Sequences, SequencesExt

CONSTANTS
  File,            \* paths of the image, the host key's aside
  Generated,       \* those that get a default, as etc/fstab
  IfInstalled,     \* those whose default extends the rootfs', as kyua.conf
  Entropy,         \* those that are filled with random bytes
  AutoPrefixed,    \* those under auto_prefixes, as usr/local/
  Listed,          \* those that a minimal image must have, as in the *.files lists
  Optional,        \* those that it has if METALOG does, as what is under boot/
  Boxable,         \* those that cheribsdbox.mtree may list, links to cheribsdbox
  Box, Loader,     \* bin/cheribsdbox, boot/loader.efi
  AuthorizedKeys, Gdb, LocalGdb,  \* /root/.ssh/..., usr/bin/gdb, usr/local/bin/gdb
  Extras,          \* what the user may have of each in extra-files
  Installs,        \* how the rootfs may have each
  Kinds,           \* the kinds of image
  MaxKeys          \* bound on the host keys that differ

Extra == {"none", "file", "dangling"}     \* dangling: a link to nowhere
Installed == {"none", "unlisted", "listed"}  \* listed: in METALOG
Layouts == {"rootfs only", "x86", "gpt", "riscv"}  \* riscv: gpt, perhaps without EFI

ASSUME ImageAssumption ==
  /\ Generated \cup IfInstalled \cup Entropy \cup AutoPrefixed \cup Listed
       \cup Optional \cup Boxable \cup {AuthorizedKeys, Gdb, LocalGdb, Box, Loader}
       \subseteq File
  /\ AuthorizedKeys \notin Generated \cup IfInstalled \cup Entropy
  /\ Entropy \cap (Generated \cup IfInstalled) = {}
  /\ Extras \in [File -> (SUBSET Extra) \ {{}}]
  /\ Installs \in [File -> (SUBSET Installed) \ {{}}]
  /\ Kinds \subseteq [minimal: BOOLEAN, layout: Layouts, qcow2: BOOLEAN,
               strip: BOOLEAN]
  /\ MaxKeys \in Nat \ {0, 1, 2}

VARIABLES
  extra,       \* the files in the extra-files directory
  key,         \* the two files of the host key in it, 0 if there is none
  rootfs,      \* the files in the rootfs
  box,         \* the files in its cheribsdbox.mtree
  kind,        \* the kind of the image
  disk,        \* the image and what is written on the way to it
  extraFiles,  \* self.extra_files: those not yet added
  mtree,       \* where the contents of each entry of the manifest come from
  todo,        \* the files that are still to be written, in order
  pc,
  lastKey,     \* the key of the last image, unless the user removed it since
  oldPublic    \* the user has removed a private key, and the public one is left

user == <<extra, key, rootfs, box, oldPublic>>
process == <<extraFiles, mtree, todo>>
vars == <<user, kind, disk, process, pc, lastKey>>

Output == {"image", "raw", "root", "efi"}
NoKey == [private |-> 0, public |-> 0]
NoFile == [f \in File |-> "none"]

Init ==
  /\ extra \in { e \in [File -> Extra] : \A f \in File : e[f] \in Extras[f] }
  /\ rootfs \in { r \in [File -> Installed] : \A f \in File : r[f] \in Installs[f] }
  /\ box \in SUBSET Boxable
  /\ key = NoKey
  /\ kind \in Kinds
  /\ disk = [o \in Output |-> "none"]
  /\ extraFiles = {}
  /\ mtree = NoFile
  /\ todo = <<>>
  /\ pc = "idle"
  /\ lastKey = NoKey
  /\ oldPublic = FALSE

-----------------------------------------------------------------------------
(* Between the runs.                                                       *)
EditExtraFiles(f) ==
  /\ pc = "idle"
  /\ \E e \in Extras[f] \ {extra[f]} : extra' = [extra EXCEPT ![f] = e]
  /\ UNCHANGED <<key, rootfs, box, kind, disk, process, pc, lastKey, oldPublic>>

RemoveHostKey(which) ==
  /\ pc = "idle"
  /\ key[which] # 0
  /\ key' = [key EXCEPT ![which] = 0]
  /\ lastKey' = NoKey
  /\ oldPublic' = (key'.public # 0 /\ (which = "private" \/ oldPublic))
  /\ UNCHANGED <<extra, rootfs, box, kind, disk, process, pc>>

InstallWorld(f) ==
  /\ pc = "idle"
  /\ \/ \E i \in Installs[f] \ {rootfs[f]} : rootfs' = [rootfs EXCEPT ![f] = i]
        /\ UNCHANGED box
     \/ f \in Boxable /\ box' = (box \cup {f}) \ (box \cap {f}) /\ UNCHANGED rootfs
  /\ UNCHANGED <<extra, key, kind, disk, process, pc, lastKey, oldPublic>>

(* An exception, a failed assertion or the end of the process: what it had *)
(* in memory, and in its temporary directory, is gone.                     *)
Abandon ==
  /\ pc' = "idle"
  /\ extraFiles' = {}
  /\ mtree' = NoFile
  /\ todo' = <<>>

AssertionFails == Abandon /\ UNCHANGED <<user, kind, disk, lastKey>>

-----------------------------------------------------------------------------
(* process() deletes an old image unless the user objects, in which case   *)
(* nothing happens at all.  prepare_rootfs() starts from METALOG, for a     *)
(* minimal image from cheribsdbox.mtree, and walks the extra files before  *)
(* it looks at any of them.                                                *)
Provided == { f \in File : extra[f] # "none" }

Begin ==
  /\ pc = "idle"
  /\ pc' = "prepare"
  /\ disk' = [disk EXCEPT !["image"] = "none"]
  /\ extraFiles' = Provided
  /\ mtree' = [f \in File |->
                 IF kind.minimal /\ f \in box THEN "box"
                 ELSE IF ~kind.minimal /\ rootfs[f] = "listed" THEN "world" ELSE "none"]
  /\ UNCHANGED <<user, kind, todo, lastKey>>

(* create_file_for_image(): a file of the user's is taken in place of the  *)
(* default; a dangling link is not, but is on the list of extra files all  *)
(* the same, which an assertion forbids.  Some of these files are created  *)
(* after the host keys; nothing in between looks at them.                  *)
Created == Generated \cup { f \in IfInstalled : rootfs[f] # "none" }

UserProvided(f) == extra[f] = "file"

CreateFiles ==
  /\ pc = "prepare"
  /\ IF \E f \in Created : ~UserProvided(f) /\ f \in extraFiles
     THEN AssertionFails
     ELSE /\ mtree' = [f \in File |->
                         IF f \notin Created THEN mtree[f]
                         ELSE IF UserProvided(f) THEN "user" ELSE "generated"]
          /\ extraFiles' = extraFiles \ Created
          /\ pc' = "host keys"
          /\ UNCHANGED <<user, kind, disk, todo, lastKey>>

(* A mutant of NeedsKey: nothing asks whether there is a key.              *)
NeedsKeyAlways == TRUE

(* generate_ssh_host_keys(), for one type of key.  ssh-keygen writes the   *)
(* private key first; it may be killed before it writes the public one.    *)
NeedsKey == key.private = 0

NewKey == CHOOSE k \in 1 .. MaxKeys : k \notin {key.private, key.public}

SshKeygen ==
  /\ pc = "host keys"
  /\ NeedsKey
  /\ key' = [key EXCEPT !.private = NewKey]
  /\ pc' = "public key"
  /\ UNCHANGED <<extra, rootfs, box, kind, disk, process, lastKey, oldPublic>>

SshKeygenEnds ==
  /\ pc = "public key"
  /\ key' = [key EXCEPT !.public = key.private]
  /\ oldPublic' = FALSE
  /\ pc' = "authorize"
  /\ UNCHANGED <<extra, rootfs, box, kind, disk, process, lastKey>>

AddHostKeys ==
  /\ pc = "host keys"
  /\ ~NeedsKey
  /\ pc' = "authorize"
  /\ UNCHANGED <<user, kind, disk, process, lastKey>>

(* The user's public keys, if there are any and the user agrees, and then  *)
(* perhaps for the runs to come.                                           *)
AddAuthorizedKeys ==
  /\ pc = "authorize"
  /\ ~UserProvided(AuthorizedKeys)
  /\ IF AuthorizedKeys \in extraFiles
     THEN AssertionFails
     ELSE /\ mtree' = [mtree EXCEPT ![AuthorizedKeys] = "generated"]
          /\ \/ UNCHANGED extra
             \/ extra' = [extra EXCEPT ![AuthorizedKeys] = "file"]
          /\ pc' = "entropy"
          /\ UNCHANGED <<key, rootfs, box, kind, disk, extraFiles, todo, lastKey,
                         oldPublic>>

NoAuthorizedKeys ==
  /\ pc = "authorize"
  /\ pc' = "entropy"
  /\ UNCHANGED <<user, kind, disk, process, lastKey>>

AddEntropy ==
  /\ pc = "entropy"
  /\ mtree' = [f \in File |-> IF f \in Entropy THEN "generated" ELSE mtree[f]]
  /\ pc' = "extra files"
  /\ UNCHANGED <<user, kind, disk, extraFiles, todo, lastKey>>

(* Back in process(): the extra files that are left.                       *)
AddExtraFiles ==
  /\ pc = "extra files"
  /\ mtree' = [f \in File |-> IF f \in extraFiles THEN "user" ELSE mtree[f]]
  /\ extraFiles' = {}
  /\ pc' = "unlisted"
  /\ UNCHANGED <<user, kind, disk, todo, lastKey>>

(* add_unlisted_files_to_metalog(), as it is for full images and as        *)
(* BuildMinimalCheriBSDDiskImage overrides it.                             *)
AutoAdded == { f \in AutoPrefixed : rootfs[f] # "none" }

AddUnlistedFiles ==
  /\ pc = "unlisted"
  /\ ~kind.minimal
  /\ \E agreed \in BOOLEAN :
       mtree' = [f \in File |->
                   IF \/ f \in AutoAdded
                      \/ (agreed /\ rootfs[f] # "none" /\ mtree[f] = "none")
                   THEN "rootfs" ELSE mtree[f]]
  /\ pc' = "gdb"
  /\ UNCHANGED <<user, kind, disk, extraFiles, todo, lastKey>>

(* A mutant of AddFromMtree: without the early return.                     *)
Overwritten(f) == "world"

AddFromMtree(f) == IF mtree[f] = "none" THEN "world" ELSE mtree[f]

(* A file that METALOG does not have is left out with a message (mtree.py   *)
(* calls fatal_error(pretend=True)); where it would be stripped, its        *)
(* attributes are looked up all the same, which raises an exception.       *)
Missing == { f \in Listed : mtree[f] = "none" /\ rootfs[f] # "listed" }

AddListedFiles ==
  /\ pc = "unlisted"
  /\ kind.minimal
  /\ IF kind.strip /\ Missing # {}
     THEN AssertionFails
     ELSE /\ mtree' = [f \in File |->
                         IF f \in Listed \cup Optional /\ rootfs[f] = "listed"
                         THEN AddFromMtree(f) ELSE mtree[f]]
          /\ pc' = "gdb"
          /\ UNCHANGED <<user, kind, disk, extraFiles, todo, lastKey>>

-----------------------------------------------------------------------------
(* make_disk_image(): the files that makefs, mkimg and qemu-img write, one *)
(* after the other.  The partitions are deleted by the finally clauses     *)
(* around the commands that write and read them.                           *)
(* A mutant of RawImage: a name of its own in both cases.                  *)
RawDefault == IF kind.qcow2 THEN "raw" ELSE "img"

RawImage == IF kind.qcow2 THEN "raw" ELSE "image"

IncludeEfiPartition ==
  \/ kind.layout = "gpt"
  \/ kind.layout = "riscv" /\ rootfs[Loader] # "none"

Partitions ==
  IF kind.layout = "rootfs only" THEN <<>>
  ELSE IF IncludeEfiPartition THEN <<"efi", "root">> ELSE <<"root">>

Outputs ==
  Partitions \o <<RawImage>> \o (IF kind.qcow2 THEN <<"image">> ELSE <<>>)

(* A mutant of Temporary: the raw image is kept.                           *)
PartitionsOnly(o) == ToSet(Partitions)

Temporary(o) ==
  IF o = "image" /\ kind.qcow2 THEN {"raw"} ELSE ToSet(Partitions)

(* add_gdb(): a link if there is one under usr/local/, or else a copy if   *)
(* there is one to copy.                                                   *)
AddGdb ==
  /\ pc = "gdb"
  /\ IF mtree[LocalGdb] # "none" /\ mtree[Gdb] # "none"
     THEN AssertionFails
     ELSE /\ mtree' = [mtree EXCEPT ![Gdb] = "gdb"]
          /\ todo' = Outputs
          /\ pc' = "write"
          /\ UNCHANGED <<user, kind, disk, extraFiles, lastKey>>

NoGdb ==
  /\ pc = "gdb"
  /\ todo' = Outputs
  /\ pc' = "write"
  /\ UNCHANGED <<user, kind, disk, extraFiles, mtree, lastKey>>

WritesRootfs(o) ==
  o = IF kind.layout = "rootfs only" THEN RawImage ELSE "root"

(* A minimal image without cheribsdbox is a fatal error before makefs.     *)
CommandStarts ==
  /\ pc = "write"
  /\ todo # <<>>
  /\ WritesRootfs(Head(todo)) /\ kind.minimal => mtree[Box] # "none"
  /\ disk' = [disk EXCEPT ![Head(todo)] = "partial"]
  /\ pc' = "writing"
  /\ UNCHANGED <<user, kind, process, lastKey>>

(* makefs reads the files that the manifest names.                         *)
ContentsExist == key.private # 0 /\ key.public # 0

Without(files, outputs) ==
  [o \in Output |-> IF o \in outputs THEN "none" ELSE files[o]]

CommandEnds ==
  /\ pc = "writing"
  /\ WritesRootfs(Head(todo)) => ContentsExist
  /\ LET o == Head(todo)
         written == [disk EXCEPT ![o] = "whole"]
     IN disk' = IF o \in {RawImage, "image"}
                THEN Without(written, Temporary(o)) ELSE written
  /\ todo' = Tail(todo)
  /\ pc' = "write"
  /\ UNCHANGED <<user, kind, extraFiles, mtree, lastKey>>

(* All of it has been written.                                             *)
Made == pc = "write" /\ todo = <<>>

Return ==
  /\ Made
  /\ Abandon
  /\ lastKey' = key
  /\ UNCHANGED <<user, kind, disk>>

(* A command fails: an exception goes through the finally clauses.         *)
Fail ==
  /\ pc # "idle"
  /\ ~Made
  /\ Abandon
  /\ disk' = IF pc \in {"write", "writing"} /\ RawImage \in ToSet(todo)
             THEN Without(disk, ToSet(Partitions)) ELSE disk
  /\ UNCHANGED <<user, kind, lastKey>>

(* The process is killed.                                                  *)
Crash ==
  /\ pc # "idle"
  /\ Abandon
  /\ UNCHANGED <<user, kind, disk, lastKey>>

Next ==
  \/ \E f \in File : EditExtraFiles(f) \/ InstallWorld(f)
  \/ \E which \in {"private", "public"} : RemoveHostKey(which)
  \/ Begin
  \/ CreateFiles
  \/ SshKeygen
  \/ SshKeygenEnds
  \/ AddHostKeys
  \/ AddAuthorizedKeys
  \/ NoAuthorizedKeys
  \/ AddEntropy
  \/ AddExtraFiles
  \/ AddUnlistedFiles
  \/ AddListedFiles
  \/ AddGdb
  \/ NoGdb
  \/ CommandStarts
  \/ CommandEnds
  \/ Return
  \/ Fail
  \/ Crash

Spec == Init /\ [][Next]_vars

-----------------------------------------------------------------------------
Source == {"none", "world", "box", "rootfs", "user", "generated", "gdb"}

(* The ranges of the variables.                                            *)
TypeOK ==
  /\ extra \in [File -> Extra]
  /\ {key, lastKey} \subseteq [private: 0 .. MaxKeys, public: 0 .. MaxKeys]
  /\ rootfs \in [File -> Installed]
  /\ box \subseteq Boxable
  /\ oldPublic \in BOOLEAN
  /\ kind \in Kinds
  /\ disk \in [Output -> {"none", "partial", "whole"}]
  /\ extraFiles \subseteq File
  /\ mtree \in [File -> Source]
  /\ todo \in Seq(Output) /\ Len(todo) <= 4
  /\ pc \in {"idle", "prepare", "host keys", "public key", "authorize",
             "entropy", "extra files", "unlisted", "gdb", "write", "writing"}

(* A file of the user's is in the image, or becomes it for later runs.     *)
FromUser(f) ==
  \/ mtree[f] = "user"
  \/ f = AuthorizedKeys /\ mtree[f] = "generated"

(* Where the code prefers another file to the user's.                      *)
Overridden(f) ==
  \/ ~kind.minimal /\ f \in AutoAdded
  \/ mtree[f] = "gdb"

(* An image that has been made holds the user's files in place of the      *)
(* defaults and of those of the rootfs (but for those that Overridden      *)
(* names), every default, and every file of the rootfs that METALOG lists  *)
(* and that is wanted.  A minimal one that is stripped has all that must   *)
(* be there.  "The base input is only cheribsdbox and all the symlinks":   *)
(* no other file of the rootfs gets into it unasked, and none replaces     *)
(* what cheribsdbox stands for.                                            *)
ContentsAreWanted ==
  Made => \A f \in File :
    /\ extra[f] # "none" => FromUser(f) \/ Overridden(f)
    /\ f \in Created \cup Entropy => mtree[f] \in {"user", "generated"} \/ Overridden(f)
    /\ rootfs[f] = "listed" /\ (kind.minimal => f \in Listed \cup Optional)
         => mtree[f] # "none"
    /\ kind.minimal =>
         /\ f \in Listed /\ kind.strip => mtree[f] # "none"
         /\ mtree[f] # "rootfs"
         /\ mtree[f] = "world" => f \in (Listed \cup Optional) \ box
         /\ f \in box => mtree[f] # "none"
         /\ mtree[Box] # "none"

(* "make sure that the disk image always has the same SSH host keys": an   *)
(* image that has been made has both files of a key, and those that the    *)
(* last image had unless the user has removed one, though runs were killed *)
(* while they made the key.  They are the files of one key, unless the     *)
(* user has removed a private key and left the public one, which a killed  *)
(* ssh-keygen leaves next to a new private key.                            *)
HostKeysAreKept ==
  Made =>
    /\ ContentsExist
    /\ lastKey \in {NoKey, key}
    /\ key.private = key.public \/ oldPublic

(* A run that succeeds leaves a whole image and nothing that was written   *)
(* on the way to it, whatever earlier runs that failed or were killed have *)
(* left: but for an EFI partition if this image, by now, needs none.       *)
OnlyTheImageIsLeft ==
  Made => \A o \in Output :
    \/ disk[o] = (IF o = "image" THEN "whole" ELSE "none")
    \/ o = "efi" /\ kind.layout = "riscv" /\ rootfs[Loader] = "none"

(* "Additionally, all other files in the extra-files directory will be     *)
(* added to the disk image".                                               *)
ExtraFilesAreAdded == Made => \A f \in File : extra[f] # "none" => FromUser(f)
=============================================================================
