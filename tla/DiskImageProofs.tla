---------------------------- MODULE DiskImageProofs ----------------------------
(***************************************************************************)
(* The properties of DiskImage, for any files, any kinds of image and any  *)
(* number of keys.  What an image that has been made contains is followed  *)
(* from stage to stage of process(); what is on the disk, and which key    *)
(* the last image had, is also known of runs that fail or are killed.      *)
(***************************************************************************)
EXTENDS DiskImage, SequenceTheorems, TLAPS

Keys == [private: 0 .. MaxKeys, public: 0 .. MaxKeys]

Stages == {"idle", "prepare", "host keys", "public key", "authorize", "entropy",
           "extra files", "unlisted", "gdb", "write", "writing"}

Types ==
  /\ extra \in [File -> Extra]
  /\ key \in Keys /\ lastKey \in Keys
  /\ rootfs \in [File -> Installed]
  /\ box \subseteq Boxable
  /\ oldPublic \in BOOLEAN
  /\ kind \in Kinds
  /\ disk \in [Output -> {"none", "partial", "whole"}]
  /\ extraFiles \subseteq File
  /\ mtree \in [File -> Source]
  /\ pc \in Stages

(* The last image has the key that is there, and both of its files.  Two    *)
(* files that are not of one key are there only after the user has removed *)
(* a private one.                                                          *)
KeyIsKept ==
  /\ lastKey # NoKey => lastKey = key /\ key.private # 0
  /\ key.public = 0 \/ key.public = key.private \/ oldPublic
  /\ pc = "public key" => lastKey = NoKey

-----------------------------------------------------------------------------
(* The contents, stage by stage.                                           *)
BeforeEntropy == {"host keys", "public key", "authorize", "entropy"}
BeforeExtraFiles == {"prepare", "extra files"} \cup BeforeEntropy

(* Until the extra files are added, each is on the list or provided for.   *)
ExtraIsListed(f) == extra[f] # "none" => f \in extraFiles \/ FromUser(f)

(* What the code creates, and what is listed for a full image, is there.   *)
DefaultsAreThere(f) ==
  /\ pc # "prepare" /\ f \in Created => mtree[f] \in {"user", "generated"}
  /\ pc \notin {"prepare"} \cup BeforeEntropy /\ f \in Entropy
       => mtree[f] \in {"user", "generated"}
  /\ rootfs[f] = "listed" /\ ~kind.minimal => mtree[f] # "none"
  /\ kind.minimal => mtree[f] \notin {"world", "rootfs"}
  /\ kind.minimal /\ f \in box => mtree[f] # "none"

Preparation(f) ==
  /\ pc \in BeforeExtraFiles \cup {"unlisted"} =>
       ExtraIsListed(f) /\ DefaultsAreThere(f)
  /\ pc = "prepare" => mtree[f] \in {"none", "world", "box"}
  /\ pc \in BeforeEntropy /\ mtree[f] = "user" => f \in Created
  /\ pc = "unlisted" => f \notin extraFiles

(* What ContentsAreWanted says of a file, cheribsdbox's aside.             *)
Wanted(f) ==
  /\ extra[f] # "none" => FromUser(f) \/ Overridden(f)
  /\ f \in Created \cup Entropy => mtree[f] \in {"user", "generated"} \/ Overridden(f)
  /\ rootfs[f] = "listed" /\ (kind.minimal => f \in Listed \cup Optional)
       => mtree[f] # "none"
  /\ kind.minimal =>
       /\ f \in Listed /\ kind.strip => mtree[f] # "none"
       /\ mtree[f] # "rootfs"
       /\ mtree[f] = "world" => f \in (Listed \cup Optional) \ box
       /\ f \in box => mtree[f] # "none"

Contents ==
  \A f \in File :
    /\ Preparation(f)
    /\ pc \in {"gdb", "write", "writing"} => Wanted(f)

-----------------------------------------------------------------------------
(* The files on the disk.                                                  *)
FromImage == IF kind.qcow2 THEN <<"image">> ELSE <<>>
FromRaw == <<RawImage>> \o FromImage
FromRoot == <<"root">> \o FromRaw

(* What is left to write is an end of Outputs.                             *)
Ends ==
  {<<>>, FromImage, FromRaw}
    \cup (IF kind.layout = "rootfs only" THEN {} ELSE {FromRoot})
    \cup (IF kind.layout \in {"gpt", "riscv"} THEN {<<"efi">> \o FromRoot} ELSE {})

(* The files that a kind of image has.                                     *)
Mine(o) ==
  \/ o = "image"
  \/ o = "raw" /\ kind.qcow2
  \/ o = "root" /\ kind.layout # "rootfs only"
  \/ o = "efi" /\ kind.layout \in {"gpt", "riscv"}

(* The image could have an EFI partition, but not with this rootfs.        *)
NoEfi == kind.layout = "riscv" /\ rootfs[Loader] = "none"

Writing == pc \in {"write", "writing"}

(* The rootfs is in a file that has been written.                          *)
RootfsIsWritten ==
  \/ todo \in {<<>>, FromImage}
  \/ kind.layout # "rootfs only" /\ todo = FromRaw

(* A minimal image's rootfs is not written without cheribsdbox.            *)
BoxIsThere ==
  kind.minimal =>
    /\ Writing /\ RootfsIsWritten => mtree[Box] # "none"
    /\ pc = "writing" /\ WritesRootfs(Head(todo)) => mtree[Box] # "none"

DiskIsKnown ==
  /\ \A o \in Output : disk[o] # "none" => Mine(o)
  /\ IF Writing THEN todo \in Ends ELSE todo = <<>>
  /\ pc = "writing" => todo # <<>>
  /\ Writing /\ todo \in {<<>>, FromImage}
       => disk["root"] = "none" /\ (disk["efi"] = "none" \/ NoEfi)
  /\ Made => disk["image"] = "whole" /\ disk["raw"] = "none"
  /\ Writing /\ todo \in {<<>>, FromImage} => ContentsExist
  /\ Writing /\ kind.layout # "rootfs only" /\ todo = FromRaw => ContentsExist
  /\ BoxIsThere

IInv == Types /\ KeyIsKept /\ Contents /\ DiskIsKnown

-----------------------------------------------------------------------------
(* What is left to write.                                                  *)

(* An element before a sequence: what it is, and what follows it.          *)
LEMMA InFront ==
  ASSUME NEW S, NEW a \in S, NEW s \in Seq(S)
  PROVE  /\ <<a>> \o s \in Seq(S)
         /\ Len(<<a>> \o s) = 1 + Len(s)
         /\ <<a>> \o s # <<>>
         /\ Head(<<a>> \o s) = a
         /\ Tail(<<a>> \o s) = s
<1>1. <<a>> \in Seq(S) /\ Len(<<a>>) = 1 /\ <<a>>[1] = a
  OBVIOUS
<1>2. /\ <<a>> \o s \in Seq(S)
      /\ Len(<<a>> \o s) = Len(<<a>>) + Len(s)
      /\ \A i \in 1 .. Len(<<a>>) + Len(s) :
           (<<a>> \o s)[i] = IF i <= Len(<<a>>) THEN <<a>>[i] ELSE s[i - Len(<<a>>)]
  BY <1>1, ConcatProperties
<1>3. Len(s) \in Nat /\ Len(<<a>> \o s) = 1 + Len(s)
  BY <1>1, <1>2
<1>4. <<a>> \o s # <<>>
  BY <1>3
<1>5. /\ Head(<<a>> \o s) = (<<a>> \o s)[1]
      /\ Tail(<<a>> \o s) \in Seq(S)
      /\ Len(Tail(<<a>> \o s)) = Len(<<a>> \o s) - 1
      /\ \A i \in 1 .. Len(Tail(<<a>> \o s)) : Tail(<<a>> \o s)[i] = (<<a>> \o s)[i + 1]
  BY <1>2, <1>4, HeadTailProperties
<1>6. (<<a>> \o s)[1] = a
  <2>1. 1 \in 1 .. Len(<<a>>) + Len(s)
    BY <1>1, <1>3
  <2> QED
    BY <2>1, <1>1, <1>2
<1>7. Len(Tail(<<a>> \o s)) = Len(s)
  BY <1>3, <1>5
<1>8. ASSUME NEW i \in 1 .. Len(s) PROVE Tail(<<a>> \o s)[i] = s[i]
  <2>1. i + 1 \in 1 .. Len(<<a>>) + Len(s) /\ ~(i + 1 <= Len(<<a>>))
    BY <1>1, <1>3
  <2>2. (i + 1) - Len(<<a>>) = i
    BY <1>1
  <2>3. (<<a>> \o s)[i + 1] = s[(i + 1) - Len(<<a>>)]
    BY <2>1, <1>2
  <2>4. Tail(<<a>> \o s)[i] = (<<a>> \o s)[i + 1]
    BY <1>5, <1>7
  <2> QED
    BY <2>2, <2>3, <2>4
<1>9. Tail(<<a>> \o s) = s
  BY <1>5, <1>7, <1>8, SeqEqual
<1> QED
  BY <1>2, <1>3, <1>4, <1>5, <1>6, <1>9

LEMMA KindIs ==
  ASSUME Types
  PROVE  /\ kind.minimal \in BOOLEAN
         /\ kind.qcow2 \in BOOLEAN
         /\ kind.strip \in BOOLEAN
         /\ kind.layout \in {"rootfs only", "x86", "gpt", "riscv"}
BY ImageAssumption DEF Types, Layouts

(* The ends of Outputs and their lengths.                                  *)
LEMMA TheEnds ==
  ASSUME Types
  PROVE  /\ RawImage \in Output
         /\ FromImage \in Seq(Output) /\ Len(FromImage) <= 1
         /\ FromRaw \in Seq(Output) /\ Len(FromRaw) = 1 + Len(FromImage)
         /\ FromRoot \in Seq(Output) /\ Len(FromRoot) = 1 + Len(FromRaw)
         /\ <<"efi">> \o FromRoot \in Seq(Output)
         /\ Len(<<"efi">> \o FromRoot) = 1 + Len(FromRoot)
         /\ \A s \in Ends : s \in Seq(Output) /\ Len(s) <= 4
<1>1. RawImage \in Output
  BY DEF RawImage, Output
<1>2. FromImage \in Seq(Output) /\ Len(FromImage) <= 1
  <2>1. <<"image">> \in Seq(Output) /\ Len(<<"image">>) = 1
    BY DEF Output
  <2>2. <<>> \in Seq(Output) /\ Len(<<>>) = 0
    OBVIOUS
  <2> QED
    BY <2>1, <2>2 DEF FromImage
<1>3. FromRaw \in Seq(Output) /\ Len(FromRaw) = 1 + Len(FromImage)
  BY <1>1, <1>2, InFront DEF FromRaw
<1>4. "root" \in Output /\ "efi" \in Output
  BY DEF Output
<1>5. FromRoot \in Seq(Output) /\ Len(FromRoot) = 1 + Len(FromRaw)
  BY <1>3, <1>4, InFront DEF FromRoot
<1>6. <<"efi">> \o FromRoot \in Seq(Output) /\ Len(<<"efi">> \o FromRoot) = 1 + Len(FromRoot)
  BY <1>4, <1>5, InFront
<1>7. ASSUME NEW s \in Ends PROVE s \in Seq(Output) /\ Len(s) <= 4
  <2>1. Len(FromImage) \in Nat
    BY <1>2
  <2>2. s \in {<<>>, FromImage, FromRaw, FromRoot, <<"efi">> \o FromRoot}
    BY DEF Ends
  <2>3. <<>> \in Seq(Output) /\ Len(<<>>) <= 4
    OBVIOUS
  <2>4. /\ Len(FromRaw) <= 4 /\ Len(FromRoot) <= 4
        /\ Len(<<"efi">> \o FromRoot) <= 4 /\ Len(FromImage) <= 4
    BY <2>1, <1>2, <1>3, <1>5, <1>6
  <2> QED
    BY <2>2, <2>3, <2>4, <1>2, <1>3, <1>5, <1>6
<1> QED
  BY <1>1, <1>2, <1>3, <1>5, <1>6, <1>7

(* All that a run writes is such an end.                                   *)
LEMMA OutputsAreAnEnd ==
  ASSUME Types
  PROVE  /\ Outputs \in Ends
         /\ Outputs \notin {<<>>, FromImage}
         /\ kind.layout # "rootfs only" => Outputs # FromRaw
<1>0. /\ Len(FromImage) \in Nat /\ Len(FromRaw) = 1 + Len(FromImage)
      /\ Len(FromRoot) = 2 + Len(FromImage)
      /\ Len(<<"efi">> \o FromRoot) = 3 + Len(FromImage)
      /\ Len(<<>>) = 0
  <2>1. Len(FromImage) \in Nat /\ Len(<<>>) = 0
    BY TheEnds
  <2> QED
    BY <2>1, TheEnds
<1>1. CASE kind.layout = "rootfs only"
  <2>1. Outputs = <<>> \o FromRaw
    <3>1. Partitions = <<>>
      BY <1>1 DEF Partitions
    <3>2. <<>> \o <<RawImage>> \o FromImage = <<>> \o (<<RawImage>> \o FromImage)
      BY TheEnds
    <3> QED
      BY <3>1, <3>2 DEF Outputs, FromRaw, FromImage
  <2>2. Outputs = FromRaw
    BY <2>1, TheEnds
  <2>3. FromRaw \in Ends
    BY DEF Ends
  <2>4. FromRaw # <<>> /\ FromRaw # FromImage
    BY <1>0
  <2> QED
    BY <2>2, <2>3, <2>4, <1>1
<1>2. CASE kind.layout = "x86" \/ NoEfi
  <2>1. Partitions = <<"root">> /\ kind.layout # "rootfs only"
    BY <1>2 DEF Partitions, IncludeEfiPartition, NoEfi
  <2>2. <<"root">> \o <<RawImage>> \o FromImage = <<"root">> \o (<<RawImage>> \o FromImage)
    BY TheEnds DEF Output
  <2>3. Outputs = FromRoot
    BY <2>1, <2>2 DEF Outputs, FromRoot, FromRaw, FromImage
  <2>4. FromRoot \in Ends
    BY <2>1 DEF Ends
  <2>5. FromRoot # <<>> /\ FromRoot # FromImage /\ FromRoot # FromRaw
    BY <1>0
  <2> QED
    BY <2>3, <2>4, <2>5
<1>3. CASE kind.layout \in {"gpt", "riscv"} /\ ~NoEfi
  <2>1. Partitions = <<"efi", "root">>
    BY <1>3 DEF Partitions, IncludeEfiPartition, NoEfi
  <2>2. <<"efi", "root">> \o <<RawImage>> \o FromImage
          = <<"efi">> \o (<<"root">> \o (<<RawImage>> \o FromImage))
    BY TheEnds DEF Output
  <2>3. Outputs = <<"efi">> \o FromRoot
    BY <2>1, <2>2 DEF Outputs, FromRoot, FromRaw, FromImage
  <2>4. <<"efi">> \o FromRoot \in Ends
    BY <1>3 DEF Ends
  <2>5. /\ <<"efi">> \o FromRoot # <<>> /\ <<"efi">> \o FromRoot # FromImage
        /\ <<"efi">> \o FromRoot # FromRaw
    BY <1>0
  <2> QED
    BY <2>3, <2>4, <2>5
<1> QED
  BY <1>1, <1>2, <1>3, KindIs

-----------------------------------------------------------------------------
(* What one action keeps.                                                  *)
LEMMA Initially ==
  ASSUME Init PROVE IInv
<1>1. Types
  <2>1. extra \in [File -> Extra] /\ rootfs \in [File -> Installed]
    BY DEF Init
  <2>2. NoKey \in Keys
    BY ImageAssumption DEF NoKey, Keys
  <2>3. NoFile \in [File -> Source]
    BY DEF NoFile, Source
  <2> QED
    BY <2>1, <2>2, <2>3 DEF Init, Types, Stages
<1>2. KeyIsKept
  BY DEF Init, KeyIsKept, NoKey
<1>3. Contents
  BY DEF Init, Contents, Preparation, BeforeExtraFiles, BeforeEntropy
<1>4. DiskIsKnown
  BY DEF Init, DiskIsKnown, Writing, Made, BoxIsThere
<1> QED
  BY <1>1, <1>2, <1>3, <1>4 DEF IInv

(* A run ends, in whatever way.                                            *)
LEMMA Abandoned ==
  ASSUME Types, KeyIsKept, Abandon, UNCHANGED <<user, kind>>, lastKey' \in Keys,
         lastKey' # NoKey => lastKey' = key /\ key.private # 0,
         disk' \in [Output -> {"none", "partial", "whole"}],
         \A o \in Output : disk'[o] # "none" => Mine(o)
  PROVE  IInv'
<1>1. Types'
  <2>1. NoFile \in [File -> Source]
    BY DEF NoFile, Source
  <2> QED
    BY <2>1 DEF Types, Abandon, user, Stages
<1>2. KeyIsKept'
  BY DEF KeyIsKept, Abandon, user
<1>3. Contents'
  BY DEF Abandon, Contents, Preparation, BeforeExtraFiles, BeforeEntropy
<1>4. DiskIsKnown'
  BY DEF Abandon, DiskIsKnown, Writing, Made, Mine, BoxIsThere
<1> QED
  BY <1>1, <1>2, <1>3, <1>4 DEF IInv

(* Nothing is written before the manifest is complete.                     *)
LEMMA NothingIsWritten ==
  ASSUME DiskIsKnown, ~Writing, ~Writing', UNCHANGED <<kind, disk, todo>>
  PROVE  DiskIsKnown'
BY DEF DiskIsKnown, Writing, Made, Mine, BoxIsThere

(* The user between the runs.                                              *)
LEMMA UserKeeps ==
  ASSUME IInv,
         \/ \E f \in File : EditExtraFiles(f) \/ InstallWorld(f)
         \/ \E which \in {"private", "public"} : RemoveHostKey(which)
  PROVE  IInv'
<1>1. /\ pc = "idle" /\ pc' = "idle"
      /\ UNCHANGED <<kind, disk, extraFiles, mtree, todo>>
  BY DEF EditExtraFiles, InstallWorld, RemoveHostKey, process
<1>2. /\ extra' \in [File -> Extra] /\ rootfs' \in [File -> Installed]
      /\ key' \in Keys /\ lastKey' \in Keys
      /\ box' \subseteq Boxable /\ oldPublic' \in BOOLEAN
      /\ lastKey' # NoKey => lastKey' = key' /\ key'.private # 0
      /\ key'.public = 0 \/ key'.public = key'.private \/ oldPublic'
  <2>1. CASE \E f \in File : EditExtraFiles(f)
    <3>1. PICK f \in File : EditExtraFiles(f)
      BY <2>1
    <3>2. Extras[f] \subseteq Extra
      BY ImageAssumption
    <3>3. extra' \in [File -> Extra] /\ UNCHANGED <<key, rootfs, box, lastKey, oldPublic>>
      BY <3>1, <3>2 DEF EditExtraFiles, IInv, Types
    <3> QED
      BY <3>3 DEF IInv, Types, KeyIsKept
  <2>2. CASE \E f \in File : InstallWorld(f)
    <3>1. PICK f \in File : InstallWorld(f)
      BY <2>2
    <3>2. Installs[f] \subseteq Installed
      BY ImageAssumption
    <3>3. /\ rootfs' \in [File -> Installed] /\ box' \subseteq Boxable
          /\ UNCHANGED <<extra, key, lastKey, oldPublic>>
      BY <3>1, <3>2 DEF InstallWorld, IInv, Types
    <3> QED
      BY <3>3 DEF IInv, Types, KeyIsKept
  <2>3. CASE \E which \in {"private", "public"} : RemoveHostKey(which)
    <3>1. PICK which \in {"private", "public"} : RemoveHostKey(which)
      BY <2>3
    <3>2. 0 \in 0 .. MaxKeys
      BY ImageAssumption
    <3>3. key' \in Keys /\ NoKey \in Keys
      BY <3>1, <3>2 DEF RemoveHostKey, IInv, Types, Keys, NoKey
    <3>4. oldPublic' \in BOOLEAN
      BY <3>1, Zenon DEF RemoveHostKey
    <3>5. key'.public = 0 \/ oldPublic'
      <4>1. CASE which = "private"
        BY <3>1, <4>1 DEF RemoveHostKey
      <4>2. CASE which = "public"
        BY <3>1, <3>2, <4>2 DEF RemoveHostKey, IInv, Types, Keys
      <4> QED
        BY <4>1, <4>2
    <3> QED
      BY <3>1, <3>3, <3>4, <3>5 DEF RemoveHostKey, IInv, Types
  <2> QED
    BY <2>1, <2>2, <2>3
<1>3. Contents'
  BY <1>1 DEF Contents, Preparation, BeforeExtraFiles, BeforeEntropy
<1>4. DiskIsKnown'
  BY <1>1, NothingIsWritten DEF IInv, Writing
<1>5. Types' /\ KeyIsKept'
  BY <1>1, <1>2 DEF IInv, Types, KeyIsKept
<1> QED
  BY <1>3, <1>4, <1>5 DEF IInv

LEMMA BeginKeeps ==
  ASSUME IInv, Begin PROVE IInv'
<1>1. Types'
  BY DEF IInv, Types, Begin, Provided, Source, user, Output, Stages
<1>2. KeyIsKept'
  BY DEF IInv, KeyIsKept, Begin, user
<1>3. Contents'
  <2> SUFFICES ASSUME NEW f \in File PROVE Preparation(f)'
    BY DEF Contents, Begin
  <2>1. mtree'[f] = IF kind.minimal /\ f \in box THEN "box"
                    ELSE IF ~kind.minimal /\ rootfs[f] = "listed" THEN "world" ELSE "none"
    BY DEF Begin
  <2>2. extra'[f] # "none" => f \in extraFiles'
    BY DEF Begin, Provided, user
  <2> QED
    BY <2>1, <2>2
    DEF Begin, user, Preparation, ExtraIsListed, DefaultsAreThere, BeforeExtraFiles,
        BeforeEntropy
<1>4. DiskIsKnown'
  <2>1. \A o \in Output : disk'[o] # "none" => disk[o] # "none"
    BY DEF Begin, IInv, Types
  <2>2. pc = "idle" /\ pc' = "prepare" /\ UNCHANGED <<kind, todo>>
    BY DEF Begin
  <2> QED
    BY <2>1, <2>2 DEF IInv, DiskIsKnown, Writing, Made, Mine, BoxIsThere
<1> QED
  BY <1>1, <1>2, <1>3, <1>4 DEF IInv

LEMMA AssertionFailsKeeps ==
  ASSUME IInv, AssertionFails PROVE IInv'
BY Abandoned DEF IInv, Types, KeyIsKept, DiskIsKnown, AssertionFails

LEMMA CreateFilesKeeps ==
  ASSUME IInv, CreateFiles PROVE IInv'
<1>1. CASE \E f \in Created : ~UserProvided(f) /\ f \in extraFiles
  <2>1. AssertionFails
    BY <1>1 DEF CreateFiles
  <2> QED
    BY <2>1, AssertionFailsKeeps
<1>2. CASE \A f \in Created : UserProvided(f) \/ f \notin extraFiles
  <2>1. /\ pc = "prepare" /\ pc' = "host keys"
        /\ mtree' = [f \in File |->
                       IF f \notin Created THEN mtree[f]
                       ELSE IF UserProvided(f) THEN "user" ELSE "generated"]
        /\ extraFiles' = extraFiles \ Created
        /\ UNCHANGED <<extra, key, rootfs, box, oldPublic, kind, disk, todo, lastKey>>
    BY <1>2 DEF CreateFiles, user
  <2>2. Types'
    BY <2>1 DEF IInv, Types, Source, Stages
  <2>3. KeyIsKept'
    BY <2>1 DEF IInv, KeyIsKept
  <2>4. Created' = Created
    BY <2>1 DEF Created
  <2>5. Contents'
    <3> SUFFICES ASSUME NEW f \in File PROVE Preparation(f)'
      BY <2>1 DEF Contents
    <3>1. mtree'[f] = IF f \notin Created THEN mtree[f]
                      ELSE IF extra[f] = "file" THEN "user" ELSE "generated"
      BY <2>1 DEF UserProvided
    <3>2. f \in Created /\ extra[f] # "file" => f \notin extraFiles
      BY <1>2 DEF UserProvided
    <3>3. ExtraIsListed(f) /\ DefaultsAreThere(f) /\ mtree[f] \in {"none", "world", "box"}
      BY <2>1 DEF IInv, Contents, Preparation, BeforeExtraFiles
    <3>4. ExtraIsListed(f)'
      BY <2>1, <3>1, <3>2, <3>3 DEF ExtraIsListed, FromUser
    <3>5. DefaultsAreThere(f)'
      BY <2>1, <2>4, <3>1, <3>3 DEF DefaultsAreThere, BeforeEntropy
    <3> QED
      BY <2>1, <2>4, <3>1, <3>3, <3>4, <3>5 DEF Preparation, BeforeEntropy
  <2>6. DiskIsKnown'
    BY <2>1, NothingIsWritten DEF IInv, Writing
  <2> QED
    BY <2>2, <2>3, <2>5, <2>6 DEF IInv
<1> QED
  BY <1>1, <1>2

(* The steps that touch neither the manifest nor the extra files.          *)
LEMMA ContentsAreKept ==
  ASSUME Contents, UNCHANGED <<extra, rootfs, box, kind, extraFiles, mtree>>,
         pc \in BeforeEntropy, pc' \in BeforeEntropy
  PROVE  Contents'
<1>1. Created' = Created
  BY DEF Created
<1>2. SUFFICES ASSUME NEW f \in File PROVE Preparation(f)'
  BY DEF Contents, BeforeEntropy
<1>3. Preparation(f)
  BY DEF Contents
<1> QED
  BY <1>1, <1>3
  DEF Preparation, ExtraIsListed, FromUser, DefaultsAreThere, BeforeExtraFiles, BeforeEntropy

LEMMA SshKeygenKeeps ==
  ASSUME IInv, SshKeygen PROVE IInv'
<1>1. /\ pc = "host keys" /\ pc' = "public key" /\ key.private = 0
      /\ key' = [key EXCEPT !.private = NewKey]
      /\ UNCHANGED <<extra, rootfs, box, oldPublic, kind, disk, extraFiles, mtree, todo, lastKey>>
  BY DEF SshKeygen, NeedsKey, process
<1>2. NewKey \in 1 .. MaxKeys
  <2>1. \E k \in 1 .. MaxKeys : k \notin {key.private, key.public}
    <3>1. MaxKeys \in Nat /\ MaxKeys >= 3
      BY ImageAssumption
    <3>2. 1 \in 1 .. MaxKeys /\ 2 \in 1 .. MaxKeys
      BY <3>1
    <3>3. key.private = 0
      BY <1>1
    <3>4. CASE key.public = 1
      <4>1. 2 \notin {key.private, key.public}
        BY <3>3, <3>4
      <4> QED
        BY <3>2, <4>1
    <3>5. CASE key.public # 1
      <4>1. 1 \notin {key.private, key.public}
        BY <3>3, <3>5
      <4> QED
        BY <3>2, <4>1
    <3> QED
      BY <3>4, <3>5
  <2> QED
    BY <2>1 DEF NewKey
<1>3. key' \in Keys
  <2>1. NewKey \in 0 .. MaxKeys
    BY <1>2, ImageAssumption
  <2> QED
    BY <2>1, <1>1 DEF IInv, Types, Keys
<1>4. Types'
  BY <1>1, <1>3 DEF IInv, Types, Stages
<1>5. KeyIsKept'
  BY <1>1 DEF IInv, Types, Keys, KeyIsKept
<1>6. Contents'
  BY <1>1, ContentsAreKept DEF IInv, BeforeEntropy
<1>7. DiskIsKnown'
  BY <1>1, NothingIsWritten DEF IInv, Writing
<1> QED
  BY <1>4, <1>5, <1>6, <1>7 DEF IInv

LEMMA SshKeygenEndsKeeps ==
  ASSUME IInv, SshKeygenEnds PROVE IInv'
<1>1. /\ pc = "public key" /\ pc' = "authorize"
      /\ key' = [key EXCEPT !.public = key.private] /\ oldPublic' = FALSE
      /\ UNCHANGED <<extra, rootfs, box, kind, disk, extraFiles, mtree, todo, lastKey>>
  BY DEF SshKeygenEnds, process
<1>2. key' \in Keys
  BY <1>1 DEF IInv, Types, Keys
<1>3. Types'
  BY <1>1, <1>2 DEF IInv, Types, Stages
<1>4. KeyIsKept'
  BY <1>1 DEF IInv, Types, Keys, KeyIsKept
<1>5. Contents'
  BY <1>1, ContentsAreKept DEF IInv, BeforeEntropy
<1>6. DiskIsKnown'
  BY <1>1, NothingIsWritten DEF IInv, Writing
<1> QED
  BY <1>3, <1>4, <1>5, <1>6 DEF IInv

(* There is a key already, or the user's keys are not wanted.              *)
LEMMA NoKeyIsAdded ==
  ASSUME IInv, AddHostKeys \/ NoAuthorizedKeys PROVE IInv'
<1>1. /\ pc \in {"host keys", "authorize"} /\ pc' \in {"authorize", "entropy"}
      /\ UNCHANGED <<extra, key, rootfs, box, oldPublic, kind, disk, extraFiles, mtree, todo, lastKey>>
  BY DEF AddHostKeys, NoAuthorizedKeys, process, user
<1>2. Types'
  BY <1>1 DEF IInv, Types, Stages
<1>3. KeyIsKept'
  BY <1>1 DEF IInv, KeyIsKept
<1>4. Contents'
  BY <1>1, ContentsAreKept DEF IInv, BeforeEntropy
<1>5. DiskIsKnown'
  BY <1>1, NothingIsWritten DEF IInv, Writing
<1> QED
  BY <1>2, <1>3, <1>4, <1>5 DEF IInv

LEMMA AddAuthorizedKeysKeeps ==
  ASSUME IInv, AddAuthorizedKeys PROVE IInv'
<1>1. CASE AuthorizedKeys \in extraFiles
  <2>1. AssertionFails
    BY <1>1 DEF AddAuthorizedKeys
  <2> QED
    BY <2>1, AssertionFailsKeeps
<1>2. CASE AuthorizedKeys \notin extraFiles
  <2>1. /\ pc = "authorize" /\ pc' = "entropy"
        /\ mtree' = [mtree EXCEPT ![AuthorizedKeys] = "generated"]
        /\ \/ extra' = extra
           \/ extra' = [extra EXCEPT ![AuthorizedKeys] = "file"]
        /\ UNCHANGED <<key, rootfs, box, oldPublic, kind, disk, extraFiles, todo, lastKey>>
    BY <1>2 DEF AddAuthorizedKeys
  <2>2. AuthorizedKeys \in File /\ AuthorizedKeys \notin Created
    BY ImageAssumption DEF Created
  <2>3. Types'
    <3>1. extra' \in [File -> Extra]
      BY <2>1, <2>2 DEF IInv, Types, Extra
    <3> QED
      BY <2>1, <3>1 DEF IInv, Types, Source, Stages
  <2>4. KeyIsKept'
    BY <2>1 DEF IInv, KeyIsKept
  <2>5. Created' = Created
    BY <2>1 DEF Created
  <2>6. Contents'
    <3> SUFFICES ASSUME NEW f \in File PROVE Preparation(f)'
      BY <2>1 DEF Contents
    <3>1. /\ mtree'[f] = IF f = AuthorizedKeys THEN "generated" ELSE mtree[f]
          /\ f # AuthorizedKeys => extra'[f] = extra[f]
      BY <2>1 DEF IInv, Types
    <3>2. /\ ExtraIsListed(f) /\ DefaultsAreThere(f)
          /\ mtree[f] = "user" => f \in Created
      BY <2>1 DEF IInv, Contents, Preparation, BeforeExtraFiles, BeforeEntropy
    <3>3. ExtraIsListed(f)'
      BY <2>1, <3>1, <3>2 DEF ExtraIsListed, FromUser
    <3>4. DefaultsAreThere(f)'
      BY <2>1, <2>2, <2>5, <3>1, <3>2 DEF DefaultsAreThere, BeforeEntropy
    <3> QED
      BY <2>1, <2>5, <3>1, <3>2, <3>3, <3>4 DEF Preparation, BeforeEntropy
  <2>7. DiskIsKnown'
    BY <2>1, NothingIsWritten DEF IInv, Writing
  <2> QED
    BY <2>3, <2>4, <2>6, <2>7 DEF IInv
<1> QED
  BY <1>1, <1>2

LEMMA AddEntropyKeeps ==
  ASSUME IInv, AddEntropy PROVE IInv'
<1>1. /\ pc = "entropy" /\ pc' = "extra files"
      /\ mtree' = [f \in File |-> IF f \in Entropy THEN "generated" ELSE mtree[f]]
      /\ UNCHANGED <<extra, key, rootfs, box, oldPublic, kind, disk, extraFiles, todo, lastKey>>
  BY DEF AddEntropy, user
<1>2. Types'
  BY <1>1 DEF IInv, Types, Source, Stages
<1>3. KeyIsKept'
  BY <1>1 DEF IInv, KeyIsKept
<1>4. Created' = Created
  BY <1>1 DEF Created
<1>5. Contents'
  <2> SUFFICES ASSUME NEW f \in File PROVE Preparation(f)'
    BY <1>1 DEF Contents
  <2>1. mtree'[f] = IF f \in Entropy THEN "generated" ELSE mtree[f]
    BY <1>1
  <2>2. /\ ExtraIsListed(f) /\ DefaultsAreThere(f)
        /\ mtree[f] = "user" => f \in Created
    BY <1>1 DEF IInv, Contents, Preparation, BeforeExtraFiles, BeforeEntropy
  <2>3. f \in Entropy => f \notin Created /\ f # AuthorizedKeys
    BY ImageAssumption DEF Created
  <2>4. ExtraIsListed(f)'
    BY <1>1, <2>1, <2>2, <2>3 DEF ExtraIsListed, FromUser
  <2>5. DefaultsAreThere(f)'
    BY <1>1, <1>4, <2>1, <2>2 DEF DefaultsAreThere, BeforeEntropy
  <2> QED
    BY <1>1, <2>4, <2>5 DEF Preparation, BeforeEntropy
<1>6. DiskIsKnown'
  BY <1>1, NothingIsWritten DEF IInv, Writing
<1> QED
  BY <1>2, <1>3, <1>5, <1>6 DEF IInv

LEMMA AddExtraFilesKeeps ==
  ASSUME IInv, AddExtraFiles PROVE IInv'
<1>1. /\ pc = "extra files" /\ pc' = "unlisted"
      /\ mtree' = [f \in File |-> IF f \in extraFiles THEN "user" ELSE mtree[f]]
      /\ extraFiles' = {}
      /\ UNCHANGED <<extra, key, rootfs, box, oldPublic, kind, disk, todo, lastKey>>
  BY DEF AddExtraFiles, user
<1>2. Types'
  BY <1>1 DEF IInv, Types, Source, Stages
<1>3. KeyIsKept'
  BY <1>1 DEF IInv, KeyIsKept
<1>4. Created' = Created
  BY <1>1 DEF Created
<1>5. Contents'
  <2> SUFFICES ASSUME NEW f \in File PROVE Preparation(f)'
    BY <1>1 DEF Contents
  <2>1. mtree'[f] = IF f \in extraFiles THEN "user" ELSE mtree[f]
    BY <1>1
  <2>2. ExtraIsListed(f) /\ DefaultsAreThere(f)
    BY <1>1 DEF IInv, Contents, Preparation, BeforeExtraFiles
  <2>3. ExtraIsListed(f)'
    BY <1>1, <2>1, <2>2 DEF ExtraIsListed, FromUser
  <2>4. DefaultsAreThere(f)'
    BY <1>1, <1>4, <2>1, <2>2 DEF DefaultsAreThere, BeforeEntropy
  <2> QED
    BY <1>1, <2>3, <2>4 DEF Preparation, BeforeExtraFiles, BeforeEntropy
<1>6. DiskIsKnown'
  BY <1>1, NothingIsWritten DEF IInv, Writing
<1> QED
  BY <1>2, <1>3, <1>5, <1>6 DEF IInv

(* What is known of a file once the extra files have been added.           *)
LEMMA BeforeUnlisted ==
  ASSUME IInv, pc = "unlisted", NEW f \in File
  PROVE  /\ extra[f] # "none" => FromUser(f)
         /\ f \in Created \cup Entropy => mtree[f] \in {"user", "generated"}
         /\ rootfs[f] = "listed" /\ ~kind.minimal => mtree[f] # "none"
         /\ kind.minimal => mtree[f] \notin {"world", "rootfs"}
         /\ kind.minimal /\ f \in box => mtree[f] # "none"
<1>1. Preparation(f)
  BY DEF IInv, Contents
<1> QED
  BY <1>1 DEF Preparation, ExtraIsListed, DefaultsAreThere, BeforeExtraFiles, BeforeEntropy

LEMMA AddUnlistedFilesKeeps ==
  ASSUME IInv, AddUnlistedFiles PROVE IInv'
<1>1. PICK agreed \in BOOLEAN :
        mtree' = [f \in File |->
                    IF \/ f \in AutoAdded
                       \/ (agreed /\ rootfs[f] # "none" /\ mtree[f] = "none")
                    THEN "rootfs" ELSE mtree[f]]
  BY DEF AddUnlistedFiles
<1>2. /\ pc = "unlisted" /\ pc' = "gdb" /\ ~kind.minimal
      /\ UNCHANGED <<extra, key, rootfs, box, oldPublic, kind, disk, extraFiles, todo, lastKey>>
  BY DEF AddUnlistedFiles, user
<1>3. Types'
  BY <1>1, <1>2 DEF IInv, Types, Source, Stages
<1>4. KeyIsKept'
  BY <1>2 DEF IInv, KeyIsKept
<1>5. Created' = Created /\ AutoAdded' = AutoAdded
  BY <1>2 DEF Created, AutoAdded
<1>6. Contents'
  <2> SUFFICES ASSUME NEW f \in File PROVE Wanted(f)'
    BY <1>2 DEF Contents, Preparation, BeforeExtraFiles, BeforeEntropy
  <2>1. \/ mtree'[f] = "rootfs" /\ (f \in AutoAdded \/ mtree[f] = "none")
        \/ mtree'[f] = mtree[f]
    BY <1>1
  <2>2. /\ extra[f] # "none" => FromUser(f)
        /\ f \in Created \cup Entropy => mtree[f] \in {"user", "generated"}
        /\ rootfs[f] = "listed" => mtree[f] # "none"
    BY <1>2, BeforeUnlisted
  <2> QED
    BY <1>2, <1>5, <2>1, <2>2 DEF Wanted, FromUser, Overridden
<1>7. DiskIsKnown'
  BY <1>2, NothingIsWritten DEF IInv, Writing
<1> QED
  BY <1>3, <1>4, <1>6, <1>7 DEF IInv

LEMMA AddListedFilesKeeps ==
  ASSUME IInv, AddListedFiles PROVE IInv'
<1>1. CASE kind.strip /\ Missing # {}
  <2>1. AssertionFails
    BY <1>1 DEF AddListedFiles
  <2> QED
    BY <2>1, AssertionFailsKeeps
<1>2. CASE ~(kind.strip /\ Missing # {})
  <2>1. /\ pc = "unlisted" /\ pc' = "gdb" /\ kind.minimal
        /\ mtree' = [f \in File |->
                       IF f \in Listed \cup Optional /\ rootfs[f] = "listed"
                       THEN AddFromMtree(f) ELSE mtree[f]]
        /\ UNCHANGED <<extra, key, rootfs, box, oldPublic, kind, disk, extraFiles, todo, lastKey>>
    BY <1>2 DEF AddListedFiles, user
  <2>2. Types'
    BY <2>1 DEF IInv, Types, Source, Stages, AddFromMtree
  <2>3. KeyIsKept'
    BY <2>1 DEF IInv, KeyIsKept
  <2>4. Created' = Created
    BY <2>1 DEF Created
  <2>5. Contents'
    <3> SUFFICES ASSUME NEW f \in File PROVE Wanted(f)'
      BY <2>1 DEF Contents, Preparation, BeforeExtraFiles, BeforeEntropy
    <3>1. mtree'[f] = IF /\ f \in Listed \cup Optional
                         /\ rootfs[f] = "listed" /\ mtree[f] = "none"
                      THEN "world" ELSE mtree[f]
      BY <2>1 DEF AddFromMtree
    <3>2. /\ extra[f] # "none" => FromUser(f)
          /\ f \in Created \cup Entropy => mtree[f] \in {"user", "generated"}
          /\ mtree[f] \notin {"world", "rootfs"}
          /\ f \in box => mtree[f] # "none"
      BY <2>1, BeforeUnlisted
    <3>3. f \in Listed /\ kind.strip => mtree[f] # "none" \/ rootfs[f] = "listed"
      BY <1>2 DEF Missing
    <3> QED
      BY <2>1, <2>4, <3>1, <3>2, <3>3 DEF Wanted, FromUser
  <2>6. DiskIsKnown'
    BY <2>1, NothingIsWritten DEF IInv, Writing
  <2> QED
    BY <2>2, <2>3, <2>5, <2>6 DEF IInv
<1> QED
  BY <1>1, <1>2

(* The manifest is complete: with a debugger, or as it is.                 *)
LEMMA WritingBegins ==
  ASSUME IInv, pc = "gdb", pc' = "write", todo' = Outputs, UNCHANGED <<kind, disk>>
  PROVE  DiskIsKnown'
<1>1. FromImage' = FromImage /\ FromRaw' = FromRaw /\ Ends' = Ends
  BY DEF FromImage, FromRaw, RawImage, Ends, FromRoot
<1>2. /\ Outputs \in Ends /\ Outputs \notin {<<>>, FromImage}
      /\ kind.layout # "rootfs only" => Outputs # FromRaw
  BY OutputsAreAnEnd DEF IInv
<1>3. \A o \in Output : disk'[o] # "none" => Mine(o)'
  BY DEF IInv, DiskIsKnown, Mine
<1> QED
  BY <1>1, <1>2, <1>3 DEF DiskIsKnown, Writing, Made, BoxIsThere, RootfsIsWritten

LEMMA AddGdbKeeps ==
  ASSUME IInv, AddGdb PROVE IInv'
<1>1. CASE mtree[LocalGdb] # "none" /\ mtree[Gdb] # "none"
  <2>1. AssertionFails
    BY <1>1 DEF AddGdb
  <2> QED
    BY <2>1, AssertionFailsKeeps
<1>2. CASE ~(mtree[LocalGdb] # "none" /\ mtree[Gdb] # "none")
  <2>1. /\ pc = "gdb" /\ pc' = "write"
        /\ mtree' = [mtree EXCEPT ![Gdb] = "gdb"]
        /\ todo' = Outputs
        /\ UNCHANGED <<extra, key, rootfs, box, oldPublic, kind, disk, extraFiles, lastKey>>
    BY <1>2 DEF AddGdb, user
  <2>2. Types'
    BY <2>1 DEF IInv, Types, Source, Stages
  <2>3. KeyIsKept'
    BY <2>1 DEF IInv, KeyIsKept
  <2>4. Created' = Created /\ AutoAdded' = AutoAdded
    BY <2>1 DEF Created, AutoAdded
  <2>5. Contents'
    <3> SUFFICES ASSUME NEW f \in File PROVE Wanted(f)'
      BY <2>1 DEF Contents, Preparation, BeforeExtraFiles, BeforeEntropy
    <3>1. mtree'[f] = "gdb" \/ mtree'[f] = mtree[f]
      BY <2>1 DEF IInv, Types
    <3>2. Wanted(f)
      BY <2>1 DEF IInv, Contents
    <3> QED
      BY <2>1, <2>4, <3>1, <3>2 DEF Wanted, FromUser, Overridden
  <2>6. DiskIsKnown'
    BY <2>1, WritingBegins
  <2> QED
    BY <2>2, <2>3, <2>5, <2>6 DEF IInv
<1> QED
  BY <1>1, <1>2

(* The steps that leave a complete manifest alone.                         *)
LEMMA WantedIsKept ==
  ASSUME Contents, UNCHANGED <<extra, rootfs, box, kind, mtree>>,
         pc \in {"gdb", "write", "writing"}, pc' \in {"write", "writing"}
  PROVE  Contents'
<1>1. Created' = Created /\ AutoAdded' = AutoAdded
  BY DEF Created, AutoAdded
<1>2. SUFFICES ASSUME NEW f \in File PROVE Wanted(f)'
  BY DEF Contents, Preparation, BeforeExtraFiles, BeforeEntropy
<1>3. Wanted(f)
  BY DEF Contents
<1> QED
  BY <1>1, <1>3 DEF Wanted, FromUser, Overridden

LEMMA NoGdbKeeps ==
  ASSUME IInv, NoGdb PROVE IInv'
<1>1. /\ pc = "gdb" /\ pc' = "write" /\ todo' = Outputs
      /\ UNCHANGED <<extra, key, rootfs, box, oldPublic, kind, disk, extraFiles, mtree, lastKey>>
  BY DEF NoGdb, user
<1>2. Types'
  BY <1>1 DEF IInv, Types, Stages
<1>3. KeyIsKept'
  BY <1>1 DEF IInv, KeyIsKept
<1>4. Contents'
  BY <1>1, WantedIsKept DEF IInv
<1>5. DiskIsKnown'
  BY <1>1, WritingBegins
<1> QED
  BY <1>2, <1>3, <1>4, <1>5 DEF IInv

(* What the next command writes, and what is left to write after it.       *)
LEMMA NextOutput ==
  ASSUME Types, NEW s \in Ends, s # <<>>
  PROVE  \/ /\ s = FromImage /\ kind.qcow2
            /\ Head(s) = "image" /\ Tail(s) = <<>>
         \/ /\ s = FromRaw
            /\ Head(s) = RawImage /\ Tail(s) = FromImage
         \/ /\ s = FromRoot /\ kind.layout # "rootfs only"
            /\ Head(s) = "root" /\ Tail(s) = FromRaw
         \/ /\ s = <<"efi">> \o FromRoot /\ kind.layout \in {"gpt", "riscv"}
            /\ Head(s) = "efi" /\ Tail(s) = FromRoot
<1>1. CASE s = FromImage
  <2>1. kind.qcow2 /\ s = <<"image">>
    BY <1>1 DEF FromImage
  <2>2. Head(<<"image">>) = "image" /\ Tail(<<"image">>) = <<>>
    OBVIOUS
  <2> QED
    BY <1>1, <2>1, <2>2
<1>2. CASE s = FromRaw
  <2>1. Head(FromRaw) = RawImage /\ Tail(FromRaw) = FromImage
    BY TheEnds, InFront DEF FromRaw
  <2> QED
    BY <1>2, <2>1
<1>3. CASE s = FromRoot /\ kind.layout # "rootfs only"
  <2>1. "root" \in Output
    BY DEF Output
  <2>2. Head(FromRoot) = "root" /\ Tail(FromRoot) = FromRaw
    BY <2>1, TheEnds, InFront DEF FromRoot
  <2> QED
    BY <1>3, <2>2
<1>4. CASE s = <<"efi">> \o FromRoot /\ kind.layout \in {"gpt", "riscv"}
  <2>1. "efi" \in Output
    BY DEF Output
  <2>2. Head(<<"efi">> \o FromRoot) = "efi" /\ Tail(<<"efi">> \o FromRoot) = FromRoot
    BY <2>1, TheEnds, InFront
  <2> QED
    BY <1>4, <2>2
<1> QED
  BY <1>1, <1>2, <1>3, <1>4 DEF Ends

(* No two of the ends are the same, but for the two last of a kind that    *)
(* has no raw image.                                                       *)
LEMMA EndsDiffer ==
  ASSUME Types
  PROVE  /\ FromRaw \notin {<<>>, FromImage}
         /\ FromRoot \notin {<<>>, FromImage, FromRaw}
         /\ ~kind.qcow2 <=> FromImage = <<>>
<1>1. /\ Len(FromImage) \in Nat /\ Len(FromRaw) = 1 + Len(FromImage)
      /\ Len(FromRoot) = 1 + Len(FromRaw)
      /\ Len(<<>>) = 0
  <2>1. Len(FromImage) \in Nat /\ Len(<<>>) = 0
    BY TheEnds
  <2> QED
    BY <2>1, TheEnds
<1>2. FromRaw # <<>> /\ FromRaw # FromImage
  BY <1>1
<1>3. FromRoot # <<>> /\ FromRoot # FromImage /\ FromRoot # FromRaw
  BY <1>1
<1>4. ~kind.qcow2 <=> FromImage = <<>>
  <2>1. <<"image">> # <<>>
    OBVIOUS
  <2> QED
    BY <2>1 DEF FromImage
<1> QED
  BY <1>2, <1>3, <1>4

LEMMA PartitionsAre ==
  ASSUME Types
  PROVE  /\ kind.layout # "rootfs only" => "root" \in ToSet(Partitions)
         /\ kind.layout \in {"gpt", "riscv"} => "efi" \in ToSet(Partitions) \/ NoEfi
         /\ ToSet(Partitions) \subseteq {"root", "efi"}
<1>1. CASE kind.layout = "rootfs only"
  <2>1. Partitions = <<>>
    BY <1>1 DEF Partitions
  <2>2. ToSet(<<>>) = {}
    BY DEF ToSet
  <2> QED
    BY <2>1, <2>2, <1>1
<1>2. CASE kind.layout = "x86" \/ NoEfi
  <2>1. Partitions = <<"root">>
    BY <1>2 DEF Partitions, IncludeEfiPartition, NoEfi
  <2>2. ToSet(<<"root">>) = {"root"}
    BY DEF ToSet
  <2> QED
    BY <2>1, <2>2, <1>2
<1>3. CASE kind.layout \in {"gpt", "riscv"} /\ ~NoEfi
  <2>1. Partitions = <<"efi", "root">>
    BY <1>3 DEF Partitions, IncludeEfiPartition, NoEfi
  <2>2. ToSet(<<"efi", "root">>) = {"efi", "root"}
    BY DEF ToSet
  <2> QED
    BY <2>1, <2>2, <1>3
<1> QED
  BY <1>1, <1>2, <1>3, KindIs

(* A command starts: what it writes is there in part.                      *)
LEMMA CommandStartsKeeps ==
  ASSUME IInv, CommandStarts PROVE IInv'
<1>1. /\ pc = "write" /\ pc' = "writing" /\ todo # <<>> /\ todo \in Ends
      /\ disk' = [disk EXCEPT ![Head(todo)] = "partial"]
      /\ WritesRootfs(Head(todo)) /\ kind.minimal => mtree[Box] # "none"
      /\ UNCHANGED <<extra, key, rootfs, box, oldPublic, kind, extraFiles, mtree, todo, lastKey>>
  BY DEF CommandStarts, user, process, IInv, DiskIsKnown, Writing
<1>2. Types /\ Types'
  BY <1>1 DEF IInv, Types, Stages
<1>3. KeyIsKept'
  BY <1>1 DEF IInv, KeyIsKept
<1>4. Contents'
  BY <1>1, WantedIsKept DEF IInv
<1>5. DiskIsKnown'
  <2>1. FromImage' = FromImage /\ FromRaw' = FromRaw /\ Ends' = Ends
    BY <1>1 DEF FromImage, FromRaw, RawImage, Ends, FromRoot
  <2>2. Mine(Head(todo))
    BY <1>1, <1>2, NextOutput DEF Mine, RawImage
  <2>3. \A o \in Output : disk'[o] # "none" => Mine(o)'
    <3> SUFFICES ASSUME NEW o \in Output, disk'[o] # "none" PROVE Mine(o)'
      OBVIOUS
    <3>1. o = Head(todo) \/ disk[o] # "none"
      BY <1>1, <1>2 DEF Types
    <3>2. Mine(o)
      BY <2>2, <3>1 DEF IInv, DiskIsKnown
    <3> QED
      BY <1>1, <3>2 DEF Mine
  <2>4. ASSUME todo = FromImage
        PROVE  disk'["root"] = "none" /\ (disk'["efi"] = "none" \/ NoEfi')
    <3>1. disk["root"] = "none" /\ (disk["efi"] = "none" \/ NoEfi) /\ NoEfi' = NoEfi
      BY <1>1, <2>4 DEF IInv, DiskIsKnown, Writing, NoEfi
    <3>2. Head(todo) = "image"
      BY <1>1, <2>4 DEF FromImage
    <3>3. disk' = [disk EXCEPT !["image"] = "partial"] /\ "root" \in Output /\ "efi" \in Output
      BY <1>1, <3>2 DEF Output
    <3> QED
      BY <1>2, <3>1, <3>3 DEF Types
  <2>5. ASSUME todo = FromImage PROVE ContentsExist'
    BY <1>1, <2>5 DEF IInv, DiskIsKnown, Writing, ContentsExist
  <2>6. ASSUME kind.layout # "rootfs only", todo = FromRaw PROVE ContentsExist'
    BY <1>1, <2>6 DEF IInv, DiskIsKnown, Writing, ContentsExist
  <2>7. ~Made' /\ todo' = todo /\ kind' = kind
    BY <1>1 DEF Made
  <2>8. BoxIsThere'
    <3>1. RootfsIsWritten' = RootfsIsWritten /\ Writing
          /\ WritesRootfs(Head(todo))' = WritesRootfs(Head(todo))
      BY <1>1, <2>1 DEF RootfsIsWritten, Writing, WritesRootfs, RawImage
    <3> QED
      BY <1>1, <3>1 DEF IInv, DiskIsKnown, BoxIsThere
  <2> QED
    BY <1>1, <2>1, <2>3, <2>4, <2>5, <2>6, <2>7, <2>8 DEF DiskIsKnown, Writing
<1> QED
  BY <1>2, <1>3, <1>4, <1>5 DEF IInv

(* A command ends.  Of the files, by which one it has written:             *)
LEMMA WrittenFiles ==
  ASSUME IInv, CommandEnds, NEW o \in Output
  PROVE  /\ disk' \in [Output -> {"none", "partial", "whole"}]
         /\ disk'[o] # "none" => disk[o] # "none" \/ o = Head(todo)
         /\ Head(todo) \in {RawImage, "image"} /\ o \in Temporary(Head(todo))
              => disk'[o] = "none"
         /\ o = Head(todo)
              => disk'[o] = "whole"
                   \/ (Head(todo) \in {RawImage, "image"} /\ o \in Temporary(Head(todo)))
<1>1. disk \in [Output -> {"none", "partial", "whole"}]
  BY DEF IInv, Types
<1> DEFINE written == [disk EXCEPT ![Head(todo)] = "whole"]
           removed == IF Head(todo) \in {RawImage, "image"}
                      THEN Temporary(Head(todo)) ELSE {}
<1>2. written \in [Output -> {"none", "partial", "whole"}]
  BY <1>1
<1>3. disk' = IF Head(todo) \in {RawImage, "image"}
              THEN Without(written, Temporary(Head(todo))) ELSE written
  BY DEF CommandEnds
<1>4. \A f \in Output : disk'[f] = IF f \in removed THEN "none" ELSE written[f]
  <2>1. CASE Head(todo) \in {RawImage, "image"}
    BY <1>3, <2>1 DEF Without
  <2>2. CASE Head(todo) \notin {RawImage, "image"}
    BY <1>3, <2>2
  <2> QED
    BY <2>1, <2>2
<1>5. disk' \in [Output -> {"none", "partial", "whole"}]
  <2>1. CASE Head(todo) \in {RawImage, "image"}
    <3>1. \A f \in Output : written[f] \in {"none", "partial", "whole"}
      BY <1>2
    <3> HIDE DEF written
    <3> QED
      BY <1>3, <2>1, <3>1 DEF Without
  <2>2. CASE Head(todo) \notin {RawImage, "image"}
    BY <1>2, <1>3, <2>2
  <2> QED
    BY <2>1, <2>2
<1>6. written[o] = IF o = Head(todo) THEN "whole" ELSE disk[o]
  BY <1>1
<1> HIDE DEF written
<1> QED
  BY <1>4, <1>5, <1>6

LEMMA CommandEndsKeeps ==
  ASSUME IInv, CommandEnds PROVE IInv'
<1>1. /\ pc = "writing" /\ pc' = "write" /\ todo # <<>> /\ todo \in Ends
      /\ WritesRootfs(Head(todo)) => ContentsExist
      /\ todo' = Tail(todo)
      /\ UNCHANGED <<extra, key, rootfs, box, oldPublic, kind, extraFiles, mtree, lastKey>>
  BY DEF CommandEnds, user, IInv, DiskIsKnown, Writing
<1>2. Types /\ Types'
  <2>1. "image" \in Output
    BY DEF Output
  <2>2. disk' \in [Output -> {"none", "partial", "whole"}]
    BY <2>1, WrittenFiles
  <2> QED
    BY <1>1, <2>2 DEF IInv, Types, Stages
<1>3. KeyIsKept'
  BY <1>1 DEF IInv, KeyIsKept
<1>4. Contents'
  BY <1>1, WantedIsKept DEF IInv
<1>5. /\ FromImage' = FromImage /\ FromRaw' = FromRaw /\ Ends' = Ends
      /\ ContentsExist' = ContentsExist /\ NoEfi' = NoEfi
  BY <1>1 DEF FromImage, FromRaw, RawImage, Ends, FromRoot, ContentsExist, NoEfi
<1>6. \A o \in Output : disk'[o] # "none" => Mine(o)
  <2>1. Mine(Head(todo))
    BY <1>1, <1>2, NextOutput DEF Mine, RawImage
  <2> QED
    BY <2>1, WrittenFiles DEF IInv, DiskIsKnown
<1>7. {"root", "efi", "raw", "image"} = Output
  BY DEF Output
<1>8. \A o \in Output : disk'[o] # "none" => Mine(o)'
  BY <1>1, <1>6 DEF Mine
<1>13. ASSUME RootfsIsWritten' => WritesRootfs(Head(todo)) \/ RootfsIsWritten
       PROVE  BoxIsThere'
  <2>1. kind' = kind /\ mtree' = mtree /\ Writing /\ pc = "writing" /\ pc' # "writing"
    BY <1>1 DEF Writing
  <2> QED
    BY <1>13, <2>1 DEF IInv, DiskIsKnown, BoxIsThere
<1>9. ASSUME todo = FromImage, kind.qcow2, Head(todo) = "image", Tail(todo) = <<>>
      PROVE  DiskIsKnown'
  <2>1. Temporary(Head(todo)) = {"raw"}
    BY <1>9 DEF Temporary
  <2>2. disk'["raw"] = "none" /\ disk'["image"] = "whole"
    BY <1>7, <1>9, <2>1, WrittenFiles
  <2>3. disk["root"] = "none" /\ (disk["efi"] = "none" \/ NoEfi) /\ ContentsExist
    BY <1>1, <1>9 DEF IInv, DiskIsKnown, Writing
  <2>4. disk'["root"] = "none" /\ (disk'["efi"] = "none" \/ NoEfi)
    BY <1>7, <1>9, <2>3, WrittenFiles
  <2>5. todo' = <<>> /\ todo' \in Ends /\ FromRaw # <<>>
    BY <1>1, <1>2, <1>9, EndsDiffer DEF Ends
  <2>6. BoxIsThere'
    BY <1>9, <1>13 DEF RootfsIsWritten
  <2> QED
    BY <1>1, <1>5, <1>8, <2>2, <2>3, <2>4, <2>5, <2>6 DEF DiskIsKnown, Writing, Made
<1>10. ASSUME todo = FromRaw, Head(todo) = RawImage, Tail(todo) = FromImage
       PROVE  DiskIsKnown'
  <2>1. Temporary(Head(todo)) = ToSet(Partitions)
    BY <1>10 DEF Temporary, RawImage
  <2>2. disk'["root"] = "none" /\ (disk'["efi"] = "none" \/ NoEfi)
    <3>1. kind.layout # "rootfs only" => disk'["root"] = "none"
      BY <1>2, <1>7, <1>10, <2>1, PartitionsAre, WrittenFiles
    <3>2. kind.layout \in {"gpt", "riscv"} => disk'["efi"] = "none" \/ NoEfi
      BY <1>2, <1>7, <1>10, <2>1, PartitionsAre, WrittenFiles
    <3> QED
      BY <1>6, <1>7, <3>1, <3>2 DEF Mine
  <2>3. FromImage = <<>> => disk'["raw"] = "none" /\ disk'["image"] = "whole"
    <3> SUFFICES ASSUME FromImage = <<>> PROVE disk'["raw"] = "none" /\ disk'["image"] = "whole"
      OBVIOUS
    <3>1. ~kind.qcow2 /\ RawImage = "image"
      BY <1>2, EndsDiffer DEF RawImage
    <3>2. disk'["raw"] = "none"
      BY <1>6, <1>7, <3>1 DEF Mine
    <3>3. "image" \notin ToSet(Partitions)
      BY <1>2, PartitionsAre
    <3> QED
      BY <1>7, <1>10, <2>1, <3>1, <3>2, <3>3, WrittenFiles
  <2>4. ContentsExist
    <3>1. CASE kind.layout = "rootfs only"
      BY <1>1, <1>10, <3>1 DEF WritesRootfs
    <3>2. CASE kind.layout # "rootfs only"
      BY <1>1, <1>10, <3>2 DEF IInv, DiskIsKnown, Writing
    <3> QED
      BY <3>1, <3>2
  <2>5. todo' = FromImage /\ todo' \in Ends
    BY <1>1, <1>10 DEF Ends
  <2>6. BoxIsThere'
    <3>1. WritesRootfs(Head(todo)) \/ RootfsIsWritten
      BY <1>10 DEF WritesRootfs, RootfsIsWritten
    <3> QED
      BY <1>13, <3>1
  <2> QED
    BY <1>1, <1>5, <1>8, <2>2, <2>3, <2>4, <2>5, <2>6 DEF DiskIsKnown, Writing, Made
<1>11. ASSUME todo = FromRoot, kind.layout # "rootfs only",
              Head(todo) = "root", Tail(todo) = FromRaw
       PROVE  DiskIsKnown'
  <2>1. ContentsExist
    BY <1>1, <1>11 DEF WritesRootfs
  <2>2. todo' = FromRaw /\ todo' \in Ends /\ todo' \notin {<<>>, FromImage}
    BY <1>1, <1>2, <1>11, EndsDiffer DEF Ends
  <2>3. BoxIsThere'
    BY <1>11, <1>13 DEF WritesRootfs
  <2> QED
    BY <1>1, <1>5, <1>8, <2>1, <2>2, <2>3 DEF DiskIsKnown, Writing, Made
<1>12. ASSUME todo = <<"efi">> \o FromRoot, kind.layout \in {"gpt", "riscv"},
              Head(todo) = "efi", Tail(todo) = FromRoot
       PROVE  DiskIsKnown'
  <2>1. todo' = FromRoot /\ todo' \in Ends /\ todo' \notin {<<>>, FromImage, FromRaw}
    BY <1>1, <1>2, <1>12, EndsDiffer DEF Ends
  <2>2. BoxIsThere'
    BY <1>5, <1>13, <2>1 DEF RootfsIsWritten
  <2> QED
    BY <1>1, <1>5, <1>8, <2>1, <2>2 DEF DiskIsKnown, Writing, Made
<1> QED
  <2>1. DiskIsKnown'
    BY <1>1, <1>2, <1>9, <1>10, <1>11, <1>12, NextOutput
  <2> QED
    BY <1>2, <1>3, <1>4, <2>1 DEF IInv

(* A run returns, fails or is killed.                                      *)
LEMMA ReturnKeeps ==
  ASSUME IInv, Return PROVE IInv'
<1>1. Made /\ Abandon /\ lastKey' = key /\ UNCHANGED <<user, kind, disk>>
  BY DEF Return
<1>2. ContentsExist
  BY <1>1 DEF IInv, DiskIsKnown, Made, Writing
<1>3. lastKey' \in Keys /\ (lastKey' # NoKey => lastKey' = key /\ key.private # 0)
  BY <1>1, <1>2 DEF ContentsExist, IInv, Types
<1>4. /\ disk' \in [Output -> {"none", "partial", "whole"}]
      /\ \A o \in Output : disk'[o] # "none" => Mine(o)
  BY <1>1 DEF IInv, Types, DiskIsKnown
<1> QED
  BY <1>1, <1>3, <1>4, Abandoned DEF IInv

LEMMA FailKeeps ==
  ASSUME IInv, Fail PROVE IInv'
<1>1. Abandon /\ UNCHANGED <<user, kind>> /\ lastKey' = lastKey
  BY DEF Fail
<1>2. /\ disk \in [Output -> {"none", "partial", "whole"}]
      /\ \A o \in Output : disk[o] # "none" => Mine(o)
  BY DEF IInv, Types, DiskIsKnown
<1>3. /\ disk' \in [Output -> {"none", "partial", "whole"}]
      /\ \A o \in Output : disk'[o] # "none" => Mine(o)
  <2>1. CASE disk' = disk
    BY <1>2, <2>1
  <2>2. CASE disk' = Without(disk, ToSet(Partitions))
    BY <1>2, <2>2 DEF Without
  <2> QED
    BY <2>1, <2>2 DEF Fail
<1> QED
  BY <1>1, <1>3, Abandoned DEF IInv, Types, KeyIsKept

LEMMA CrashKeeps ==
  ASSUME IInv, Crash PROVE IInv'
<1>1. Abandon /\ UNCHANGED <<user, kind>> /\ lastKey' = lastKey /\ disk' = disk
  BY DEF Crash
<1> QED
  BY <1>1, Abandoned DEF IInv, Types, KeyIsKept, DiskIsKnown

-----------------------------------------------------------------------------
LEMMA Step ==
  ASSUME IInv, [Next]_vars PROVE IInv'
<1>1. CASE UNCHANGED vars
  <2>1. UNCHANGED <<extra, key, rootfs, box, oldPublic, kind, disk, extraFiles, mtree, todo, pc, lastKey>>
    BY <1>1 DEF vars, user, process
  <2>2. Types' /\ KeyIsKept'
    BY <2>1 DEF IInv, Types, KeyIsKept
  <2>3. Contents'
    BY <2>1
    DEF IInv, Contents, Preparation, ExtraIsListed, DefaultsAreThere, Wanted, FromUser,
        Overridden, Created, AutoAdded
  <2>4. DiskIsKnown'
    BY <2>1
    DEF IInv, DiskIsKnown, Mine, Writing, Made, ContentsExist, Ends, FromRoot, FromRaw,
        FromImage, RawImage, NoEfi, BoxIsThere, RootfsIsWritten, WritesRootfs
  <2> QED
    BY <2>2, <2>3, <2>4 DEF IInv
<1>2. CASE Next
  BY <1>2, UserKeeps, BeginKeeps, CreateFilesKeeps, SshKeygenKeeps, SshKeygenEndsKeeps,
     NoKeyIsAdded, AddAuthorizedKeysKeeps, AddEntropyKeeps, AddExtraFilesKeeps,
     AddUnlistedFilesKeeps, AddListedFilesKeeps, AddGdbKeeps, NoGdbKeeps,
     CommandStartsKeeps, CommandEndsKeeps, ReturnKeeps, FailKeeps, CrashKeeps
  DEF Next
<1> QED
  BY <1>1, <1>2

(* What is known of the manifest, of the disk and of the keys holds in     *)
(* every state, between the runs as well.                                  *)
THEOREM Invariance == Spec => []IInv
<1>1. Init => IInv
  BY Initially
<1>2. IInv /\ [Next]_vars => IInv'
  BY Step
<1> QED
  BY <1>1, <1>2, PTL DEF Spec

(* The variables have values of their types; at most four files are left   *)
(* to write.                                                               *)
THEOREM TypeCorrect == Spec => []TypeOK
<1>1. IInv => TypeOK
  <2> SUFFICES ASSUME IInv PROVE TypeOK
    OBVIOUS
  <2>1. todo \in Seq(Output) /\ Len(todo) <= 4
    <3>1. CASE Writing
      BY <3>1, TheEnds DEF IInv, DiskIsKnown
    <3>2. CASE ~Writing
      <4>1. todo = <<>>
        BY <3>2 DEF IInv, DiskIsKnown
      <4>2. <<>> \in Seq(Output) /\ Len(<<>>) <= 4
        OBVIOUS
      <4> QED
        BY <4>1, <4>2
    <3> QED
      BY <3>1, <3>2
  <2> QED
    BY <2>1 DEF IInv, Types, TypeOK, Keys, Stages
<1> QED
  BY <1>1, Invariance, PTL

(* An image that process() has made holds the user's files, the defaults   *)
(* and the files of the rootfs that its kind asks for, a minimal one those *)
(* of cheribsdbox.mtree, whatever the user has put into extra-files and    *)
(* earlier runs have left there.                                           *)
THEOREM HoldsWhatIsWanted == Spec => []ContentsAreWanted
<1>1. IInv => ContentsAreWanted
  <2> SUFFICES ASSUME IInv, Made, NEW f \in File
               PROVE  Wanted(f) /\ (kind.minimal => mtree[Box] # "none")
    BY DEF ContentsAreWanted, Wanted
  <2>1. Wanted(f)
    BY DEF IInv, Contents, Made
  <2>2. kind.minimal => mtree[Box] # "none"
    BY DEF IInv, DiskIsKnown, BoxIsThere, RootfsIsWritten, Made, Writing
  <2> QED
    BY <2>1, <2>2
<1> QED
  BY <1>1, Invariance, PTL

(* generate_ssh_host_keys() makes a key only if there is none, though it   *)
(* may be killed between the two files: an image that has been made has    *)
(* both, those of the last one, and those of one key unless the user has   *)
(* removed a private key and left its public one.                          *)
THEOREM KeepsTheHostKeys == Spec => []HostKeysAreKept
<1>1. IInv => HostKeysAreKept
  BY DEF IInv, DiskIsKnown, KeyIsKept, HostKeysAreKept, ContentsExist, Made, Writing
<1> QED
  BY <1>1, Invariance, PTL

(* make_disk_image() leaves the image and none of the files it makes it    *)
(* from, those of earlier runs that failed or were killed included.        *)
THEOREM LeavesOnlyTheImage == Spec => []OnlyTheImageIsLeft
<1>1. IInv => OnlyTheImageIsLeft
  <2> SUFFICES ASSUME IInv, Made, NEW o \in Output
               PROVE  \/ disk[o] = (IF o = "image" THEN "whole" ELSE "none")
                      \/ o = "efi" /\ NoEfi
    BY DEF OnlyTheImageIsLeft, NoEfi
  <2>1. disk["image"] = "whole" /\ disk["raw"] = "none"
    BY DEF IInv, DiskIsKnown
  <2>2. disk["root"] = "none" /\ (disk["efi"] = "none" \/ NoEfi)
    BY DEF IInv, DiskIsKnown, Made, Writing
  <2> QED
    BY <2>1, <2>2 DEF Output
<1> QED
  BY <1>1, Invariance, PTL
=============================================================================
