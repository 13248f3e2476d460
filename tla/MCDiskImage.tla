---------------------------- MODULE MCDiskImage ----------------------------
(***************************************************************************)
(* DiskImage for TLC: one file, or two, for each way into an image.  What  *)
(* is in an image is checked for those of one layout, and how an image     *)
(* gets to the disk for every layout, but with no files besides those that *)
(* the code names: the two meet in the order of the steps only.            *)
(***************************************************************************)
EXTENDS DiskImage, TLC

MCFile == {"etc/fstab", "etc/kyua/kyua.conf", "boot/entropy", "root/.ssh/authorized_keys",
           "usr/bin/gdb", "usr/local/bin/gdb", "usr/bin/clear", "bin/cheribsdbox",
           "boot/loader.efi"}

MCExtras ==
  ("etc/fstab" :> Extra) @@
  ("root/.ssh/authorized_keys" :> Extra) @@
  ("etc/kyua/kyua.conf" :> {"none"}) @@
  ("bin/cheribsdbox" :> {"none"}) @@
  ("boot/loader.efi" :> {"none"}) @@
  [f \in MCFile |-> {"none", "file"}]

MCInstalls ==
  ("etc/kyua/kyua.conf" :> {"none", "listed"}) @@
  ("usr/local/bin/gdb" :> {"none", "unlisted"}) @@
  ("usr/bin/clear" :> {"unlisted", "listed"}) @@
  ("boot/loader.efi" :> {"none", "listed"}) @@
  [f \in MCFile |-> {"none"}]

ContentsKinds ==
  [minimal: {FALSE}, layout: {"rootfs only"}, qcow2: {FALSE}, strip: {FALSE}] \cup
  [minimal: {TRUE}, layout: {"rootfs only"}, qcow2: {FALSE}, strip: BOOLEAN]

OutputKinds == [minimal: {FALSE}, layout: Layouts, qcow2: BOOLEAN, strip: {FALSE}]

MCKinds == ContentsKinds \cup OutputKinds

(* The state constraint that keeps the two apart.                          *)
FilesOrLayouts ==
  IF kind \in ContentsKinds
  THEN rootfs[Loader] = "listed" /\ key.private \in {0, 1}
  ELSE \A f \in File \ {Loader} : extra[f] = "none" /\ rootfs[f] \in {"none", "unlisted"}
=============================================================================
